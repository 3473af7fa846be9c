SPECIFICATION FairSpec
CONSTANTS
  r1 = r1
  r2 = r2
  Routines <- MCRoutines
  Loggers <- MCLoggers
  Calls <- MCCalls
  MaxCalls <- MCMaxCalls
INVARIANTS
  Faithful
  InOrder
PROPERTIES
  EveryLoggerHears
