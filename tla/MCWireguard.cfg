SPECIFICATION Spec
CONSTANTS
    OptionLists <- MCOptionLists
    Callers = {t1, t2, t3}
INVARIANTS
    TypeOK
    CleanUpReleases
    CloseReleases
    CalledOnce
    ClosedTopDown
CHECK_DEADLOCK FALSE
