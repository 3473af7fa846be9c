SPECIFICATION Spec
CONSTANTS
    Clients = {"c1", "c2"}
    ClientIP <- MCClientIP
    Endpoints <- MCEndpoints
    MaxKeys = 6
    Counters <- MCCounters
    IntBits = 3
    NoConfig = NoConfig
INVARIANTS
    PairConnects
    OnlyServer
    ReadBack
CHECK_DEADLOCK FALSE
