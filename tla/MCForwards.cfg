SPECIFICATION FairSpec
CONSTANTS
    N = 3
    Conns = {c1}
INVARIANTS
    TypeOK
    NoForgottenListener
    Isolation
    NoOrphan
PROPERTIES
    CancelCloses
    TunnelEnds
    StopDrains
CHECK_DEADLOCK FALSE
