SPECIFICATION FairSpec
CONSTANTS
    w1 = w1
    w2 = w2
    s1 = s1
    b1 = b1
    b2 = b2
    a1 = a1
    a2 = a2
    Listeners <- OneWrap
    Base <- OneBase
    Threads <- OneThreads
    Callers = {a1, a2}
    Loaded <- OneLoaded
    Conns = {c1,c2}
    Faults = {fault}
    ErrClosed = ErrClosed
    Nil = Nil
INVARIANTS
    WrapperTypeOK
    NoLeakedConn
    FailureReported
    CleanupClosesAll
PROPERTIES
    ImplementsListeners
    HeldIsReleased
    GoroutinesEnd
CHECK_DEADLOCK FALSE
