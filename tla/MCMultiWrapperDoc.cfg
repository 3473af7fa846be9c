SPECIFICATION Spec
CONSTANTS
    w1 = w1
    w2 = w2
    s1 = s1
    b1 = b1
    b2 = b2
    a1 = a1
    a2 = a2
    Listeners <- TwoWraps
    Base <- TwoBases
    Threads <- TwoThreads
    Callers = {a1}
    Loaded <- OneLoaded
    Conns = {c1}
    Faults = {fault}
    ErrClosed = ErrClosed
    Nil = Nil
PROPERTIES
    DroppedOnlyWhenClosed
CHECK_DEADLOCK FALSE
