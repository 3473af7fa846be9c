SPECIFICATION FairListenerSpec
CONSTANTS
    Listeners = {l1, l2}
    Threads = {t1, t2, t3}
    Conns = {c1}
    Faults = {fault}
    ErrClosed = ErrClosed
    Nil = Nil
INVARIANTS
    ListenerTypeOK
    SignalOnce
    ReasonBeforeDone
    OneReason
PROPERTIES
    ImplementsPort
    CallsReturn
