SPECIFICATION Spec
CONSTANTS
    OptionLists <- MCOptionLists
    Callers = {t1, t2, t3}
INVARIANTS
    NoLeakOnFailure
CHECK_DEADLOCK FALSE
