SPECIFICATION FairSpec
CONSTANTS
    Writers = {w1, w2, w3}
    Readers = {r1}
    Closers = {t1, t2}
    Nobody = Nobody
    Size = 2
    Count = 2
    Quota <- MCQuota
INVARIANTS
    TypeOK
    NoStuckPacket
    NoDuplicate
    FlowOrder
PROPERTIES
    CloseUnblocks
    PacketArrives
CHECK_DEADLOCK FALSE
