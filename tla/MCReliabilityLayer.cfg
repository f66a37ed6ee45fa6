CONSTANTS
    Channels = {0}
    Traffic <- Mixed
    MessageRange = 65536
    OrderRange = 65536
    Start = 65534
    OrderStart = 65535
    MaxPackets = 3
    MayGiveUp = TRUE
SPECIFICATION FairSpec
INVARIANTS TypeOK NothingLostOrDoubled
PROPERTIES ImplementsMessageChannel ReliableArrives
CHECK_DEADLOCK FALSE
