SPECIFICATION Spec
CONSTANTS
    TotalCredits = 8
    PerMaxMsg = 2
    Senders = {s1}
    Rx = rx
    NoThread = none
    Packets <- MCThreePackets
    ReusePackets = FALSE
    UsedServices = {"VI", "BE"}
    Streams = {"VI", "BE"}
    FlushModes = {"flushAll", "flushData"}
    EpOf <- MCMixedEps
    Cost <- MCMixedCost
    DataPackets <- MCDataPackets
    MaxTxQueueDepth = 1
    FullActions = {"KEEP", "DROP"}
    MaxMsgPerBundle = 2
    BusRequests = 1
    HifMayFail = TRUE
    SeqModulus = 4
    MaxBatch = 2
INVARIANTS
    CreditConservation
    FreeCreditsInRange
    PacketsPlaced
PROPERTIES
    KeepsTheLedger
CHECK_DEADLOCK FALSE
