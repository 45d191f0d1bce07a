SPECIFICATION Spec
CONSTANTS
    TotalCredits = 8
    PerMaxMsg = 2
    Senders = {s1}
    Rx = rx
    NoThread = none
    Packets <- MCPackets
    ReusePackets = FALSE
    UsedServices = {"VI", "BE"}
    Streams = {"VI"}
    FlushModes = {}
    EpOf <- MCEpOf
    Cost <- MCCost
    DataPackets <- MCDataPackets
    MaxTxQueueDepth = 1
    FullActions = {"KEEP"}
    MaxMsgPerBundle = 1
    BusRequests = 4
    HifMayFail = FALSE
    SeqModulus = 4
    MaxBatch = 2
INVARIANTS
    LeftoversLeave
CHECK_DEADLOCK FALSE
