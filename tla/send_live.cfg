SPECIFICATION FairSpec
CONSTANTS
    TotalCredits = 2
    PerMaxMsg = 1
    Senders = {s1, s2}
    Rx = rx
    NoThread = none
    Packets <- MCThreePackets
    ReusePackets = FALSE
    UsedServices = {"VI", "BE"}
    Streams = {}
    FlushModes = {}
    EpOf <- MCTwoEps
    Cost <- MCThreeCost
    DataPackets <- MCDataPackets
    MaxTxQueueDepth = 3
    FullActions = {"KEEP"}
    MaxMsgPerBundle = 1
    BusRequests = 4
    HifMayFail = FALSE
    SeqModulus = 4
    MaxBatch = 1
PROPERTIES
    QueuedPacketsLeave
CHECK_DEADLOCK FALSE
