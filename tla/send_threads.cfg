SPECIFICATION Spec
CONSTANTS
    TotalCredits = 10
    PerMaxMsg = 2
    Senders = {s1, s2}
    Rx = rx
    NoThread = none
    Packets <- MCThreePackets
    ReusePackets = FALSE
    UsedServices = {"VI", "BE"}
    Streams = {"VI"}
    FlushModes = {}
    EpOf <- MCMixedEps
    Cost <- MCMixedCost
    DataPackets <- MCDataPackets
    MaxTxQueueDepth = 1
    FullActions = {"KEEP", "DROP"}
    MaxMsgPerBundle = 2
    BusRequests = 4
    HifMayFail = FALSE
    SeqModulus = 2
    MaxBatch = 2
SYMMETRY MCSymmetry
INVARIANTS
    TypeOK
    PacketsPlaced
    OneDrainer
    SentInOrder
    NoStalledQueue
CHECK_DEADLOCK FALSE
