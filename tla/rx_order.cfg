SPECIFICATION Spec
CONSTANTS
    NumTids = 1
    WinSz = 2
    SeqSpace = 16
    MaxFrames = 8
    NoFrame = none
    Peers <- MCPeers
INVARIANTS
    TypeOK
    DeliveredInOrder
    NoFrameLost
    HeldInWindow
    HeldIsTimed
    QueueEmptyAtAddba
CHECK_DEADLOCK FALSE
