SPECIFICATION FairSpec
CONSTANTS
    NumTids = 2
    WinSz = 1
    SeqSpace = 8
    MaxFrames = 2
    NoFrame = none
    Peers <- MCTwoFrames
PROPERTIES
    HeldFramesLeave
CHECK_DEADLOCK FALSE
