SPECIFICATION Spec
CONSTANTS
    NumTids = 1
    WinSz = 2
    SeqSpace = 16
    MaxFrames = 7
    NoFrame = none
    Peers <- MCShiftToZero
PROPERTIES
    OnlyOutsideDequeued
CHECK_DEADLOCK FALSE
