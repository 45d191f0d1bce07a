SPECIFICATION Spec
CONSTANTS
    e1 = e1
    e2 = e2
    Eps = {e1}
    NoEp = none
    NumBufs <- MCTwoBufs
    MaxMsgs = 3
    MaxBundle = 2
    Modes = {"sync"}
    Contexts = {c1}
    Others = FALSE
    MaxFaults = 0
INVARIANTS
    StoppedOnlyWithoutBuffers
CHECK_DEADLOCK FALSE
