SPECIFICATION Spec
CONSTANTS
    e1 = e1
    e2 = e2
    Eps = {e1, e2}
    NoEp = none
    NumBufs <- MCBufs
    MaxMsgs = 3
    MaxBundle = 2
    Modes = {"sync", "async"}
    Contexts = {c1, c2}
    Others = TRUE
    MaxFaults = 1
INVARIANTS
    TypeOK
    IndicatedInOrder
    FetchesAnnounced
    BuffersAccounted
    AckedOnce
    DrainedWhenQuiet
    AckedWhenQuiet
SYMMETRY MCSymmetry
CHECK_DEADLOCK FALSE
