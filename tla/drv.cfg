SPECIFICATION Spec
CONSTANTS
    Cookies = {k1, k2, k3}
    NoCookie = none
    MaxHiCookies = 1
    QueueDepth = 1
    ACs = {"BE", "VI"}
    Tsids = {1, 9}
    Devs = {"eth1", "eth2"}
    FirstDev = "eth1"
    Scenarios <- MCScenarios
SYMMETRY MCSymmetry
INVARIANTS
    TypeOK
    CookiesAccounted
    PendingCounted
    ControlEpFullClears
    HighestActive
    QueueResumes
    NoBackToBackCreate
    ActiveHasPipe
CHECK_DEADLOCK FALSE
