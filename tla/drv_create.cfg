SPECIFICATION Spec
CONSTANTS
    Cookies = {k1, k2, k3}
    NoCookie = none
    MaxHiCookies = 1
    QueueDepth = 2
    ACs = {"BE", "VI"}
    Tsids = {1}
    Devs = {"eth1"}
    FirstDev = "eth1"
    Scenarios <- MCUserStreams
INVARIANTS
    NeverBackToBack
CHECK_DEADLOCK FALSE
