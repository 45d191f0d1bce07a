SPECIFICATION FairSpec
CONSTANTS
    Users = {u1}
    Senders = {s1}
    Irq = irq
    Admin = admin
    Task = task
    NoThread = nothread
    Requests = {r1, r2, r3}
    NoRequest = null
    ScatterRequests = 1
    Outcomes = {"ok"}
    MaxCalls = 2
    MaxStarts = 2
INVARIANTS
    TypeOK
    RequestsAccounted
    WokenAfterTransfer
    FlushedOnReturn
    MaskedIsQuiet
PROPERTIES
    KeepsOrder
    QueuedCarriedOut
    DisableReturns
CHECK_DEADLOCK FALSE
