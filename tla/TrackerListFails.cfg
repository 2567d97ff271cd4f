SPECIFICATION Spec
CONSTANTS
    KCDs = {k1, k2}
    Tracked = {k1}
    Deployments = {d1}
    FailedLogs = {c1}
    Updates = {u1}
    Workers = {w1, w2}
    InformerCap = 1
    MainCap = 1
    EndpointType = "http"
    ListCanFail = TRUE
    MaxRetries = 0
    BackoffLimit = 1
    NoMsg = NoMsg
INVARIANTS
    SendAllFinishEvents
