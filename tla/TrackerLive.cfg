SPECIFICATION FairSpec
CONSTANTS
    KCDs = {k1}
    Tracked = {k1}
    Deployments = {d1}
    FailedLogs = {}
    Updates = {u1}
    Workers = {w1}
    InformerCap = 1
    MainCap = 2
    EndpointType = "http"
    ListCanFail = FALSE
    MaxRetries = 0
    BackoffLimit = 1
    NoMsg = NoMsg
PROPERTIES
    DeliversLive
    FinishReported
