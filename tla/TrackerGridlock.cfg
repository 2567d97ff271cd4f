SPECIFICATION FairSpec
CONSTANTS
    KCDs = {}
    Tracked = {}
    Deployments = {d1}
    FailedLogs = {}
    Updates = {u1, u2, u3, u4}
    Workers = {w1}
    InformerCap = 1
    MainCap = 1
    EndpointType = "http"
    ListCanFail = FALSE
    MaxRetries = 0
    BackoffLimit = 0
    NoMsg = NoMsg
PROPERTIES
    QueuesEmptied
CHECK_DEADLOCK FALSE
