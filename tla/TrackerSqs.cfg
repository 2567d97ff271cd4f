SPECIFICATION Spec
CONSTANTS
    KCDs = {k1}
    Tracked = {k1}
    Deployments = {d1}
    FailedLogs = {}
    Updates = {u1}
    Workers = {w1, w2}
    InformerCap = 1
    MainCap = 1
    EndpointType = "sqs"
    ListCanFail = TRUE
    MaxRetries = 0
    BackoffLimit = 1
    NoMsg = NoMsg
SYMMETRY Symmetry
INVARIANTS
    DrainedBeforeClose
    SettledReceived
