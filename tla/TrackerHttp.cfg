SPECIFICATION Spec
CONSTANTS
    KCDs = {k1}
    Tracked = {k1}
    Deployments = {d1}
    FailedLogs = {c1}
    Updates = {u1, u2}
    Workers = {w1, w2}
    InformerCap = 1
    MainCap = 1
    EndpointType = "http"
    ListCanFail = FALSE
    MaxRetries = 0
    BackoffLimit = 0
    NoMsg = NoMsg
SYMMETRY Symmetry
INVARIANTS
    TypeOK
    WaitGroupCounts
    ChannelDiscipline
    AcceptedTracked
    NoResend
    FinishAcceptedBeforeClose
    SendAllFinishEvents
    SealedGoesOn
PROPERTIES
    Delivers
