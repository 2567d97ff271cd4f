SPECIFICATION SystemFairSpec
CONSTANTS
    k1 = k1
    k2 = k2
    KCDs = {k1}
    Versions = {v1, v2}
    Name <- OwnNames
    App <- OwnApps
    Blacklisted = {}
    Workers = {w1}
    MaxRetries = 1
    Bundling = FALSE
    ApiErrors = FALSE
    MaxRollouts = 1
    MaxCrashes = 0
    Redeploys = FALSE
    NoKCD = NoKCD
    NoOne = NoOne
INVARIANTS
    LastKnownState
    StartHeard
    StartKept
    TrackerComing
    EndComing
PROPERTIES
    WaitEnds
    TrackerStarted
    EndReported
CHECK_DEADLOCK FALSE
