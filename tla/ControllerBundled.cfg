SPECIFICATION FairSpec
CONSTANTS
    k1 = k1
    k2 = k2
    KCDs = {k1}
    Versions = {v1}
    Name <- OwnNames
    App <- OwnApps
    Blacklisted = {}
    Workers = {w1}
    MaxRetries = 1
    Bundling = TRUE
    ApiErrors = FALSE
    MaxRollouts = 1
    MaxCrashes = 0
    NoKCD = NoKCD
    NoOne = NoOne
PROPERTIES
    TrackerStarted
CHECK_DEADLOCK FALSE
