SPECIFICATION SpecOfBoth
CONSTANTS
    k1 = k1
    k2 = k2
    KCDs = {k1}
    Versions = {v1}
    Name <- OwnNames
    App <- OwnApps
    Blacklisted = {}
    Workers = {w1, w2}
    MaxRetries = 2
    Bundling = TRUE
    ApiErrors = TRUE
    MaxRollouts = 1
    MaxCrashes = 1
    NoKCD = NoKCD
    NoOne = NoOne
SYMMETRY Symmetry
INVARIANTS
    AllTypeOK
    ConfirmChannelOpen
    ConfirmationComing
    StartKept
PROPERTIES
    ImplementsController
CHECK_DEADLOCK FALSE
