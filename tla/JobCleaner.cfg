SPECIFICATION FairSpec
CONSTANTS
    a1 = a1
    a2 = a2
    JobIds = {a1, a2}
    Name <- SameName
    MaxCrashes = 1
INVARIANTS
    TypeOK
    SlateExact
PROPERTIES
    CleanedUp
