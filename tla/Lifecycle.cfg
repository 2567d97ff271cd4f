SPECIFICATION FairSpec
CONSTANTS
    Workers = {w1, w2}
    MaxInterrupts = 3
INVARIANTS
    TypeOK
    ClosedOnce
    SuccessMeansDrained
    StopComing
PROPERTIES
    DrainedEnds
    StoppedEnds
CHECK_DEADLOCK FALSE
