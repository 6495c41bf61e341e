SPECIFICATION FairSpec
CONSTANTS
    j1 = j1
    j2 = j2
    j3 = j3
    Job = {j1, j2, j3}
    Capacity = 3
    MaxCalls = 5
INVARIANTS
    TypeOK
    QueueIsConsistent
    ShutdownReachesAll
PROPERTIES
    CancelIsHonoured
    NoStarvation
CHECK_DEADLOCK FALSE
