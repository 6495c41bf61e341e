SPECIFICATION MCFairSpec
CONSTANTS
    p1 = p1
    p2 = p2
    p3 = p3
    Process = {p1, p2}
    Record = {"legacy", "id"}
    Canonical <- Renamed
    MaxCrashes = 1
    MaxFailures = 1
    Caller = {"a", "b"}
    Solver = {"s", "t"}
    Player = {"p", "q"}
    Jobs <- Pairs
    MaxCachedPlayers = 1
    MaxDisturbances = 2
INVARIANTS
    TypesOK
    OneHolder
    AcknowledgedStays
    TransformedOnce
    CancellationIsOwn
PROPERTIES
    ArchiveOperationsEnd
    SolverCallsReturn
