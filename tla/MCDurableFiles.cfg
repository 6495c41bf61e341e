SPECIFICATION MCFairSpec
CONSTANTS
    Artifact = {"v1", "v2", "v2b", "v3"}
    VersionOf <- MCVersionOf
    MaxGeneration = 3
    MaxAnswers = 1
    MaxUpdateFaults = 2
    Process = {p, q}
    Collector = q
    MaxIncarnations = 2
    MaxDiscards = 1
    MaxDiscardFaults = 1
    MaxPlans = 2
    MaxMediaFaults = 1
INVARIANTS
    TypesOK
    ActiveWasChecked
    
    ArchivedIsComplete
PROPERTIES
    ImplementsContract
    JournalResolves
    
    DiscardFinishes
CHECK_DEADLOCK FALSE
