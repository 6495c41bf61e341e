SPECIFICATION MCFairSpec
CONSTANTS
    Representation = {"A", "B"}
    Tag <- Tags
    Size <- ThreeBytes
    Chunks = {0, 3}
    MaxAttempts = 2
    MaxCrashes = 2
    MaxFailures = 1
    MaxCancels = 1
    MaxChanges = 1
    PowerLoss = TRUE
    Version = {"p", "u", "v", "q"}
    Proof <- MCProof
    Plan <- MCPlan
    Segments = 2
    Worker = {"w1", "w2"}
    HostLimit = 1
    MaxLosses = 1
    MaxErrors = 1
    MaxStops = 1
    MaxRefreshes = 1
INVARIANTS
    TypesOK
    OneRepresentation
    LocalCheckpointIsTrue
    PayloadIsOneVersion
    AuthorityIsBacked
PROPERTIES
    
    FragmentsComplete
