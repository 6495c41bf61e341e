SPECIFICATION FairSpec
CONSTANTS
    Representation = {"A"}
    Tag <- Tags
    Size <- ThreeBytes
    Chunks = {1}
    MaxAttempts = 2
    MaxCrashes = 0
    MaxFailures = 0
    MaxCancels = 1
    MaxChanges = 0
    PowerLoss = FALSE
PROPERTIES
    ChunksAreCumulative
