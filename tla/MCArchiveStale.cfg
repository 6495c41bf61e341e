SPECIFICATION Spec
CONSTANTS
    p1 = p1
    p2 = p2
    p3 = p3
    Process = {p1, p2, p3}
    Record = {"legacy", "id"}
    Canonical <- Renamed
    MaxCrashes = 1
    MaxFailures = 0
SYMMETRY Permuted
INVARIANTS
    RecordIsAtomic
