SPECIFICATION Spec
CONSTANTS
    Component = {video}
    Destination = {here, there}
    Fingerprint = {f1, f2}
    Validator = {etag}
    MaxBytes = 1
    MaxGeneration = 2
CHECK_DEADLOCK FALSE
INVARIANTS
    TypeOK
    ReconciliationResolvable
PROPERTIES
    DurableProgressKept
