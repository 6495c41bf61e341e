SPECIFICATION Spec
CONSTANTS
    d1 = d1
    d2 = d2
    f1 = f1
    f2 = f2
    s1 = s1
    s2 = s2
    etag = etag
    Component = {"primary"}
    Session = {s1}
    Destination = {d1, d2}
    Fingerprint = {f1}
    Validator = {etag}
    ServedValidator = {"placed", etag}
    MaxBytes = 2
    MaxGeneration = 3
    MaxFaults = 2
    MaxMeddling = 1
    MaxInterrupts = 1
INVARIANTS
    TypeOK
    CommittedWasPublished
    ReadyIsRetryable
    CancelExcludesPublication
PROPERTIES
    TargetNeverReplaced
