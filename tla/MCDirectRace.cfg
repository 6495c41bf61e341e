SPECIFICATION MCFairSpec
CONSTANTS
    d1 = d1
    f1 = f1
    f2 = f2
    s1 = s1
    s2 = s2
    etag = etag
    Component = {"primary"}
    Session = {s1, s2}
    Destination = {d1}
    Fingerprint = {f1, f2}
    Validator = {etag}
    ServedValidator = {etag}
    MaxBytes = 2
    MaxGeneration = 4
    MaxFaults = 1
    MaxMeddling = 0
    MaxInterrupts = 1
INVARIANTS
    OneOutputPerDestination

    
