SPECIFICATION Spec
CONSTANTS
    d1 = d1
    d2 = d2
    f1 = f1
    f2 = f2
    s1 = s1
    s2 = s2
    etag = etag
    Component = {"primary"}
    Session = {s1}
    Destination = {d1}
    Fingerprint = {f1}
    Validator = {etag}
    ServedValidator = {"placed"}
    MaxBytes = 1
    MaxGeneration = 3
    MaxFaults = 1
    MaxMeddling = 0
    MaxInterrupts = 0
PROPERTIES
    TransfersAgain
