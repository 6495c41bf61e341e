SPECIFICATION FairSpec
CONSTANTS
    Canceler = {c1, c2}
    Publisher = {p1}
PROPERTIES
    WaitsEnd
    ExpiredReturns
    ImplementsDecision
