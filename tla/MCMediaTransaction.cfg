SPECIFICATION MediaSpec
CONSTANTS
    MaxPlans = 1
    MaxMediaFaults = 0
INVARIANTS
    RollbackRemovesNew
CHECK_DEADLOCK FALSE
