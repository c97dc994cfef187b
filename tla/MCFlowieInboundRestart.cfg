SPECIFICATION Spec
CONSTANTS
    Ids = {1}
    MaxMessages = 2
    MaxInflight = 1
    MaxFaults = 1
    Faults = {"restart"}
    Policies = {"processed"}
    Patience = {TRUE}
    Refusals = {}
INVARIANT
    AckedWasProcessed
CHECK_DEADLOCK FALSE
