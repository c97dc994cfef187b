SPECIFICATION Spec
CONSTANTS
    Ids = {1}
    MaxMessages = 2
    MaxInflight = 1
    MaxFaults = 0
    Faults = {}
    Policies = {"accepted"}
    Patience = {TRUE}
    Refusals = {}
PROPERTY
    AcceptedAcknowledged
CHECK_DEADLOCK FALSE
