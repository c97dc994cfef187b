SPECIFICATION MCSpec
CONSTANTS
    DeliveryIds = {1, 2}
    MaxSent = 3
    MaxSendConnects = 2
    SendInflight = 2
    SendHwm = 2
    ReceiveMaximum = 1
    Persistence = FALSE
    SubscriberRefuses = FALSE
    Ids = {1, 2}
    MaxMessages = 3
    MaxInflight = 2
    MaxFaults = 2
    Faults = {"begin", "settle", "dispatch", "pubrel", "loss", "takeover", "restart"}
    Policies = {"received", "processed", "accepted"}
    Patience = {TRUE, FALSE}
    Refusals = {"new"}
    MaxConnects = 3
    MaxLifeFaults = 2
    LifeFaults = {"connect", "disconnect", "dispatch", "complete", "delete", "restart"}
    Expiries = {"zero", "finite", "never"}
INVARIANTS
    SettledOnce
    
    
PROPERTIES
    QueueAdvances
    ExchangesComplete
    
CHECK_DEADLOCK FALSE
