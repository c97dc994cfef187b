SPECIFICATION MCSpec
CONSTANTS
    MaxPacketId = 3
    MaxInflight = 3
    Deadlines = {"pending"}
    DeliveryIds = {1, 2}
    MaxSent = 3
    MaxSendConnects = 3
    SendInflight = 2
    SendHwm = 2
    ReceiveMaximum = 1
    Persistence = TRUE
    SubscriberRefuses = TRUE
INVARIANTS
    IndexAgrees
    DeliveriesRestorable
    
    WindowFenced
PROPERTIES
    NeverRegresses
    ImplementsOutbound
CHECK_DEADLOCK FALSE
