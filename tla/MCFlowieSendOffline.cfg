SPECIFICATION SendSpec
CONSTANTS
    DeliveryIds = {1, 2}
    MaxSent = 2
    MaxSendConnects = 2
    SendInflight = 2
    SendHwm = 2
    ReceiveMaximum = 1
    Persistence = TRUE
    SubscriberRefuses = FALSE
PROPERTY
    OfflineDelivered
CHECK_DEADLOCK FALSE
