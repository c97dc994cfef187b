SPECIFICATION MCSpec
CONSTANTS
    Scenarios <- MCScenarios
    Capacity = 2
    MaxAttempts = 2
    MaxDelay = 2
    MaxInboundQos2 = 1
    Ids = {1, 2}
    Destroyers = {"d1", "d2"}
    MaxDrains = 1
    MaxOwners = 2
    Groups <- MCGroups
    Slots = {1}
    CommandCapacity = 1
    MaxStreams = 2
INVARIANTS
    CompletedOnceInOrder
    RecoverySound
    StreamsOwned
PROPERTIES
    EveryCommandCompletes
    StopCompletes
CHECK_DEADLOCK FALSE
