SPECIFICATION LifeSpec
CONSTANTS
    MaxConnects = 2
    MaxLifeFaults = 1
    LifeFaults = {"close"}
    Expiries = {"finite"}
PROPERTY
    WillPublished
CHECK_DEADLOCK FALSE
