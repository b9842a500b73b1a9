SPECIFICATION FairSpec
CONSTANTS
    MaxRetry = 3
    MaxEvents = 3
    MaxLosses = 3
CHECK_DEADLOCK FALSE
PROPERTIES
    ReconnectIsAutomatic
