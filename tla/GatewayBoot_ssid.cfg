SPECIFICATION BootSpec
CONSTANTS
    Missing = Missing
    Default <- MCDefault
    Sheets <- MCSheets
    Networks <- MCNetworks
    MaxRetry = 2
    MaxEvents = 3
    MaxLosses = 2
    MaxResets = 1
CHECK_DEADLOCK FALSE
INVARIANTS
    SsidReachesTheDriver
