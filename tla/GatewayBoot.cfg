SPECIFICATION BootSpec
CONSTANTS
    Missing = Missing
    Default <- MCDefault
    Sheets <- MCSheets
    Networks <- MCNetworks
    MaxRetry = 3
    MaxEvents = 3
    MaxLosses = 2
    MaxResets = 2
CHECK_DEADLOCK FALSE
INVARIANTS
    BootTypeOK
    HandlerHasItsGroup
    FailOnlyAfterAllRetries
    EveryKeyOnItsOwn
    UriNamesTheGateway
    UpAsProvisioned
PROPERTIES
    BootEnds
