SPECIFICATION Spec
CONSTANTS
    Tasks = {"sensor", "network", "websocket"}
    Free = Free
    Watts = {0, 1}
    RelayCount = 3
    MaxInbox = 2
INVARIANTS
    TypeOK
    MutexMatchesSections
    PriorityOrder
    NeverHalfShed
    FlagAndRelaysAgree
    TasksOnlyUseReadyParts
PROPERTIES
    StaggeredRestore
    ImplementsLoadBank
    SamplingNeverStalls
    HandlerReturns
