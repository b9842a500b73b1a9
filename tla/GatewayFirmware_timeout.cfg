SPECIFICATION Spec
CONSTANTS
    Tasks = {"sensor", "network", "websocket"}
    Free = Free
    Watts = {0, 1}
    RelayCount = 3
    MaxInbox = 1
INVARIANT
    TimeoutKeepsLoadsConnected
