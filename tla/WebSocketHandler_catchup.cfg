SPECIFICATION FairSpec
CONSTANTS
    d1 = d1
    d2 = d2
    w1 = w1
    w2 = w2
    NoSlot = NoSlot
    None = None
    Malformed = Malformed
    Devices = {d1, d2}
    IdOf <- MCTwoDevices
    Ids = {"gw-1", "gw-2"}
    Slots = {s1, s2}
    Viewers = {v1}
    Callers = {}
    Readings = {w1}
    Window = 1
    MaxCalls = 0
    MaxCuts = 0
PROPERTIES
    DashboardsCatchUp
    FrameIsAcknowledged
