SPECIFICATION FairSpec
CONSTANTS
    d1 = d1
    d2 = d2
    w1 = w1
    w2 = w2
    NoSlot = NoSlot
    None = None
    Malformed = Malformed
    Devices = {d1}
    IdOf <- MCOneDevice
    Ids = {"gw-1"}
    Slots = {s1, s2}
    Viewers = {}
    Callers = {c1}
    Readings = {w1}
    Window = 1
    MaxCalls = 1
    MaxCuts = 1
PROPERTIES
    GatewaysFollowOperator
