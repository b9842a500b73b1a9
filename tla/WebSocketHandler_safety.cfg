SPECIFICATION Spec
CONSTANTS
    d1 = d1
    d2 = d2
    w1 = w1
    w2 = w2
    NoSlot = NoSlot
    None = None
    Malformed = Malformed
    Devices = {d1, d2}
    IdOf <- MCTwoDevices
    Ids = {"gw-1", "gw-2"}
    Slots = {s1, s2}
    Viewers = {}
    Callers = {c1}
    Readings = {w1, w2, Malformed}
    Window = 1
    MaxCalls = 1
    MaxCuts = 1
SYMMETRY Interchangeable
VIEW ServerView
INVARIANTS
    TypeOK
    MapHoldsOpenConnections
    OnlyOverlapLosesEntries
    PushContainsOwnReading
