SPECIFICATION Spec
CONSTANTS
    g1 = g1
    g2 = g2
    p1 = p1
    p2 = p2
    f1 = f1
    f2 = f2
    Gateways = {g1, g2}
    MaxReadings = 2
    Posts = {p1, p2}
    Frames = {f1, f2}
    GatewayOf <- MCGatewayOf
CHECK_DEADLOCK FALSE
INVARIANTS
    TypeOK
    KeepsTheLast
    NewerOutlivesOlder
    AnswerTellsWhatHappened
PROPERTIES
    ServerEnds
