SPECIFICATION FairSpec
CONSTANTS
    Channels = {c1, c2}
    MaxServices = 2
    MaxGrid = 1
    MaxUnread = 2
    None = None
INVARIANTS
    TypeOK
    ConnectionOrTimer
    IndicatorMatchesConnection
    NothingIsMissed
PROPERTIES
    StreamStatusStays
    DisposedServicesLetGo
    ScreenCatchesUp
