SPECIFICATION FairSpec
CONSTANTS
    Sessions = {s1, s2}
    NoSession = NoSession
    RemotePath = COM7
    RemoteBaud = 115200
    MaxLocal = 1
    Ports = {COM7}
    NoPath = NoPath
    NoDev = NoDev
    Bauds <- OneBaud
    ExclusiveOpen = TRUE
    CloseMayFail = FALSE
    MaxRequests = 4
    MaxRx = 1
PROPERTIES
    Reconnects
CHECK_DEADLOCK FALSE
