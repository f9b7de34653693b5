SPECIFICATION FairSpec
CONSTANTS
    Sessions = {s1}
    NoSession = NoSession
    RemotePath = COM7
    RemoteBaud = 115200
    MaxLocal = 2
    Ports = {COM7}
    NoPath = NoPath
    NoDev = NoDev
    Bauds <- OneBaud
    ExclusiveOpen = TRUE
    CloseMayFail = FALSE
    MaxRequests = 5
    MaxRx = 3
INVARIANTS
    TypeOK
    EndToEnd
PROPERTIES
    UpstreamSpec
    DownstreamSpec
    ReachesServer
    ReachesClient
CHECK_DEADLOCK FALSE
