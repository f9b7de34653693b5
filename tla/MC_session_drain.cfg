SPECIFICATION FairSpec
CONSTANTS
    Sessions = {s1, s2}
    Ports = {COM7}
    NoPath = NoPath
    NoDev = NoDev
    Bauds <- OneBaud
    ExclusiveOpen = FALSE
    CloseMayFail = TRUE
    MaxRequests = 3
    MaxRx = 2
PROPERTIES
    UartDrained
CHECK_DEADLOCK FALSE
