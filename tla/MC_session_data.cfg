SPECIFICATION Spec
CONSTANTS
    Sessions = {s1, s2}
    Ports = {COM7, COM8}
    NoPath = NoPath
    NoDev = NoDev
    Bauds <- OneBaud
    ExclusiveOpen = TRUE
    CloseMayFail = FALSE
    MaxRequests = 4
    MaxRx = 0
PROPERTIES
    DataAnswered
CHECK_DEADLOCK FALSE
