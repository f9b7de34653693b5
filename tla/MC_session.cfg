SPECIFICATION Spec
CONSTANTS
    Sessions = {s1, s2}
    Ports = {COM7, COM8}
    NoPath = NoPath
    NoDev = NoDev
    Bauds <- TwoBauds
    ExclusiveOpen = TRUE
    CloseMayFail = FALSE
    MaxRequests = 3
    MaxRx = 3
SYMMETRY Symmetry
INVARIANTS
    TypeOK
    DeviceMatchesConfig
PROPERTIES
    ReopenedOnlyForChange
    NoByteLost
CHECK_DEADLOCK FALSE
