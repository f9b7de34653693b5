SPECIFICATION Spec
CONSTANTS
    Offered <- All
    MaxSent = 2
    Configs <- AnyCut
    BufSize = 4096
INVARIANTS
    TypeOK
    HandledFollowsSent
PROPERTIES
    CutStaysInFrame
CHECK_DEADLOCK FALSE
