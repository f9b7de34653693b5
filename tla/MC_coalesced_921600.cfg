SPECIFICATION Spec
CONSTANTS
    Offered <- All
    MaxSent = 3
    Configs <- Coalesced921600
    BufSize = 4096
INVARIANTS
    QuiescentDelivered
CHECK_DEADLOCK FALSE
