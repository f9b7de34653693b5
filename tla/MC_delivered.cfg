SPECIFICATION FairSpec
CONSTANTS
    Offered <- All
    MaxSent = 4
    Configs <- KindCuts
    BufSize = 4096
INVARIANTS
    QuiescentDelivered
PROPERTIES
    ChannelFairSpec
CHECK_DEADLOCK FALSE
