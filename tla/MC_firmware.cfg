SPECIFICATION Spec
CONSTANTS
    Blocks = {1, 2, 3, 4, 5}
    NULL = NULL
    Keys <- SomeKeys
    Values <- SomeValues
    Limits = {0, 1, 2, 5}
    Wild = Wild
    Leftovers <- SomeLeftovers
INVARIANTS
    TypeOK
    HeapSound
    Owned
    InitAllOrNothing
CHECK_DEADLOCK FALSE
