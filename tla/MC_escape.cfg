SPECIFICATION Spec
CONSTANTS
    Plain <- Classes
    MaxLen = 4
INVARIANTS
    TypeOK
    RoundTrip
    FirmwareAgrees
    WireIsPrintable
    DecodeNeverGrows
    FirmwareHasRoom
CHECK_DEADLOCK FALSE
