SPECIFICATION WireSpec
CONSTANTS
    Lengths <- MCLengths
    max_allocable_buffer = 3
    Capacity = 3
    MaxMessages = 2
INVARIANTS
    WireTypeOK
    ReadAsSent
CHECK_DEADLOCK FALSE
