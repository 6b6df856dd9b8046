SPECIFICATION Spec
CONSTANTS
    fd1 = fd1
    fd2 = fd2
    Fds <- MCFds
    VOID_FD = VOID_FD
    NoSlaves = 3
    MaxSends = 2
    SpuriousWakeups = TRUE
INVARIANTS
    TypeOK
    ExclusionAboveSlave0
    NoLostWakeup
PROPERTIES
    OnlyRescanOverSlave0
    SendsComplete
CHECK_DEADLOCK FALSE
