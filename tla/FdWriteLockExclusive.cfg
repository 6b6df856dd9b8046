SPECIFICATION Spec
CONSTANTS
    fd1 = fd1
    fd2 = fd2
    Fds <- MCFds
    VOID_FD = VOID_FD
    NoSlaves = 2
    MaxSends = 2
    SpuriousWakeups = FALSE
INVARIANTS
    ExclusiveWriting
CHECK_DEADLOCK FALSE
