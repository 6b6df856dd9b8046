SPECIFICATION Spec
CONSTANTS
    fd1 = fd1
    fd2 = fd2
    s1 = s1
    s2 = s2
    Slaves <- MCSlaves
    Fds <- MCFds
    VOID_FD = VOID_FD
    ClientOps = {"POSTTXT_OP", "POSTFILE_OP", "UNREGISTER_OP"}
    MaxJobs = 2
INVARIANTS
    TypeOK
    DescriptorsKept
PROPERTIES
    ClosesOwnConnection
    HangupCloses
CHECK_DEADLOCK FALSE
