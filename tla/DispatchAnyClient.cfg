SPECIFICATION Spec
CONSTANTS
    fd1 = fd1
    fd2 = fd2
    s1 = s1
    s2 = s2
    Slaves <- MCSlaves
    Fds <- MCFds
    VOID_FD = VOID_FD
    ClientOps = {"REGISTER_OP", "POSTTXT_OP", "POSTFILE_OP", "GETFILE_OP", "UNREGISTER_OP", "DISCONNECT_OP", "UNKNOWN"}
    MaxJobs = 2
SYMMETRY Interchangeable
INVARIANTS
    EndingsExclusive
CHECK_DEADLOCK FALSE
