SPECIFICATION Spec
CONSTANTS
    fd1 = fd1
    fd2 = fd2
    s1 = s1
    s2 = s2
    Slaves <- MCOneSlave
    Fds <- MCFds
    VOID_FD = VOID_FD
    ClientOps = {"GETFILE_OP"}
    MaxJobs = 2
PROPERTIES
    CloseUnused
CHECK_DEADLOCK FALSE
