SPECIFICATION Spec
CONSTANTS
    fd1 = fd1
    fd2 = fd2
    s1 = s1
    s2 = s2
    u1 = u1
    u2 = u2
    Users <- MCUsers
    Fds <- MCFds
    Slaves <- MCSlaves
    DISCONNECTED_FD = DISCONNECTED_FD
    Absent = Absent
    ClientOps = {"REGISTER_OP", "CONNECT_OP", "UNREGISTER_OP", "USRLIST_OP"}
    MaxEvents = 5
SYMMETRY Interchangeable
INVARIANTS
    TypeOK
    OnlyOvertakenLinger
    NeverOvercounted
PROPERTIES
    NeverTakenOver
CHECK_DEADLOCK FALSE
