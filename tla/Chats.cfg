SPECIFICATION Spec
CONSTANTS
    n1 = n1
    n2 = n2
    n3 = n3
    fd1 = fd1
    fd2 = fd2
    s1 = s1
    s2 = s2
    UserNames <- MCUserNames
    GroupNames <- MCGroupNames
    Fds <- MCFds
    Slaves <- MCSlaves
    DISCONNECTED_FD = DISCONNECTED_FD
    Absent = Absent
    NoName = NoName
    Garbage = Garbage
    ClientOps = {"REGISTER_OP", "UNREGISTER_OP", "CREATEGROUP_OP", "ADDGROUP_OP", "DELGROUP_OP", "UNREGISTER_GROUP", "POSTTXT_OP", "POSTFILE_OP", "POSTTXTALL_OP", "GETFILE_OP"}
    OtherRow = OtherRow
    RowIds = {1, 2}
    MaxRequests = 3
    MayStop = TRUE
SYMMETRY Interchangeable
INVARIANTS
    TypeOK
    PostedReadable
    PrivatelyRead
    FilesSaved
CHECK_DEADLOCK FALSE
