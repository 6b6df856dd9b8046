SPECIFICATION Spec
CONSTANTS
    ann = ann
    bob = bob
    zoe = zoe
    s1 = s1
    s2 = s2
    fd1 = fd1
    fd2 = fd2
    Users <- MCUsers
    Askers <- MCAskers
    Members <- MCMembers
    Group = Group
    Fds <- MCFds
    VOID_FD = VOID_FD
    Nowhere = Nowhere
    Slaves <- MCSlaves
    Nobody = Nobody
    Capacity = 1
    MaxHistory = 1
    MaxEvents = 4
INVARIANTS
    TypeOK
    OnlyStaleNumbersMislead
    GroupIsOfMembers
PROPERTIES
    ImplementsRequestReply
CHECK_DEADLOCK FALSE
