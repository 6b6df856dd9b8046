SPECIFICATION Spec
CONSTANTS
    c1 = c1
    c2 = c2
    s1 = s1
    s2 = s2
    Slaves <- MCSlaves
    Clients <- MCClients
    Nobody = Nobody
    MaxRequests = 2
    MaxSignals = 2
INVARIANTS
    TypeOK
    NobodyMisledByStop
    NothingUsedAfterFree
PROPERTIES
    SignalEndsServer
CHECK_DEADLOCK FALSE
