SPECIFICATION Spec
CONSTANTS
    t1 = t1
    t2 = t2
    t3 = t3
    Threads <- MCThreads
    NoThread = NoThread
    MaxCalls = 2
    Results = {"OK", "BUSY"}
INVARIANTS
    TypeOK
    StateMatches
    NoLostWakeup
    OKMeansExecuted
PROPERTIES
    ImplementsReadersWriters
    CallsReturn
CHECK_DEADLOCK FALSE
