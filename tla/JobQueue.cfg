SPECIFICATION Spec
CONSTANTS
    s1 = s1
    s2 = s2
    s3 = s3
    j1 = j1
    j2 = j2
    j3 = j3
    Slaves <- MCSlaves
    NoSlave = NoSlave
    Jobs <- MCJobs
    Unknown <- MCUnknown
    NoJob = NoJob
INVARIANTS
    TypeOK
    JobsConserved
    NoLostWakeup
    NobodySleepsThroughStop
PROPERTIES
    QueuedJobsTaken
    TerminationReachesAll
CHECK_DEADLOCK FALSE
