SPECIFICATION Spec
CONSTANTS
    s1 = s1
    s2 = s2
    s3 = s3
    e1 = e1
    e2 = e2
    e3 = e3
    e4 = e4
    none = none
    Sessions <- TwoSessions
    Entries <- FourEntries
    SessionOf <- OwnersThreeOne
    Limit = 1
    MaxAdmissions = 2
INVARIANTS
    TypeOK
    SerialSessions
    RunningFlag
    QueuedOnce
    WorkConserving
PROPERTIES
    ImplementsQueues
    DrainedMeansQuiet
CHECK_DEADLOCK FALSE
