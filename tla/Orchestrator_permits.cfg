SPECIFICATION FairSpec
CONSTANTS
    s1 = s1
    s2 = s2
    s3 = s3
    e1 = e1
    e2 = e2
    e3 = e3
    e4 = e4
    none = none
    Sessions <- ThreeSessions
    Entries <- FourEntries
    SessionOf <- OwnersSpread
    Limit = 2
    MaxAdmissions = 1
INVARIANTS
    PermitsCounted
    NoIdlePermit
PROPERTIES
    QueuedProgress
    WaiterServed
    DrainReturns
CHECK_DEADLOCK FALSE
