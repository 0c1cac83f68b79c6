SPECIFICATION FairSpec
CONSTANTS
    r1 = r1
    r2 = r2
    w1 = w1
    w2 = w2
    d1 = d1
    Runs <- TwoRuns
    Actions <- ReadAndShell
    RunOf <- ReadAndShellOf
    SideEffects <- OneShell
    CommandActions <- Shells
    Kind <- PlanAndCommand
    PlanSteps = 1
    ClarificationLimit = 1
    RecoveryLimit = 1
    QueueModes = {"queue"}
    MaxCrashes = 1
    MaxStops = 1
PROPERTIES
    QueuedProgress
CHECK_DEADLOCK FALSE
