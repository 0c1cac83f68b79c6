SPECIFICATION Spec
CONSTANTS
    r1 = r1
    r2 = r2
    w1 = w1
    w2 = w2
    d1 = d1
    Runs <- TwoRuns
    Actions <- Calls
    RunOf <- CallsOf
    SideEffects <- OneWrite
    CommandActions = {}
    Kind <- Direct
    PlanSteps = 1
    ClarificationLimit = 1
    RecoveryLimit = 1
    QueueModes = {"queue"}
    MaxCrashes = 0
    MaxStops = 0
PROPERTIES
    TerminalIsFinal
CHECK_DEADLOCK FALSE
