SPECIFICATION Spec
CONSTANTS
    Chats = {1, 2}
    Accounts = {1, 2}
    OwnerOf <- Owners
    Files = {1}
    MaxTexts = 2
    MaxClients = 2
    MaxSends = 2
    MaxFaults = 1
    MaxJobs = 2
    Indexers = {1, 2}
    Questions = {3}
    Chunks = 2
    MaxRequests = 1
    MaxAttempts = 2
    MaxVersions = 2
    TransientLimit = 2
    MissingLimit = 2
    MaxParts = 3
    Inputs = {1, 2}
    Outputs = {"done"}
    Window = 6
    StepTurns = 3
    RunTurns = 6
    MaxCalls = 7
VIEW Seen
INVARIANTS
    ComposedOnce
    ReadsOn
    AnswersFitTheScreen
    TasksReport
    ContextTrue
    QueueAgrees
    ChannelOnce
    CallsAccounted
    ReloadTrue
    AccountsAndPermissions
PROPERTIES
    DeletedWhenIdle
    PathKept
CHECK_DEADLOCK FALSE
