SPECIFICATION FairSpec
CONSTANTS
    Spans = {1, 2}
    ParentSpan <- Parents
    Readers = {1, 2}
    Services = {1}
    WriterCapacity = 2
    BatchSize = 2
    MaxMaintenance = 1
    MaxMishaps = 1
INVARIANTS
    WebShows
    AndroidShows
    TelemetryAccounts
PROPERTIES
    WebKeeps
    CatchesUp
CHECK_DEADLOCK FALSE
