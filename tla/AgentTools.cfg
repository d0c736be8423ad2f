SPECIFICATION Spec
CONSTANTS
    MaxMessages = 1
    MaxRuns = 2
    MaxBatches = 2
    MaxCalls = 2
    ToolModes <- AnyToolMode
    QueueModes = {"all"}
    Faults = {"listener"}
INVARIANTS
    TypeInvariant
    RequestSeesTranscript
    ToolResultsFollowCalls
    RequestHasAllResults
    TruncatedCallsNeverRun
CHECK_DEADLOCK FALSE
