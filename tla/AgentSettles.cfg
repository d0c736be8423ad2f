SPECIFICATION FairSpec
CONSTANTS
    MaxMessages = 2
    MaxRuns = 2
    MaxBatches = 1
    MaxCalls = 2
    ToolModes <- AnyToolMode
    QueueModes = {"all"}
    Faults = {"provider"}
PROPERTIES
    AgentEndIsLast
    RunSettles
CHECK_DEADLOCK FALSE
