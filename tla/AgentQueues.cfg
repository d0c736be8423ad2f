SPECIFICATION Spec
CONSTANTS
    MaxMessages = 3
    MaxRuns = 2
    MaxBatches = 0
    MaxCalls = 0
    ToolModes = {"sequential"}
    QueueModes <- AnyQueueMode
    Faults = {"listener"}
INVARIANTS
    DeliveredOnceInOrder
    NoMessageLost
CHECK_DEADLOCK FALSE
