SPECIFICATION Spec
CONSTANTS
    Prompts = {p, q}
    MaxRetries = 1
    MaxPrompts = 2
    MaxToolCalls = 1
    MaxTrouble = 3
    MaxInputs = 2
    MaxTotal = 4
    Inputs = {"queue", "clear", "custom", "bash", "meta", "abort", "abortCompaction", "compact", "navigate"}
    Overlap = FALSE
SYMMETRY Symmetry
CHECK_DEADLOCK FALSE
INVARIANTS
    SessionTyped
    StateMatchesSession
    ToolResultsAdjacent
    AttemptsAreBounded
    WaitersAreWoken
