SPECIFICATION Spec
CONSTANTS
    Prompts = {p}
    MaxRetries = 1
    MaxPrompts = 1
    MaxToolCalls = 0
    MaxTrouble = 2
    MaxInputs = 0
    MaxTotal = 3
    Inputs = {}
    Overlap = FALSE
INVARIANT ContinueAccepted
CHECK_DEADLOCK FALSE
