SPECIFICATION Spec
CONSTANTS
    Sessions = {s}
    Connections = {c, d}
    None = None
    MaxCommands = 3
    Events = {"open", "snapshot", "dispose", "progress", "error"}
INVARIANTS RuntimesAreExclusive UnusedIsDisposed
SYMMETRY Symmetry
CHECK_DEADLOCK FALSE
