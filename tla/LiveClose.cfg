SPECIFICATION FairSpec
CONSTANTS
    Sessions = {s}
    Connections = {c, d}
    None = None
    MaxCommands = 3
    Events = {"close"}
PROPERTIES CommandsSettle CloseReleasesAll
CHECK_DEADLOCK FALSE
