SPECIFICATION Spec
CONSTANTS
    Ids = {a}
    Lanes <- OnlyMain
    Values = {v}
    None = None
    Requests <- NameWrites
    Repositories = {p, q}
    source = source
    copy = copy
    session = source
    forker = q
    run = run
    finished = finished
    Sessions = {source}
    Ttl = 2
    HeartbeatInterval = 1
    Forks <- NoForks
    Creatable = {source}
    Deletable = {source}
    Writable = {source}
    Repairable = {source}
    MaxSequence = 2
    MaxTime = 3
    MaxClaims = 3
    MaxQueue = 1
SYMMETRY Processes
INVARIANTS SqliteTyped LeaseIsKept
PROPERTIES WritesAreFenced
CHECK_DEADLOCK FALSE
