SPECIFICATION Spec
CONSTANTS
    Ids = {a, b, c, run, finished}
    Lanes <- OnlyMain
    Values = {v}
    None = None
    Requests <- BranchingWrites
    Repositories = {p, q}
    source = source
    copy = copy
    session = source
    forker = q
    run = run
    finished = finished
    Sessions = {source, copy}
    Ttl = 2
    HeartbeatInterval = 1
    Forks <- SomeForks
    Creatable = {source}
    Deletable = {}
    Writable = {source}
    Repairable = {source}
    MaxSequence = 4
    MaxTime = 0
    MaxClaims = 2
    MaxQueue = 1
SYMMETRY AnyIds
INVARIANTS DerivedTablesMatch
PROPERTIES ImplementsMemory
CHECK_DEADLOCK FALSE
