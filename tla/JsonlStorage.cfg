SPECIFICATION FairSpec
CONSTANTS
    Ids = {a, b}
    Lanes <- SomeLanes
    Values = {v}
    None = None
    Requests <- MixedWrites
    ForkRequests <- SomeForks
    MaxRequests = 3
    MaxCrashes = 2
    MaxForks = 1
    Faults = {"append", "repair"}
INVARIANTS AcknowledgedIsDurable MemoryMatchesFile ForksAreComplete
PROPERTIES ImplementsMemoryStorage WritesSettle
CHECK_DEADLOCK FALSE
