SPECIFICATION FairSpec
CONSTANTS
    Handles = {g, h, i}
    None = None
    MaxRequests = 3
    MaxRevision = 1
    MaxConnects = 1
    MaxPrompts = 1
    Faults = {"open", "snapshot", "detach"}
INVARIANTS ClientTyped LeasesAreCounted RequestsAreSerial ActiveLeasesAreAttached NothingLeftAttached CleanupComesFirst
PROPERTIES CallsSettle
CHECK_DEADLOCK FALSE
