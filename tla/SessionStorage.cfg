SPECIFICATION Spec
CONSTANTS
    Ids = {a, b, c}
    Lanes <- SomeLanes
    Values = {v, w}
    None = None
    Requests <- EveryWrite
    MaxSequence = 5
INVARIANTS StateTyped TreeIsSound ForkReproducesBranch OneOpenOperation
PROPERTY EntriesAreImmutable
CHECK_DEADLOCK FALSE
