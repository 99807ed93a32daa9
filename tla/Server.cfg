SPECIFICATION FairSpec
CONSTANTS
    Conns = {a, b, c}
    MaxStatements = 2
    Stalled = {a}
    StartFaults = TRUE
    Panics = TRUE
    None = None
INVARIANTS
    TypeOK
    HandledSequentially
    RepliesInOrder
    ServedCompletely
PROPERTY EveryRequestEnds
CHECK_DEADLOCK FALSE
