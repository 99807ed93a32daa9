SPECIFICATION Spec
CONSTANTS
    Conns = {a, b, c}
    MaxStatements = 2
    Stalled = {a}
    StartFaults = FALSE
    Panics = TRUE
    None = None
INVARIANT LaterQueriesAnswered
CHECK_DEADLOCK FALSE
