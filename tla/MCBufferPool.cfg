\* A disk that does not fail.
CONSTANTS
    Files = {"t"}
    MaxPages = 3
    Bodies = {"empty", "rows"}
    EmptyBody = "empty"
    None = None
    NumFrames = 2
    Holders = {h1, h2}
    IOFaults = FALSE
SYMMETRY HolderSymmetry
SPECIFICATION Spec
INVARIANTS
    TypeOK
    GuardedPageIsMapped
    FlushedIsDurable
PROPERTY ImplementsPageStore
