\* A disk any access to which may fail.
CONSTANTS
    Files = {"t"}
    MaxPages = 3
    Bodies = {"empty"}
    EmptyBody = "empty"
    None = None
    NumFrames = 2
    Holders = {h1, h2, h3}
    IOFaults = TRUE
SYMMETRY HolderSymmetry
SPECIFICATION Spec
INVARIANTS
    PinsCountGuards
    GuardKeepsPage
    BlocksKeepTheirPage
    RefusedOnlyWhenAllPinned
