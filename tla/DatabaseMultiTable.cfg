SPECIFICATION Spec
CONSTANTS
    Names = {users, orders, items, notes}
    Rows = {r}
    Schemas = {narrow}
    CatalogRoom = 4
    None = None
    Modes = {"Killed"}
    IOFaults = FALSE
INVARIANT NameResolvesToOwnTable
