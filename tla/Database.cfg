SPECIFICATION Spec
CONSTANTS
    Names = {users, orders, items}
    Rows = {r}
    Schemas = {narrow, wide}
    CatalogRoom = 2
    None = None
    Modes = {"Tame", "Killed"}
    IOFaults = TRUE
INVARIANTS
    TypeOK
    FilesNeverShared
    DenseCatalogResolves
    CatalogedRowsReadAsWritten
PROPERTY ImplementsTableSpace
