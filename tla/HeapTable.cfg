CONSTANTS
    Rows <- MCRows
    RowSize <- MCRowSize
    Filters <- MCFilters
    PageSize = 30
    HeaderSize = 2
    SlotSize = 4
    MaxPages = 4
    MaxKills = 1
    IOFaults = TRUE
SPECIFICATION Spec
INVARIANTS TypeOK ScanIsExact RidNamesRow FewNewPages
PROPERTY ImplementsRowBag
