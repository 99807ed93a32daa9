SPECIFICATION Spec
CONSTANTS
    PageSize = 30
    HeaderSize = 4
    SlotSize = 4
    Word = 128
    Sizes = {1, 2, 3, 5, 22, 121, 130}
    Values = {a, b}
INVARIANTS
    TypeOK
    SlotArrayIntact
PROPERTIES
    RecordsBehindNextEntryKept
    ImplementsRecordList
