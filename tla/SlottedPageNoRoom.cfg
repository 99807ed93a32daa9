SPECIFICATION Spec
CONSTANTS
    PageSize = 30
    HeaderSize = 4
    SlotSize = 4
    Word = 128
    Sizes = {5, 20}
    Values = {a, b}
INVARIANT NoRoomMeansPageFull
