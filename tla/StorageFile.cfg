SPECIFICATION Spec
CONSTANTS
    MaxPages = 4
    Zero = Zero
    Blank = Blank
    Absent = Absent
    Values = {Zero, Blank, u, v}
    Modes = {"Table", "Catalog", "AnyPage"}
    IOFaults = TRUE
INVARIANTS
    TypeOK
    CountedPagesExist
    CountIsRight
    FooterTellsLength
PROPERTY ImplementsBlockFile
