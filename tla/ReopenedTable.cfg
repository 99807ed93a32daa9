CONSTANTS
    DataTypes = {"Int", "Boolean", "VarChar"}
    Numbers = {0, 27}
    Strings <- MCStrings
    MaxColumns = 3
    BitsPerByte = 2
    MaxRecord = 15
    Columns <- MCColumns
    TableNames <- MCTableNames
    Suffix <- MCSuffix
    MaxId = 1
    CatalogBits = 3
SPECIFICATION Sessions
INVARIANTS TypeOK RoundTrips AttrsAgree SchemaSurvives
CHECK_DEADLOCK FALSE
