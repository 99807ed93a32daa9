SPECIFICATION Spec
CONSTANTS
    Statements <- MCStatements
    MaxRows = 2
    MaxInt = 7
    MaxNesting = 6
    MaxName = 6
    Unit = 2
    Significands = 4
    MaxMag = 24
    Steps = {1, 2, 4, 8, 16, 32, 64, 128, 256}
INVARIANTS TypeOK WhereObeysLogic NamesFindColumns FailuresAreForeseeable
