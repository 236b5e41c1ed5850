SPECIFICATION Spec
CONSTANTS
    Update <- MCUpdate
    Token = {"a", "b"}
    NoToken = "none"
    TreeSize = 4
    FeeUnit = 2
    LastTree = 1
    MaxUpdates = 3
    GraphLimit = 2
    MaxItems = 3
INVARIANTS
    RowsMatchContract
    PagesComplete
    FeesAddUpOrBlock
    UnshieldKeysDiffer
CHECK_DEADLOCK FALSE
