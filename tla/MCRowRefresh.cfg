SPECIFICATION MCSpec
CONSTANTS
    Horizon = 4
    Keys = {x, y}
    Null = null
    Queries <- MCQueries
    Batches <- MCBatches
    Stats = {"full", "null", "absent"}
    MaxRows = 3
    MaxAdded = 2
INVARIANTS
    TypeOK
    MergeKeysGroup
    OneRowPerGroup
PROPERTIES
    PublishedResult
CHECK_DEADLOCK FALSE
