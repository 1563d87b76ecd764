SPECIFICATION MCSpec
CONSTANTS
    Horizon = 4
    Keys = {x, null}
    Null = null
    Queries <- MCQueries
    Batches <- MCBatches
    Stats = {"full", "null", "absent"}
    MaxRows = 2
    MaxAdded = 2
INVARIANTS
    OneRowPerGroup
CHECK_DEADLOCK FALSE
