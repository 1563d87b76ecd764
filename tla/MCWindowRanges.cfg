SPECIFICATION Spec
CONSTANTS
    FirstYear = 2024
    FirstWeekday = 0
    Slots = 2
    Moments <- MCMoments
    MaxSpan = 70
    NoChunk = "none"
INVARIANTS
    WholeBuckets
    CoversWindow
    ResumesAtChunk
    SnapsLikeDateTrunc
PROPERTIES
    RangesTile
CHECK_DEADLOCK FALSE
