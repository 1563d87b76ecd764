SPECIFICATION FairSpec
CONSTANTS
    Identities = {d1, d2}
    NumOps = 2
    Interval = 2
    Switches = {{2},{1,2}}
    MaxTotal = 1
INVARIANTS
    TypeOK
    BookmarkBelongs
PROPERTIES
    MaintenanceSpaced
    CountersSurvive
    FailuresStarveNone
