SPECIFICATION Spec
CONSTANTS
    Horizon = 3
    MaxSnap = 3
    Ops = {"append", "replace"}
    Batches = {{1}, {0, 2}}
    Chunks = {"one", "two"}
    NoChunk = "none"
    Floor <- MCFloor
    Ceiling <- MCCeiling
INVARIANTS
    TypeOK
    IInv
    NeverBehindBookmark
    ResumeSkipsOnlyMerged
PROPERTIES
    PublishedExactly
    PinFrozen
    ImplementsView
