SPECIFICATION Spec
CONSTANTS
    Horizon = 3
    MaxSnap = 3
    Ops = {"append", "delete"}
    Batches = {{1}, {0, 2}}
    Chunks = {"one"}
    NoChunk = "none"
    Floor <- MCFloor
    Ceiling <- MCCeiling
PROPERTIES
    DeletesFailLoudly
