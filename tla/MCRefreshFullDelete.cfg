SPECIFICATION Spec
CONSTANTS
    Horizon = 2
    MaxSnap = 3
    Ops = {"append","delete"}
    Batches = {{0}, {1}}
    Chunks = {"one"}
    NoChunk = "none"
    Floor <- MCFloor
    Ceiling <- MCCeiling
PROPERTIES
    FullRefreshDropsStaleRows
