SPECIFICATION InteriorSpec
CONSTANTS
    Horizon = 2
    MaxSnap = 3
    Ops = {"append","replace"}
    Batches = {{0, 1}, {0}}
    Chunks = {"one"}
    NoChunk = "none"
    Floor <- MCFloor
    Ceiling <- MCCeiling
PROPERTIES
    SkipLeavesNoOrphans
