SPECIFICATION GapSpec
CONSTANTS
    Horizon = 2
    MaxSnap = 3
    Ops = {"append"}
    Batches = {{0}, {1}}
    Chunks = {"one"}
    NoChunk = "none"
    Floor <- MCFloor
    Ceiling <- MCCeiling
PROPERTIES
    PublishedExactly
