SPECIFICATION RetrySpec
CONSTANTS
    Horizon = 2
    MaxSnap = 2
    Ops = {"append"}
    Batches = {{0, 1}}
    Chunks = {"one"}
    NoChunk = "none"
    Floor <- MCFloor
    Ceiling <- MCCeiling
PROPERTIES
    Converges
