----------------------------- MODULE ChunkGrid -----------------------------
(***************************************************************************)
(* How a time window is cut into MERGE ranges (executor.py).  A chunk size *)
(* is a grid over the buckets, given by the two functions of its row in    *)
(* detector._BUCKETS.  Grids need not be uniform (months) nor nest (weeks  *)
(* and months).                                                            *)
(***************************************************************************)
EXTENDS SourceTable

CONSTANTS
    Chunks,   \* the values of full_refresh_chunk
    NoChunk,  \* full_refresh_chunk unset: one MERGE for the window
    Floor,    \* Floor[c][p]: start of the chunk that holds p
    Ceiling   \* Ceiling[c][p]: start of the next chunk after p

Positions == 0..Horizon

ASSUME ChunkAssumption ==
    /\ NoChunk \notin Chunks
    /\ Floor \in [Chunks -> [Positions -> Positions]]
    /\ Ceiling \in [Chunks -> [Buckets -> Positions]]
    /\ \A c \in Chunks, p \in Positions : Floor[c][p] <= p
    /\ \A c \in Chunks, b \in Buckets :
          b < Ceiling[c][b] /\ b < Ceiling[c][Floor[c][b]]

\* Chunks follow one another: floors are monotonic, and a chunk ends where the
\* next one begins, but for the last, which the horizon may cut.
ASSUME OrderAssumption ==
    \A c \in Chunks :
        /\ \A p, q \in Positions : p <= q => Floor[c][p] <= Floor[c][q]
        /\ \A b \in Buckets :
              Ceiling[c][b] < Horizon => Floor[c][Ceiling[c][b]] = Ceiling[c][b]

\* A single-shot range snaps to the view's own granularity, one bucket wide.
FloorOf(c, p) == IF c = NoChunk THEN p ELSE Floor[c][p]
\* Fault: a single-shot window is widened by one bucket too many.
NextBucketTooFar(c, b) == IF c = NoChunk THEN b + 2 ELSE Ceiling[c][b]

NextBucket(c, b) == IF c = NoChunk THEN b + 1 ELSE Ceiling[c][b]

\* _window_ranges and _floor_resume_to_chunk: where the ranges begin.  No
\* marker is 0, which clamps to the start of the window.
RangesStart(c, lo, mark) ==
    LET start == FloorOf(c, lo)
        resume == FloorOf(c, mark)
    IN  IF c = NoChunk \/ resume <= start THEN start ELSE resume

\* Fault: the window ends at the bucket of its last row instead of after it.
RangesEndNotSnapped(c, hi) == IF c = NoChunk THEN hi ELSE Floor[c][hi]

RangesEnd(c, hi) == NextBucket(c, hi)

\* End of the range that starts at cur (walk_buckets).
ChunkEnd(c, cur, end) ==
    IF c = NoChunk \/ end <= NextBucket(c, cur) THEN end ELSE NextBucket(c, cur)
=============================================================================
