---------------------------- MODULE WindowRanges ----------------------------
(***************************************************************************)
(* The ranges of one refresh on the real calendar: _window_ranges with     *)
(* _floor_resume_to_chunk (executor.py) and the generator walk_buckets     *)
(* (detector.py).  Init calls it, each step yields one range.              *)
(***************************************************************************)
EXTENDS Calendar

CONSTANTS
    Moments,  \* where the data of a window may begin and end
    MaxSpan,  \* bound: length of a window
    NoChunk

ASSUME WindowAssumption == Moments \subseteq Nat /\ NoChunk \notin Granularities

VARIABLES
    gran,   \* the view's date_trunc granularity
    chunk,  \* its full_refresh_chunk
    lo, hi, \* the window, both ends inclusive
    mark,   \* resume_from
    start,  \* where the first range begins
    cur,    \* where the next range begins
    end,
    range   \* the range yielded last

vars == <<gran, chunk, lo, hi, mark, start, cur, end, range>>

NoMark == -1

Chunks(g) == {c \in Granularities : ChunkCompatible(g, c)} \union {NoChunk}

\* A marker is the end of a chunk, of any grid the view may have had before.
Marks(g) == {NoMark} \union {NextBucket(c, t) : c \in Chunks(g) \ {NoChunk}, t \in Moments}

\* Fault: a resumed window starts from its beginning.
FirstRangeAgain(c, s, m) == s

FirstRange(c, s, m) ==
    IF c = NoChunk \/ m = NoMark THEN s
    ELSE LET resume == FloorTo(c, m) IN IF s < resume THEN resume ELSE s

Init ==
    /\ gran \in Granularities
    /\ chunk \in Chunks(gran)
    /\ lo \in Moments /\ hi \in Moments /\ lo <= hi /\ hi - lo <= MaxSpan
    /\ mark \in Marks(gran)
    /\ LET bounds == Expand(IF chunk = NoChunk THEN gran ELSE chunk, lo, hi)
       IN  start = FirstRange(chunk, bounds[1], mark) /\ end = bounds[2]
    /\ cur = start
    /\ range = <<start, start>>

Yield ==
    /\ cur < end
    /\ cur' = IF chunk = NoChunk THEN end ELSE NextBucket(chunk, cur)
    /\ range' = <<cur, IF cur' < end THEN cur' ELSE end>>
    /\ UNCHANGED <<gran, chunk, lo, hi, mark, start, end>>

Next == Yield

Spec == Init /\ [][Next]_vars

-----------------------------------------------------------------------------
\* Every MERGE recomputes whole GROUP BY buckets of the view, for every
\* chunk that config.py accepts and whatever grid the marker comes from.
WholeBuckets == IsBoundary(gran, range[1]) /\ IsBoundary(gran, range[2])

\* The ranges of a window follow one another without gap or overlap, none is
\* empty, and the last one ends the window.
RangesTile ==
    [][/\ range'[1] = range[2] /\ range'[1] < range'[2] /\ range'[2] <= end
       /\ cur' >= end => range'[2] = end]_vars

\* The ranges begin at or before the window, or where earlier ticks left
\* off, and end after it: no row of the window is left out.
CoversWindow ==
    /\ start <= lo \/ (mark # NoMark /\ start <= mark)
    /\ hi < end

\* A resumed run merges the chunk of its marker again, but none before it.
ResumesAtChunk ==
    chunk # NoChunk /\ mark # NoMark /\ lo <= mark =>
        start <= mark /\ SameBucket(chunk, start, mark)

\* The bucket arithmetic is date_trunc: both ends of the window's bounds are
\* bucket boundaries, with no boundary between them and the window.
SnapsLikeDateTrunc ==
    \A t \in {lo, hi} :
        /\ SameBucket(gran, FloorTo(gran, t), t) /\ IsBoundary(gran, FloorTo(gran, t))
        /\ SameBucket(gran, NextBucket(gran, t) - 1, t) /\ IsBoundary(gran, NextBucket(gran, t))
=============================================================================
