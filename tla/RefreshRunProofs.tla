-------------------------- MODULE RefreshRunProofs --------------------------
(***************************************************************************)
(* Two action properties of the runs of RefreshView, for every value of    *)
(* the constants: the pin and the marker of a run in flight (PinFrozen),   *)
(* and deletes in the source (DeletesFailLoudly).  The second needs no     *)
(* NoDeletes, hence an invariant of its own.                               *)
(***************************************************************************)
EXTENDS RefreshProofs

(***************************************************************************)
(* PinFrozen.                                                              *)
(***************************************************************************)
\* A tick that records markers never records one below the marker it found.
MarkInv ==
    pc \in {"merge", "record"} /\ tick.multi => work.mark <= TickChunkEnd

\* The first range of a resumed run of several ranges ends after the marker,
\* whatever grid the marker comes from.
LEMMA FirstRangePassesMark ==
    ASSUME NEW c \in Sizes, NEW lo \in Buckets, NEW mark \in Positions, NEW end \in Positions,
           RangesStart(c, lo, mark) < end,
           ChunkEnd(c, RangesStart(c, lo, mark), end) < end
    PROVE  mark <= ChunkEnd(c, RangesStart(c, lo, mark), end)
<1> DEFINE cur == RangesStart(c, lo, mark)
           next == NextBucket(c, cur)
<1>1. /\ Horizon \in Nat \ {0} /\ end <= Horizon
      /\ mark \in Nat /\ lo \in Nat /\ end \in Nat
  BY SourceAssumption DEF Positions, Buckets
<1>2. c # NoChunk /\ c \in Chunks /\ ChunkEnd(c, cur, end) = next /\ next < end
  BY <1>1 DEF ChunkEnd, Sizes
<1>3. /\ \A p \in Positions : Floor[c][p] \in Positions /\ Floor[c][p] <= p
      /\ cur = IF Floor[c][mark] <= Floor[c][lo] THEN Floor[c][lo] ELSE Floor[c][mark]
  <2>1. Floor[c] \in [Positions -> Positions]
    BY <1>2, ChunkAssumption
  <2>2. \A p \in Positions : Floor[c][p] \in Positions /\ Floor[c][p] <= p
    BY <1>2, <2>1, ChunkAssumption
  <2> QED  BY <1>2, <2>2 DEF RangesStart, FloorOf
<1>4. lo \in Positions /\ cur \in Positions /\ cur \in Buckets
  BY <1>1, <1>3 DEF Positions, Buckets
<1>5. next = Ceiling[c][cur] /\ next \in Positions /\ cur < next /\ next < Horizon
  <2>1. next = Ceiling[c][cur]
    BY <1>2 DEF NextBucket
  <2> QED  BY <1>1, <1>2, <1>4, <2>1, GridTyped DEF Positions
<1>6. Floor[c][next] = next
  BY <1>2, <1>4, <1>5, OrderAssumption
<1>7. next <= mark => next <= Floor[c][mark]
  BY <1>2, <1>5, <1>6, OrderAssumption
<1>8. Floor[c][mark] <= cur
  BY <1>3, <1>4 DEF Positions
<1>9. Floor[c][mark] \in Nat /\ cur \in Nat /\ next \in Nat
  BY <1>1, <1>3, <1>4, <1>5 DEF Positions
<1>10. mark <= next
  BY <1>1, <1>5, <1>7, <1>8, <1>9
<1> QED  BY <1>2, <1>10

\* BeginRanges sets out behind the persisted marker, which the tick has read.
LEMMA BeginMark ==
    ASSUME TypeOK, NEW lo \in Buckets, NEW hi \in Buckets, BeginRanges(lo, hi),
           work'.mark = tick.mark
    PROVE  MarkInv'
<1>1. tick \in Ticks /\ tick.chunk \in Sizes /\ tick.mark \in Positions
  BY DEF TypeOK, Ticks
<1> DEFINE start == RangesStart(tick.chunk, lo, tick.mark)
           end == RangesEnd(tick.chunk, hi)
           many == start < end /\ ChunkEnd(tick.chunk, start, end) < end
<1>2. end \in Positions
  BY <1>1, RangesBounds
<1>3. many => tick.mark <= ChunkEnd(tick.chunk, start, end)
  BY <1>1, <1>2, FirstRangePassesMark
<1>4. tick' = [tick EXCEPT !.lo = lo, !.hi = hi, !.cur = start, !.end = end, !.multi = many]
  BY DEF BeginRanges
<1> HIDE DEF start, end, many
<1>5. /\ tick'.chunk = tick.chunk /\ tick'.cur = start /\ tick'.end = end
      /\ tick'.multi = many
  BY <1>1, <1>4 DEF Ticks
<1> QED  BY <1>3, <1>5 DEF MarkInv, TickChunkEnd

\* Every step preserves it.
LEMMA MarkStep ==
    ASSUME IInv, MarkInv, [Next]_vars
    PROVE  MarkInv'
<1> USE DEF sourceVars
<1>i. TypeOK /\ TickInv
  BY DEF IInv
<1>1. CASE pc' \notin {"merge", "record"}
  BY <1>1 DEF MarkInv
<1>2. CASE ListWindow
  <2>1. CASE \E lo, hi \in Buckets : tick.resumed /\ BeginRanges(lo, hi)
    <3>1. work'.mark = tick.mark
      BY <1>i, <1>2, <2>1 DEF ListWindow, TickInv
    <3> QED  BY <1>i, <2>1, <3>1, BeginMark
  <2>2. CASE pc' \notin {"merge", "record"}
    BY <2>2 DEF MarkInv
  <2> QED  BY <1>2, <2>1, <2>2 DEF ListWindow, Fail
<1>3. CASE PinRun
  <2>1. CASE ~tick.full
    <3>1. work'.mark = tick.mark
      BY <1>i, <1>3 DEF PinRun, TickInv, Detecting
    <3>2. tick.lo \in Buckets /\ tick.hi \in Buckets /\ BeginRanges(tick.lo, tick.hi)
      BY <1>i, <1>3, <2>1 DEF PinRun, TypeOK, Ticks
    <3> QED  BY <1>i, <3>1, <3>2, BeginMark
  <2>2. CASE tick.full
    BY <1>3, <2>2 DEF PinRun, MarkInv
  <2> QED  BY <2>1, <2>2
<1>4. CASE ReadFiles
  <2>1. CASE \E lo, hi \in Buckets : BeginRanges(lo, hi)
    <3>1. work'.mark = tick.mark
      BY <1>i, <1>4 DEF ReadFiles, TickInv
    <3> QED  BY <1>i, <2>1, <3>1, BeginMark
  <2>2. CASE pc' = "complete"
    BY <2>2 DEF MarkInv
  <2> QED  BY <1>4, <2>1, <2>2 DEF ReadFiles
<1>5. CASE RecordChunk
  <2>1. CASE pc' = "merge" /\ tick.multi
    <3>1. /\ tick' = [tick EXCEPT !.cur = TickChunkEnd, !.done = tick.done + 1]
          /\ work' = [m |-> tick.m, mark |-> TickChunkEnd]
          /\ TickChunkEnd < tick.end
      BY <1>5, <2>1 DEF RecordChunk
    <3>2. /\ tick'.cur = TickChunkEnd /\ tick'.end = tick.end /\ tick'.chunk = tick.chunk
          /\ tick.chunk \in Sizes /\ tick.end \in Positions
      BY <1>i, <3>1 DEF TypeOK, Ticks
    <3>3. TickChunkEnd \in Positions
      BY <1>5, RunningChunk DEF RecordChunk, IInv, Running
    <3>4. TickChunkEnd \in Buckets
      BY <3>1, <3>2, <3>3, SourceAssumption DEF Positions, Buckets
    <3> DEFINE cur == TickChunkEnd
    <3> HIDE DEF cur
    <3>5. cur < ChunkEnd(tick.chunk, cur, tick.end) /\ cur \in Nat
          /\ ChunkEnd(tick.chunk, cur, tick.end) \in Nat
      BY <3>1, <3>2, <3>4, ChunkEndBounds, GridTyped DEF cur
    <3>6. TickChunkEnd' = ChunkEnd(tick.chunk, cur, tick.end)
      BY <3>2 DEF cur, TickChunkEnd
    <3> QED  BY <3>1, <3>5, <3>6 DEF MarkInv, cur
  <2>2. CASE pc' = "merge" /\ ~tick.multi
    <3>1. tick'.multi = tick.multi
      BY <1>i, <1>5 DEF RecordChunk, TypeOK, Ticks
    <3> QED  BY <2>2, <3>1 DEF MarkInv
  <2> QED  BY <1>5, <2>1, <2>2, <1>1 DEF RecordChunk
<1>6. CASE UNCHANGED <<tick, work>> /\ (pc' = pc \/ MergeChunk)
  BY <1>6 DEF MarkInv, TickChunkEnd, MergeChunk
<1>7. CASE \/ StartTick \/ CheckPin \/ DiscardWork \/ ReadCurrent \/ Probe
           \/ MergeFails \/ CompleteRun \/ SkipTick \/ ClearWork \/ Interrupt
  BY <1>7, <1>1 DEF StartTick, CheckPin, DiscardWork, ReadCurrent, Probe, MergeFails,
                    CompleteRun, SkipTick, ClearWork, Interrupt, Fail
<1>8. CASE \/ LateCommit \/ \E c \in Sizes : EditChunk(c)
           \/ SourceCommit \/ SourceExpire \/ UNCHANGED vars
  BY <1>8, <1>6 DEF LateCommit, EditChunk, SourceCommit, SourceExpire, refreshVars, vars
<1>9. CASE MergeChunk
  BY <1>9, <1>6 DEF MergeChunk
<1> QED  BY <1>2, <1>3, <1>4, <1>5, <1>7, <1>8, <1>9 DEF Next, TickStep

\* One step of a run keeps its pin and does not move its marker back.
LEMMA PinKept ==
    ASSUME IInv, MarkInv, [Next]_vars, work.m # NoSnap, work'.m # NoSnap
    PROVE  work'.m = work.m /\ work'.mark >= work.mark
<1>i. TypeOK /\ TickInv /\ work.mark \in Nat
  BY GridTyped DEF IInv, TypeOK
<1>1. CASE UNCHANGED work
  BY <1>i, <1>1
<1>2. CASE RecordChunk
  <2>1. pc = "record" /\ work.m = tick.m
    BY <1>i, <1>2 DEF RecordChunk, TickInv, Running
  <2>2. CASE tick.multi
    <3>1. work' = [m |-> tick.m, mark |-> TickChunkEnd]
      BY <1>2, <2>2 DEF RecordChunk
    <3>2. TickChunkEnd \in Nat
      BY <2>1, RunningChunk, GridTyped DEF IInv
    <3> QED  BY <1>i, <2>1, <2>2, <3>1, <3>2 DEF MarkInv
  <2>3. CASE ~tick.multi
    BY <1>1, <1>2, <2>3 DEF RecordChunk
  <2> QED  BY <2>2, <2>3
<1>3. CASE PinRun
  BY <1>i, <1>3 DEF PinRun, TickInv, Detecting
<1>4. CASE DiscardWork \/ ClearWork
  BY <1>4 DEF DiscardWork, ClearWork, NoWork
<1>5. CASE \/ StartTick \/ CheckPin \/ ReadCurrent \/ Probe \/ ListWindow \/ ReadFiles
           \/ MergeChunk \/ MergeFails \/ CompleteRun \/ SkipTick
  BY <1>1, <1>5 DEF StartTick, CheckPin, ReadCurrent, Probe, ListWindow, ReadFiles,
                    MergeChunk, MergeFails, CompleteRun, SkipTick
<1>6. CASE \/ Interrupt \/ LateCommit \/ \E c \in Sizes : EditChunk(c)
           \/ SourceCommit \/ SourceExpire \/ UNCHANGED vars
  BY <1>1, <1>6 DEF Interrupt, LateCommit, EditChunk, SourceCommit, SourceExpire,
                    refreshVars, vars
<1> QED  BY <1>2, <1>3, <1>4, <1>5, <1>6 DEF Next, TickStep

\* A run in flight keeps its pin, and its marker never goes back, through
\* interruptions and through edits of full_refresh_chunk to grids that do not nest.
THEOREM PinStaysFrozen ==
    ASSUME NoDeletes
    PROVE  Spec => PinFrozen
<1>1. Init => MarkInv
  BY DEF Init, MarkInv
<1>2. IInv /\ MarkInv /\ [Next]_vars => MarkInv'
  BY MarkStep
<1>3. IInv /\ MarkInv /\ [Next]_vars =>
        [work.m # NoSnap /\ work'.m # NoSnap => work'.m = work.m /\ work'.mark >= work.mark]_vars
  BY PinKept
<1> QED  BY <1>1, <1>2, <1>3, Invariance, PTL DEF Spec, PinFrozen

(***************************************************************************)
(* DeletesFailLoudly.                                                      *)
(***************************************************************************)
\* The parts of the state that detection goes by; a tick keeps its fields.
DetectType ==
    /\ log \in Seq(Snapshot)
    /\ live \subseteq 1..Len(log)
    /\ bookmark \in 0..Len(log)
    /\ work.m \in 0..Len(log)
    /\ DOMAIN tick = DOMAIN NoTick
    /\ tick.m \in 0..Len(log)
    /\ tick.adv \in 0..Len(log)

\* What a tick knows of the row it started from, and which runs are full.
DetectTick ==
    /\ pc \in {"probe", "list", "setwork", "files", "merge", "record", "complete", "skip",
               "pin", "discard", "current"} => tick.bm = bookmark
    /\ pc \in {"pin", "discard", "current", "probe", "list", "setwork"} => tick.adv = NoSnap
    /\ pc = "files" => tick.full

\* No snapshot after the bookmark and up to s deleted anything.
NoDeletesUpTo(s) == \A u \in (bookmark + 1)..s : log[u].op # "delete"

\* An incremental run past its detection has no delete before it.
Vetted ==
    /\ pc \in {"setwork", "merge", "record", "complete"} /\ ~tick.full => NoDeletesUpTo(tick.m)
    /\ pc = "skip" /\ tick.adv # NoSnap => NoDeletesUpTo(tick.adv)

DetectInv == DetectType /\ LiveInv /\ DetectTick /\ Vetted

\* A list read after a successful probe is complete: a delete in it shows.
LEMMA ListVets ==
    ASSUME DetectInv, pc = "list", ~HasUnsupported(Listed)
    PROVE  NoDeletesUpTo(tick.m)
<1> SUFFICES ASSUME NEW u \in (bookmark + 1)..tick.m
             PROVE  log[u].op # "delete"
  BY DEF NoDeletesUpTo
<1>1. /\ tick.bm = bookmark /\ bookmark \in Nat /\ Len(log) \in Nat /\ tick.m \in Nat
      /\ tick.m <= Len(log) /\ (bookmark + 1)..Len(log) \subseteq live
  BY DEF DetectInv, DetectType, DetectTick, LiveInv
<1>2. u \in live /\ u \in Nat /\ bookmark < u /\ u <= tick.m /\ u <= Len(log)
  BY <1>1
<1>3. u \in Listed
  BY <1>1, <1>2 DEF Listed, SnapshotsSince
<1> QED  BY <1>3 DEF HasUnsupported, AllowedOps, ChangeOps

\* Ranges begin where the run is vetted.
LEMMA VetBegin ==
    ASSUME DetectInv, NEW lo, NEW hi, BeginRanges(lo, hi),
           UNCHANGED <<log, live, bookmark>>, work'.m \in {work.m, tick.m},
           pc \in {"list", "setwork", "files"}, ~tick.full => NoDeletesUpTo(tick.m)
    PROVE  DetectInv'
<1>1. /\ pc' \in {"merge", "complete"}
      /\ tick'.bm = tick.bm /\ tick'.m = tick.m /\ tick'.adv = tick.adv
      /\ tick'.full = tick.full /\ DOMAIN tick' = DOMAIN tick
  BY DEF BeginRanges, DetectInv, DetectType, NoTick
<1>2. DetectType'
  BY <1>1 DEF DetectInv, DetectType
<1>3. LiveInv' /\ DetectTick'
  BY <1>1 DEF DetectInv, LiveInv, DetectTick
<1>4. Vetted'
  BY <1>1 DEF Vetted, NoDeletesUpTo
<1> QED  BY <1>2, <1>3, <1>4 DEF DetectInv

\* A tick that ends leaves nothing to vet.
LEMMA VetEnd ==
    ASSUME DetectInv, Fail, UNCHANGED <<log, live, bookmark>>, work'.m \in {work.m, NoSnap}
    PROVE  DetectInv'
BY DEF DetectInv, DetectType, LiveInv, DetectTick, Vetted, Fail, NoTick, NoSnap

\* StartTick, CheckPin, DiscardWork, ReadCurrent: a run is full or undetected.
LEMMA VetStart ==
    ASSUME DetectInv, StartTick \/ CheckPin \/ DiscardWork \/ ReadCurrent
    PROVE  DetectInv'
<1> USE DEF sourceVars, NoSnap
<1>i. DetectType /\ LiveInv /\ DetectTick /\ Vetted
  BY DEF DetectInv
<1>1. CASE StartTick
  <2>1. /\ tick'.bm = bookmark /\ tick'.m = work.m /\ tick'.adv = 0
        /\ DOMAIN tick' = DOMAIN NoTick /\ pc' \in {"current", "pin"}
        /\ UNCHANGED <<log, live, bookmark, work>>
    BY <1>1 DEF StartTick, NoTick
  <2> QED  BY <1>i, <2>1 DEF DetectInv, DetectType, LiveInv, DetectTick, Vetted
<1>2. CASE CheckPin
  <2>1. /\ tick'.bm = tick.bm /\ tick'.m = tick.m /\ tick'.adv = tick.adv
        /\ tick'.full = (tick.bm = 0) /\ DOMAIN tick' = DOMAIN NoTick
        /\ pc = "pin" /\ pc' \in {"discard", "files", "probe"}
        /\ pc' = "files" => tick.bm = 0
        /\ UNCHANGED <<log, live, bookmark, work>>
    BY <1>i, <1>2 DEF CheckPin, DetectType, NoTick
  <2> QED  BY <1>i, <2>1 DEF DetectInv, DetectType, LiveInv, DetectTick, Vetted
<1>3. CASE DiscardWork
  <2>1. /\ tick'.bm = tick.bm /\ tick'.m = 0 /\ tick'.adv = tick.adv
        /\ DOMAIN tick' = DOMAIN NoTick /\ pc = "discard" /\ pc' = "current"
        /\ work'.m = 0 /\ UNCHANGED <<log, live, bookmark>>
    BY <1>i, <1>3 DEF DiscardWork, DetectType, NoTick, NoWork
  <2> QED  BY <1>i, <2>1 DEF DetectInv, DetectType, LiveInv, DetectTick, Vetted
<1>4. CASE ReadCurrent
  <2>1. /\ tick'.bm = tick.bm /\ tick'.m \in {tick.m, Len(log)} /\ tick'.adv = tick.adv
        /\ pc' = "setwork" => tick'.full
        /\ DOMAIN tick' = DOMAIN NoTick /\ pc = "current"
        /\ pc' \in {"skip", "setwork", "probe"}
        /\ UNCHANGED <<log, live, bookmark, work>>
    BY <1>i, <1>4 DEF ReadCurrent, CurrentSnapshot, DetectType, NoTick
  <2>2. Len(log) \in Nat
    BY <1>i DEF DetectType
  <2> QED  BY <1>i, <2>1, <2>2 DEF DetectInv, DetectType, LiveInv, DetectTick, Vetted
<1> QED  BY <1>1, <1>2, <1>3, <1>4

\* Probe, ListWindow: the list is complete, and what it lets through is vetted.
LEMMA VetDetect ==
    ASSUME DetectInv, Probe \/ ListWindow
    PROVE  DetectInv'
<1> USE DEF sourceVars, NoSnap
<1>i. DetectType /\ LiveInv /\ DetectTick /\ Vetted
  BY DEF DetectInv
<1>1. CASE Probe
  <2>1. CASE Fail
    BY <1>1, <2>1, VetEnd DEF Probe
  <2>2. CASE pc' = "list" /\ tick' = tick /\ tick.bm \in live
    <3>0. tick.bm = bookmark
      BY <1>i, <1>1 DEF DetectTick, Probe
    <3>1. (tick.bm + 1)..Len(log) \subseteq live
      <4>1. tick.bm \in Nat /\ Len(log) \in Nat /\ tick.bm..Len(log) \subseteq live
        BY <1>i, <2>2, <3>0 DEF DetectType, LiveInv
      <4> QED  BY <4>1
    <3>2. pc = "probe" /\ UNCHANGED <<log, live, bookmark, work>>
      BY <1>1 DEF Probe
    <3>3. LiveInv'
      BY <1>i, <2>2, <3>1, <3>2 DEF LiveInv
    <3> QED  BY <1>i, <2>2, <3>2, <3>3 DEF DetectInv, DetectType, DetectTick, Vetted
  <2>3. CASE pc' = "setwork" /\ tick' = [tick EXCEPT !.full = TRUE]
    <3>1. /\ tick'.bm = tick.bm /\ tick'.m = tick.m /\ tick'.adv = tick.adv
          /\ tick'.full /\ DOMAIN tick' = DOMAIN NoTick
          /\ pc = "probe" /\ UNCHANGED <<log, live, bookmark, work>>
      BY <1>i, <1>1, <2>3 DEF Probe, DetectType, NoTick
    <3> QED  BY <1>i, <2>3, <3>1 DEF DetectInv, DetectType, LiveInv, DetectTick, Vetted
  <2> QED  BY <1>1, <2>1, <2>2, <2>3 DEF Probe, SnapshotExists
<1>2. CASE ListWindow
  <2>u. pc = "list" /\ UNCHANGED <<log, live, bookmark, work>>
    BY <1>2 DEF ListWindow
  <2>1. CASE HasUnsupported(Listed)
    BY <1>2, <2>1, <2>u, VetEnd DEF ListWindow
  <2>2. CASE ~HasUnsupported(Listed)
    <3>v. NoDeletesUpTo(tick.m)
      BY <2>u, <2>2, ListVets
    <3>1. CASE /\ pc' = "skip"
               /\ tick' = [tick EXCEPT !.adv = IF tick.mark = NoMark THEN tick.m ELSE NoSnap]
      <4>1. /\ tick'.bm = tick.bm /\ tick'.m = tick.m /\ tick'.adv \in {tick.m, 0}
            /\ DOMAIN tick' = DOMAIN NoTick
        BY <1>i, <3>1 DEF DetectType, NoTick
      <4>2. Vetted'
        BY <2>u, <3>v, <3>1, <4>1 DEF Vetted, NoDeletesUpTo
      <4> QED  BY <1>i, <2>u, <3>1, <4>1, <4>2 DEF DetectInv, DetectType, LiveInv, DetectTick
    <3>2. CASE \E lo, hi \in Buckets : BeginRanges(lo, hi)
      BY <2>u, <3>v, <3>2, VetBegin
    <3>3. CASE \E lo, hi \in Buckets :
                  pc' = "setwork" /\ tick' = [tick EXCEPT !.lo = lo, !.hi = hi]
      <4>1. /\ tick'.bm = tick.bm /\ tick'.m = tick.m /\ tick'.adv = tick.adv
            /\ DOMAIN tick' = DOMAIN NoTick /\ pc' = "setwork"
        BY <1>i, <3>3 DEF DetectType, NoTick
      <4>2. Vetted'
        BY <2>u, <3>v, <4>1 DEF Vetted, NoDeletesUpTo
      <4> QED  BY <1>i, <2>u, <4>1, <4>2 DEF DetectInv, DetectType, LiveInv, DetectTick
    <3> QED  BY <1>2, <2>2, <3>1, <3>2, <3>3 DEF ListWindow
  <2> QED  BY <2>1, <2>2
<1> QED  BY <1>1, <1>2

\* PinRun, ReadFiles, MergeChunk, RecordChunk: the run goes on as vetted.
LEMMA VetRun ==
    ASSUME DetectInv, PinRun \/ ReadFiles \/ MergeChunk \/ RecordChunk
    PROVE  DetectInv'
<1> USE DEF sourceVars, NoSnap
<1>i. DetectType /\ LiveInv /\ DetectTick /\ Vetted
  BY DEF DetectInv
<1>1. CASE PinRun
  <2>u. pc = "setwork" /\ UNCHANGED <<log, live, bookmark>> /\ work'.m = tick.m
    BY <1>1 DEF PinRun
  <2>1. CASE tick.full
    <3>1. pc' = "files" /\ tick' = tick
      BY <1>1, <2>1 DEF PinRun
    <3> QED  BY <1>i, <2>u, <2>1, <3>1 DEF DetectInv, DetectType, LiveInv, DetectTick, Vetted
  <2>2. CASE ~tick.full
    <3>1. NoDeletesUpTo(tick.m) /\ BeginRanges(tick.lo, tick.hi)
      BY <1>i, <1>1, <2>u, <2>2 DEF PinRun, Vetted
    <3> QED  BY <2>u, <3>1, VetBegin
  <2> QED  BY <2>1, <2>2
<1>2. CASE ReadFiles
  <2>u. pc = "files" /\ tick.full /\ UNCHANGED <<log, live, bookmark, work>>
    BY <1>i, <1>2 DEF ReadFiles, DetectTick
  <2>1. CASE pc' = "complete" /\ tick' = tick
    BY <1>i, <2>u, <2>1 DEF DetectInv, DetectType, LiveInv, DetectTick, Vetted
  <2>2. CASE \E lo, hi \in Buckets : BeginRanges(lo, hi)
    BY <2>u, <2>2, VetBegin
  <2> QED  BY <1>2, <2>1, <2>2 DEF ReadFiles
<1>3. CASE MergeChunk
  <2>1. /\ pc = "merge" /\ pc' = "record"
        /\ UNCHANGED <<log, live, bookmark, work, tick>>
    BY <1>3 DEF MergeChunk
  <2>2. Vetted'
    BY <1>i, <2>1 DEF Vetted, NoDeletesUpTo
  <2> QED  BY <1>i, <2>1, <2>2 DEF DetectInv, DetectType, LiveInv, DetectTick
<1>4. CASE RecordChunk
  <2>1. /\ tick'.bm = tick.bm /\ tick'.m = tick.m /\ tick'.adv = tick.adv
        /\ tick'.full = tick.full /\ DOMAIN tick' = DOMAIN NoTick
        /\ pc = "record" /\ pc' \in {"merge", "complete"}
        /\ work'.m \in {tick.m, work.m} /\ UNCHANGED <<log, live, bookmark>>
    BY <1>i, <1>4 DEF RecordChunk, DetectType, NoTick
  <2>2. Vetted'
    BY <1>i, <2>1 DEF Vetted, NoDeletesUpTo
  <2> QED  BY <1>i, <2>1, <2>2 DEF DetectInv, DetectType, LiveInv, DetectTick
<1> QED  BY <1>1, <1>2, <1>3, <1>4

\* CompleteRun, SkipTick, ClearWork: the bookmark moves to a snapshot of the log.
LEMMA VetClose ==
    ASSUME DetectInv, CompleteRun \/ SkipTick \/ ClearWork
    PROVE  DetectInv'
<1> USE DEF sourceVars, NoSnap
<1>i. DetectType /\ LiveInv /\ DetectTick /\ Vetted
  BY DEF DetectInv
<1>1. CASE CompleteRun \/ SkipTick
  <2>1. /\ pc' = "clear" /\ bookmark' \in {bookmark, tick.m, tick.adv}
        /\ UNCHANGED <<log, live, work, tick>>
    BY <1>1 DEF CompleteRun, SkipTick
  <2> QED  BY <1>i, <2>1 DEF DetectInv, DetectType, LiveInv, DetectTick, Vetted
<1>2. CASE ClearWork
  BY <1>2, VetEnd DEF ClearWork, NoWork
<1> QED  BY <1>1, <1>2

\* SourceCommit: a snapshot is added behind all that is vetted.
LEMMA VetCommit ==
    ASSUME DetectInv, SourceCommit
    PROVE  DetectInv'
<1> USE DEF NoSnap
<1>i. DetectType /\ LiveInv /\ DetectTick /\ Vetted
  BY DEF DetectInv
<1>1. PICK op \in Ops, B \in Batches : Commit(op, B)
  BY DEF SourceCommit
<1>u. UNCHANGED <<target, bookmark, work, chunk, pc, tick, late>>
  BY DEF SourceCommit, refreshVars
<1>2. Len(log) \in Nat /\ log \in Seq(Snapshot) /\ live \subseteq 1..Len(log)
  BY <1>i DEF DetectType
<1>3. \A b \in Buckets : DataAt(Len(log))[b] \in Nat
  <2>1. CASE Len(log) = 0
    BY <2>1 DEF DataAt
  <2>2. CASE Len(log) # 0
    <3>1. log[Len(log)] \in Snapshot
      BY <1>2, <2>2
    <3> QED  BY <2>2, <3>1 DEF DataAt, Snapshot, Versions
  <2> QED  BY <2>1, <2>2
<1> DEFINE new == [op    |-> op,
                   files |-> IF op = "delete" THEN {} ELSE B,
                   data  |-> [b \in Buckets |-> NewVersion(op, B, b)]]
<1>4. log' = Append(log, new) /\ live' = live \union {Len(log) + 1}
  BY <1>1 DEF Commit
<1>5. new \in Snapshot
  <2>1. \A b \in Buckets : NewVersion(op, B, b) \in Nat
    BY <1>2, <1>3 DEF NewVersion
  <2>2. [b \in Buckets |-> NewVersion(op, B, b)] \in Versions
    BY <2>1 DEF Versions
  <2>3. B \subseteq Buckets
    BY SourceAssumption
  <2> QED  BY <2>2, <2>3 DEF Snapshot
<1> HIDE DEF new
<1>6. /\ log' \in Seq(Snapshot) /\ Len(log') = Len(log) + 1
      /\ \A u \in 1..Len(log) : log'[u] = log[u]
  BY <1>2, <1>4, <1>5
<1>7. DetectType'
  <2> DEFINE n == Len(log)
  <2> HIDE DEF n
  <2>0. n \in Nat /\ Len(log') = n + 1 /\ live \subseteq 1..n /\ live' = live \union {n + 1}
    BY <1>2, <1>4, <1>6 DEF n
  <2>1. /\ 0..n \subseteq 0..(n + 1) /\ 1..n \subseteq 1..(n + 1) /\ n + 1 \in 1..(n + 1)
        /\ 0..Len(log) = 0..n /\ 0..Len(log') = 0..(n + 1)
    BY <2>0 DEF n
  <2>2. live' \subseteq 1..Len(log')
    BY <2>0, <2>1
  <2>3. \A i \in 0..Len(log) : i \in 0..Len(log')
    BY <2>1
  <2> QED  BY <1>i, <1>6, <1>u, <2>2, <2>3 DEF DetectType
<1>8. LiveInv'
  BY <1>i, <1>2, <1>4, <1>6, <1>u DEF LiveInv
<1>9. DetectTick'
  BY <1>i, <1>u DEF DetectTick
<1>10. Vetted'
  <2>1. \A s \in 0..Len(log) : NoDeletesUpTo(s) => NoDeletesUpTo(s)'
    BY <1>i, <1>2, <1>6, <1>u DEF NoDeletesUpTo, DetectType
  <2> QED  BY <1>i, <1>u, <2>1 DEF Vetted, DetectType, NoDeletesUpTo
<1> QED  BY <1>7, <1>8, <1>9, <1>10 DEF DetectInv

\* SourceExpire: the oldest goes, and none that a tick is about to list.
LEMMA VetExpire ==
    ASSUME DetectInv, SourceExpire
    PROVE  DetectInv'
<1> USE DEF NoSnap
<1>i. DetectType /\ LiveInv /\ DetectTick /\ Vetted
  BY DEF DetectInv
<1>1. PICK s \in live : IsOldest(s) /\ ListSurvives(s) /\ Expire(s)
  BY DEF SourceExpire
<1>u. /\ UNCHANGED <<log, target, bookmark, work, chunk, pc, tick, late>>
      /\ live' = live \ {s}
  BY <1>1 DEF SourceExpire, refreshVars, Expire
<1>2. Len(log) \in Nat /\ live \subseteq 1..Len(log) /\ bookmark \in Nat
  BY <1>i DEF DetectType
<1>3. LiveInv'
  <2>1. \A r \in live' : r..Len(log) \subseteq live'
    BY <1>i, <1>1, <1>u, <1>2 DEF LiveInv, IsOldest
  <2>2. pc = "list" => (tick.bm + 1)..Len(log) \subseteq live'
    BY <1>i, <1>1, <1>u, <1>2 DEF LiveInv, ListSurvives, DetectTick
  <2> QED  BY <1>u, <2>1, <2>2 DEF LiveInv
<1>4. DetectType' /\ DetectTick' /\ Vetted'
  BY <1>i, <1>u DEF DetectType, DetectTick, Vetted, NoDeletesUpTo
<1> QED  BY <1>3, <1>4 DEF DetectInv

\* Every step preserves it, with deletes in the source or not.
LEMMA DetectStep ==
    ASSUME DetectInv, [Next]_vars
    PROVE  DetectInv'
<1>1. CASE StartTick \/ CheckPin \/ DiscardWork \/ ReadCurrent
  BY <1>1, VetStart
<1>2. CASE Probe \/ ListWindow
  BY <1>2, VetDetect
<1>3. CASE PinRun \/ ReadFiles \/ MergeChunk \/ RecordChunk
  BY <1>3, VetRun
<1>4. CASE CompleteRun \/ SkipTick \/ ClearWork
  BY <1>4, VetClose
<1>5. CASE MergeFails \/ Interrupt
  BY <1>5, VetEnd DEF MergeFails, Interrupt, sourceVars
<1>6. CASE SourceCommit
  BY <1>6, VetCommit
<1>7. CASE SourceExpire
  BY <1>7, VetExpire
<1>8. CASE UNCHANGED <<log, live, bookmark, work, pc, tick>>
  BY <1>8 DEF DetectInv, DetectType, LiveInv, DetectTick, Vetted, NoDeletesUpTo
<1>9. CASE LateCommit \/ (\E c \in Sizes : EditChunk(c)) \/ UNCHANGED vars
  BY <1>8, <1>9 DEF LateCommit, EditChunk, sourceVars, vars
<1> QED  BY <1>1, <1>2, <1>3, <1>4, <1>5, <1>6, <1>7, <1>9 DEF Next, TickStep

\* An incremental run moves the bookmark only as far as it was vetted.
LEMMA MoveVetted ==
    ASSUME DetectInv, [Next]_vars, bookmark' > bookmark, ~tick.full
    PROVE  \A s \in (bookmark + 1)..bookmark' : log[s].op # "delete"
<1>1. CASE CompleteRun
  BY <1>1 DEF CompleteRun, DetectInv, Vetted, NoDeletesUpTo
<1>2. CASE SkipTick
  <2>1. bookmark \in Nat
    BY DEF DetectInv, DetectType
  <2> QED  BY <1>2, <2>1 DEF SkipTick, DetectInv, Vetted, NoDeletesUpTo
<1>3. CASE bookmark' = bookmark
  <2>1. bookmark \in Nat
    BY DEF DetectInv, DetectType
  <2> QED  BY <1>3, <2>1
<1> USE DEF sourceVars, refreshVars, vars
<1>4. CASE \/ StartTick \/ CheckPin \/ DiscardWork \/ ReadCurrent \/ Probe \/ ListWindow
           \/ PinRun \/ ReadFiles \/ MergeChunk \/ MergeFails \/ RecordChunk \/ ClearWork
  BY <1>3, <1>4 DEF StartTick, CheckPin, DiscardWork, ReadCurrent, Probe, ListWindow, PinRun,
                    ReadFiles, MergeChunk, MergeFails, RecordChunk, ClearWork
<1>5. CASE \/ Interrupt \/ LateCommit \/ \E c \in Sizes : EditChunk(c)
           \/ SourceCommit \/ SourceExpire \/ UNCHANGED vars
  BY <1>3, <1>5 DEF Interrupt, LateCommit, EditChunk, SourceCommit, SourceExpire
<1> QED  BY <1>1, <1>2, <1>4, <1>5 DEF Next, TickStep

\* No incremental run moves the bookmark past a delete of the source, whenever
\* it was committed, whatever expired, and whatever run was resumed.
THEOREM DeletesAreLoud == Spec => DeletesFailLoudly
<1>1. Init => DetectInv
  <2> SUFFICES ASSUME Init PROVE DetectInv
    OBVIOUS
  <2>1. Len(log) = 0 /\ log \in Seq(Snapshot) /\ live = {} /\ bookmark = 0
        /\ work.m = 0 /\ tick = NoTick /\ pc = "idle"
    BY DEF Init, SourceInit, NoSnap, NoWork
  <2> QED  BY <2>1 DEF DetectInv, DetectType, LiveInv, DetectTick, Vetted, NoTick, NoSnap
<1>2. DetectInv /\ [Next]_vars => DetectInv'
  BY DetectStep
<1>3. DetectInv /\ [Next]_vars =>
        [bookmark' > bookmark /\ bookmark # NoSnap /\ ~tick.full =>
             \A s \in (bookmark + 1)..bookmark' : log[s].op # "delete"]_vars
  BY MoveVetted
<1> QED  BY <1>1, <1>2, <1>3, PTL DEF Spec, DeletesFailLoudly
=============================================================================
