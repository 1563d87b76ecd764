--------------------------- MODULE RefreshProofs ---------------------------
(***************************************************************************)
(* Proofs about RefreshView for every value of the constants, under the    *)
(* assumption NoDeletes.  IInv is preserved by every action, one lemma     *)
(* each (...Step); the safety properties and the refinement of             *)
(* MaterializedView follow from it.                                        *)
(***************************************************************************)
EXTENDS RefreshInvariant, TLAPS

\* A snapshot of the log reads as a version for every bucket.
LEMMA DataTyped ==
    ASSUME TypeOK, NEW s \in 0..Len(log)
    PROVE  DataAt(s) \in Versions
<1>1. CASE s = 0
  BY <1>1 DEF DataAt, Versions
<1>2. CASE s # 0
  <2>1. log \in Seq(Snapshot) /\ s \in 1..Len(log)
    BY <1>2 DEF TypeOK
  <2>2. log[s] \in Snapshot
    BY <2>1
  <2> QED  BY <2>2, <1>2 DEF DataAt, Snapshot
<1> QED  BY <1>1, <1>2

\* What a snapshot reads depends on the log alone.
LEMMA DataStable ==
    ASSUME UNCHANGED log
    PROVE  \A s : DataAt(s)' = DataAt(s)
BY DEF DataAt

\* The grids of ChunkAssumption: a chunk starts at or before its position and
\* ends after it, inside the horizon.
LEMMA GridTyped ==
    ASSUME NEW c \in Sizes
    PROVE  /\ Positions \subseteq Nat /\ Buckets \subseteq Positions
           /\ 0 \in Positions
           /\ \A p \in Positions : FloorOf(c, p) \in Positions /\ FloorOf(c, p) <= p
           /\ \A b \in Buckets : NextBucket(c, b) \in Positions /\ b < NextBucket(c, b)
<1>1. Horizon \in Nat \ {0}
  BY SourceAssumption
<1>2. Positions \subseteq Nat /\ Buckets \subseteq Positions /\ 0 \in Positions
  BY <1>1 DEF Positions, Buckets
<1>3. CASE c = NoChunk
  BY <1>1, <1>2, <1>3 DEF FloorOf, NextBucket, Positions, Buckets
<1>4. CASE c # NoChunk
  <2>1. c \in Chunks
    BY <1>4 DEF Sizes
  <2>2. Floor[c] \in [Positions -> Positions] /\ Ceiling[c] \in [Buckets -> Positions]
    BY <2>1, ChunkAssumption
  <2>3. /\ \A p \in Positions : Floor[c][p] <= p
        /\ \A b \in Buckets : b < Ceiling[c][b]
    BY <2>1, ChunkAssumption
  <2> QED  BY <1>2, <1>4, <2>2, <2>3 DEF FloorOf, NextBucket
<1> QED  BY <1>2, <1>3, <1>4

\* A MERGE range is not empty and stops at the end of the window.
LEMMA ChunkEndBounds ==
    ASSUME NEW c \in Sizes, NEW cur \in Buckets, NEW end \in Positions, cur < end
    PROVE  /\ ChunkEnd(c, cur, end) \in Positions
           /\ cur < ChunkEnd(c, cur, end)
           /\ ChunkEnd(c, cur, end) <= end
BY GridTyped DEF ChunkEnd

\* The ranges of a window start at or before it or at the marker, and cover it.
LEMMA RangesBounds ==
    ASSUME NEW c \in Sizes, NEW lo \in Buckets, NEW hi \in Buckets, NEW mark \in Positions
    PROVE  /\ RangesStart(c, lo, mark) \in Positions
           /\ RangesEnd(c, hi) \in Positions
           /\ hi < RangesEnd(c, hi)
           /\ RangesStart(c, lo, mark) <= lo \/ RangesStart(c, lo, mark) <= mark
           /\ mark = NoMark => RangesStart(c, lo, mark) <= lo
BY GridTyped DEF RangesStart, RangesEnd, NoMark

(***************************************************************************)
(* Lemmas used by several steps.                                           *)
(***************************************************************************)
\* The history invariant speaks of the log alone.
LEMMA LogUnchanged ==
    ASSUME LogInv, UNCHANGED log
    PROVE  LogInv'
BY DEF LogInv, DataAt

\* Values that occur in many steps are in range.
LEMMA Ranges ==
    ASSUME TypeOK
    PROVE  /\ Len(log) \in Nat
           /\ 0 \in 0..Len(log) /\ Len(log) \in 0..Len(log)
           /\ 0 \in Buckets /\ 0 \in Positions
           /\ Buckets \subseteq Nat /\ Positions \subseteq Nat
           /\ NoWork \in [m : 0..Len(log), mark : Positions]
           /\ NoLate \in [m : 0..Len(log), lo : Positions, hi : Positions]
           /\ NoTick \in Ticks
<1>1. /\ Len(log) \in Nat
      /\ 0 \in 0..Len(log) /\ Len(log) \in 0..Len(log)
      /\ 0 \in Buckets /\ 0 \in Positions
      /\ Buckets \subseteq Nat /\ Positions \subseteq Nat
  BY SourceAssumption DEF TypeOK, Buckets, Positions
<1> QED  BY <1>1 DEF NoWork, NoLate, NoTick, Ticks, NoSnap, NoMark, Sizes

\* Raising the pin keeps TargetInv.
LEMMA TargetKept ==
    ASSUME TypeOK, TargetInv, UNCHANGED <<log, target, bookmark>>,
           Pin \in Nat, Pin' \in Nat, Pin <= Pin'
    PROVE  TargetInv'
<1>1. \A s : DataAt(s)' = DataAt(s)
  BY DataStable
<1> QED  BY <1>1 DEF TargetInv, TypeOK

\* What BeginRanges does to the locals of the tick.
LEMMA BeginRangesFacts ==
    ASSUME TypeOK, NEW lo \in Buckets, NEW hi \in Buckets, BeginRanges(lo, hi)
    PROVE  /\ tick' \in Ticks
           /\ tick' = [tick EXCEPT !.lo = lo, !.hi = hi, !.cur = tick'.cur,
                                    !.end = tick'.end, !.multi = tick'.multi]
           /\ hi < tick'.end
           /\ tick'.cur <= lo \/ tick'.cur <= tick.mark
           /\ tick.mark = NoMark => tick'.cur <= lo
           /\ pc' = IF tick'.cur < tick'.end THEN "merge" ELSE "complete"
<1>1. tick \in Ticks /\ tick.chunk \in Sizes /\ tick.mark \in Positions
  BY DEF TypeOK, Ticks
<1> DEFINE start == RangesStart(tick.chunk, lo, tick.mark)
           end == RangesEnd(tick.chunk, hi)
           many == start < end /\ ChunkEnd(tick.chunk, start, end) < end
<1>2. /\ start \in Positions /\ end \in Positions /\ hi < end
      /\ start <= lo \/ start <= tick.mark
      /\ tick.mark = NoMark => start <= lo
  BY <1>1, RangesBounds
<1>3. many \in BOOLEAN
  OBVIOUS
<1>4. /\ tick' = [tick EXCEPT !.lo = lo, !.hi = hi, !.cur = start, !.end = end, !.multi = many]
      /\ pc' = IF start < end THEN "merge" ELSE "complete"
  BY DEF BeginRanges
<1> HIDE DEF start, end, many
<1>5. tick' \in Ticks
  BY <1>1, <1>2, <1>3, <1>4 DEF Ticks
<1>6. tick'.cur = start /\ tick'.end = end /\ tick'.multi = many
  BY <1>1, <1>4 DEF Ticks
<1> QED  BY <1>2, <1>4, <1>5, <1>6

(***************************************************************************)
(* One lemma per action.                                                   *)
(***************************************************************************)
\* StartTick: the locals repeat the persisted row.
LEMMA StartTickStep ==
    ASSUME IInv, StartTick
    PROVE  IInv'
<1> USE DEF StartTick, sourceVars, Running, Detecting, NoSnap, NoMark, NoTick
<1>i. /\ TypeOK /\ LogInv /\ LiveInv /\ TickInv /\ WorkInv
      /\ TargetInv /\ WindowInv /\ MergedInv /\ LateInv
  BY DEF IInv
<1>d. \A s : DataAt(s)' = DataAt(s)
  BY DataStable
<1>1. TypeOK'
  BY <1>i, Ranges DEF TypeOK, PCs, Ticks
<1>2. LogInv'
  BY <1>i, LogUnchanged
<1>3. LiveInv'
  BY <1>i DEF LiveInv, TypeOK
<1>4. TickInv'
  BY <1>i DEF TickInv, WorkInv, TypeOK, Ticks, NoWork
<1>5. WorkInv'
  BY <1>i DEF WorkInv, TickInv, TypeOK, NoWork
<1>6. TargetInv'
  BY <1>i, <1>d, Ranges DEF TargetInv, Pin, TickInv, TypeOK, Ticks, NoWork
<1>7. WindowInv'
  BY <1>i, <1>d DEF WindowInv, Covers, Quiet, TickInv, TypeOK, Ticks
<1>8. MergedInv'
  BY <1>i, <1>d DEF MergedInv, ResumeSkipsOnlyMerged, TickInv, NoWork
<1>9. LateInv'
  BY <1>i, <1>d, Ranges DEF LateInv, Pin, TickInv, TypeOK, Ticks, NoWork
<1> QED  BY <1>1, <1>2, <1>3, <1>4, <1>5, <1>6, <1>7, <1>8, <1>9 DEF IInv

\* CheckPin.
LEMMA CheckPinStep ==
    ASSUME IInv, CheckPin
    PROVE  IInv'
<1> USE DEF CheckPin, sourceVars, Running, Detecting, NoSnap, NoMark, PinValid, SnapshotExists
<1>i. /\ TypeOK /\ LogInv /\ LiveInv /\ TickInv /\ WorkInv
      /\ TargetInv /\ WindowInv /\ MergedInv /\ LateInv
  BY DEF IInv
<1>d. \A s : DataAt(s)' = DataAt(s)
  BY DataStable
<1>1. TypeOK'
  BY <1>i, Ranges DEF TypeOK, PCs, Ticks
<1>2. LogInv'
  BY <1>i, LogUnchanged
<1>3. LiveInv'
  BY <1>i DEF LiveInv, TypeOK
<1>4. TickInv'
  BY <1>i DEF TickInv, WorkInv, TypeOK, Ticks, NoWork
<1>5. WorkInv'
  BY <1>i DEF WorkInv, TickInv, TypeOK, NoWork
<1>6. TargetInv'
  BY <1>i, <1>d, Ranges DEF TargetInv, Pin, TickInv, TypeOK, Ticks, NoWork
<1>7. WindowInv'
  BY <1>i, <1>d DEF WindowInv, Covers, Quiet, TickInv, TypeOK, Ticks
<1>8. MergedInv'
  BY <1>i, <1>d DEF MergedInv, ResumeSkipsOnlyMerged, TickInv, NoWork
<1>9. LateInv'
  BY <1>i, <1>d, Ranges DEF LateInv, Pin, TickInv, TypeOK, Ticks, NoWork
<1> QED  BY <1>1, <1>2, <1>3, <1>4, <1>5, <1>6, <1>7, <1>8, <1>9 DEF IInv

\* DiscardWork: forgetting a pin only weakens what the target promises.
LEMMA DiscardWorkStep ==
    ASSUME IInv, DiscardWork
    PROVE  IInv'
<1> USE DEF DiscardWork, sourceVars, Running, Detecting, NoSnap, NoMark
<1>i. /\ TypeOK /\ LogInv /\ LiveInv /\ TickInv /\ WorkInv
      /\ TargetInv /\ WindowInv /\ MergedInv /\ LateInv
  BY DEF IInv
<1>d. \A s : DataAt(s)' = DataAt(s)
  BY DataStable
<1>1. TypeOK'
  <2>1. tick' \in Ticks
    <3>1. /\ tick \in Ticks /\ NoTick \in Ticks /\ 0 \in Positions
          /\ 0 \in 0..Len(log) /\ Len(log) \in 0..Len(log)
      BY <1>i, Ranges DEF TypeOK
    <3> QED  BY <3>1 DEF Ticks
  <2> QED  BY <2>1, <1>i, Ranges DEF TypeOK, PCs, Ticks
<1>2. LogInv'
  BY <1>i, LogUnchanged
<1>3. LiveInv'
  BY <1>i DEF LiveInv, TypeOK
<1>4. TickInv'
  BY <1>i DEF TickInv, WorkInv, TypeOK, Ticks, NoWork
<1>5. WorkInv'
  BY <1>i DEF WorkInv, TickInv, TypeOK, NoWork
<1>6. TargetInv'
  BY <1>i, TargetKept, Ranges DEF Pin, NoWork, TypeOK
<1>7. WindowInv'
  BY <1>i, <1>d DEF WindowInv, Covers, Quiet, TickInv, TypeOK, Ticks
<1>8. MergedInv'
  BY <1>i, <1>d DEF MergedInv, ResumeSkipsOnlyMerged, TickInv, NoWork
<1>9. LateInv'
  BY <1>i, <1>d, Ranges DEF LateInv, Pin, TickInv, TypeOK, Ticks, NoWork
<1> QED  BY <1>1, <1>2, <1>3, <1>4, <1>5, <1>6, <1>7, <1>8, <1>9 DEF IInv

\* ReadCurrent: the new pin is the present, which bounds the target already.
LEMMA ReadCurrentStep ==
    ASSUME IInv, ReadCurrent
    PROVE  IInv'
<1> USE DEF ReadCurrent, sourceVars, Running, Detecting, NoSnap, NoMark, CurrentSnapshot
<1>i. /\ TypeOK /\ LogInv /\ LiveInv /\ TickInv /\ WorkInv
      /\ TargetInv /\ WindowInv /\ MergedInv /\ LateInv
  BY DEF IInv
<1>d. \A s : DataAt(s)' = DataAt(s)
  BY DataStable
<1>1. TypeOK'
  <2>1. tick' \in Ticks
    <3>1. /\ tick \in Ticks /\ NoTick \in Ticks /\ 0 \in Positions
          /\ 0 \in 0..Len(log) /\ Len(log) \in 0..Len(log)
      BY <1>i, Ranges DEF TypeOK
    <3>2. CASE Len(log) \in {0, tick.bm}
      BY <3>1, <3>2 DEF Ticks
    <3>3. CASE Len(log) \notin {0, tick.bm} /\ tick.bm = 0
      <4>1. tick' = [tick EXCEPT !.m = Len(log), !.full = TRUE]
        BY <3>3
      <4> QED  BY <3>1, <4>1 DEF Ticks
    <3>4. CASE Len(log) \notin {0, tick.bm} /\ tick.bm # 0
      <4>1. tick' = [tick EXCEPT !.m = Len(log), !.full = FALSE]
        BY <3>4
      <4> QED  BY <3>1, <4>1 DEF Ticks
    <3> QED  BY <3>2, <3>3, <3>4
  <2> QED  BY <2>1, <1>i, Ranges DEF TypeOK, PCs, Ticks
<1>2. LogInv'
  BY <1>i, LogUnchanged
<1>3. LiveInv'
  BY <1>i DEF LiveInv, TypeOK
<1>4. TickInv'
  <2>1. CASE Len(log) \in {0, tick.bm}
    BY <1>i, <2>1 DEF TickInv
  <2>2. CASE Len(log) \notin {0, tick.bm}
    <3>1. tick' = [tick EXCEPT !.m = Len(log), !.full = (tick.bm = 0)]
      BY <2>2
    <3>2. bookmark <= Len(log) /\ Len(log) # 0
      BY <1>i, <2>2, Ranges DEF TypeOK
    <3> QED  BY <1>i, <2>2, <3>1, <3>2 DEF TickInv, TypeOK, Ticks
  <2> QED  BY <2>1, <2>2
<1>5. WorkInv'
  BY <1>i DEF WorkInv, TickInv, TypeOK, NoWork
<1>6. TargetInv'
  BY <1>i, <1>d, Ranges DEF TargetInv, Pin, TickInv, TypeOK, Ticks, NoWork
<1>7. WindowInv'
  BY <1>i, <1>d DEF WindowInv, Covers, Quiet, TickInv, TypeOK, Ticks
<1>8. MergedInv'
  BY <1>i, <1>d DEF MergedInv, ResumeSkipsOnlyMerged, TickInv, NoWork
<1>9. LateInv'
  BY <1>i, <1>d, Ranges DEF LateInv, Pin, TickInv, TypeOK, Ticks, NoWork
<1> QED  BY <1>1, <1>2, <1>3, <1>4, <1>5, <1>6, <1>7, <1>8, <1>9 DEF IInv

\* Probe: a bookmark that is still listed has all its successors listed.
LEMMA ProbeStep ==
    ASSUME IInv, Probe
    PROVE  IInv'
<1> USE DEF Probe, sourceVars, Running, Detecting, NoSnap, NoMark, Fail, SnapshotExists
<1>i. /\ TypeOK /\ LogInv /\ LiveInv /\ TickInv /\ WorkInv
      /\ TargetInv /\ WindowInv /\ MergedInv /\ LateInv
  BY DEF IInv
<1>d. \A s : DataAt(s)' = DataAt(s)
  BY DataStable
<1>1. TypeOK'
  <2>1. tick' \in Ticks
    <3>1. /\ tick \in Ticks /\ NoTick \in Ticks /\ 0 \in Positions
          /\ 0 \in 0..Len(log) /\ Len(log) \in 0..Len(log)
      BY <1>i, Ranges DEF TypeOK
    <3> QED  BY <3>1 DEF Ticks
  <2> QED  BY <2>1, <1>i, Ranges DEF TypeOK, PCs, Ticks
<1>2. LogInv'
  BY <1>i, LogUnchanged
<1>3. LiveInv'
  BY <1>i DEF LiveInv, TypeOK
<1>4. TickInv'
  BY <1>i DEF TickInv, WorkInv, TypeOK, Ticks, NoTick
<1>5. WorkInv'
  BY <1>i DEF WorkInv, TickInv, TypeOK, NoWork
<1>6. TargetInv'
  BY <1>i, <1>d, Ranges DEF TargetInv, Pin, TickInv, TypeOK, Ticks, NoWork
<1>7. WindowInv'
  BY <1>i, <1>d DEF WindowInv, Covers, Quiet, TickInv, TypeOK, Ticks
<1>8. MergedInv'
  BY <1>i, <1>d DEF MergedInv, ResumeSkipsOnlyMerged, TickInv, NoWork
<1>9. LateInv'
  BY <1>i, <1>d, Ranges DEF LateInv, Pin, TickInv, TypeOK, Ticks, NoWork
<1> QED  BY <1>1, <1>2, <1>3, <1>4, <1>5, <1>6, <1>7, <1>8, <1>9 DEF IInv

\* A tick that stops, for whatever reason, leaves the persisted row true.
LEMMA AbortStep ==
    ASSUME IInv, pc # "idle", Fail,
           UNCHANGED <<sourceVars, target, bookmark, work, chunk>>,
           late' \in {late, NoLate}
    PROVE  IInv'
<1> USE DEF Fail, sourceVars, Running, Detecting, NoSnap, NoMark
<1>i. /\ TypeOK /\ LogInv /\ LiveInv /\ TickInv /\ WorkInv
      /\ TargetInv /\ WindowInv /\ MergedInv /\ LateInv
  BY DEF IInv
<1>d. \A s : DataAt(s)' = DataAt(s)
  BY DataStable
<1>p. Pin \in Nat /\ Pin' \in Nat /\ Pin <= Pin'
  BY <1>i, Ranges DEF Pin, TypeOK, Ticks
<1>1. TypeOK'
  BY <1>i, Ranges DEF TypeOK, PCs, Ticks
<1>2. LogInv'
  BY <1>i, LogUnchanged
<1>3. LiveInv' /\ WorkInv' /\ WindowInv'
  BY <1>i DEF LiveInv, WorkInv, WindowInv
<1>4. TickInv'
  BY DEF TickInv, NoTick
<1>5. TargetInv'
  BY <1>i, <1>p, TargetKept
<1>6. MergedInv'
  BY <1>i, <1>d DEF MergedInv, ResumeSkipsOnlyMerged
<1>7. LateInv'
  BY <1>i, <1>d, <1>p DEF LateInv, NoLate, TypeOK
<1> QED  BY <1>1, <1>2, <1>3, <1>4, <1>5, <1>6, <1>7 DEF IInv

\* MergeFails.
LEMMA MergeFailsStep ==
    ASSUME IInv, MergeFails
    PROVE  IInv'
<1> USE DEF MergeFails, sourceVars, Running, Detecting, NoSnap, NoMark, Fail, SnapshotExists
<1>i. /\ TypeOK /\ LogInv /\ LiveInv /\ TickInv /\ WorkInv
      /\ TargetInv /\ WindowInv /\ MergedInv /\ LateInv
  BY DEF IInv
<1>d. \A s : DataAt(s)' = DataAt(s)
  BY DataStable
<1>1. TypeOK'
  BY <1>i, Ranges DEF TypeOK, PCs, Ticks
<1>2. LogInv'
  BY <1>i, LogUnchanged
<1>3. LiveInv'
  BY <1>i DEF LiveInv, TypeOK
<1>4. TickInv'
  BY <1>i DEF TickInv, NoTick
<1>5. WorkInv'
  BY <1>i DEF WorkInv, TickInv, TypeOK, NoWork
<1>6. TargetInv'
  BY <1>i, <1>d, Ranges DEF TargetInv, Pin, TickInv, TypeOK, Ticks, NoWork
<1>7. WindowInv'
  BY <1>i, <1>d DEF WindowInv, Covers, Quiet, TickInv, TypeOK, Ticks
<1>8. MergedInv'
  BY <1>i, <1>d DEF MergedInv, ResumeSkipsOnlyMerged, TickInv, NoWork
<1>9. LateInv'
  BY <1>i, <1>d, Ranges DEF LateInv, Pin, TickInv, TypeOK, Ticks, NoWork
<1> QED  BY <1>1, <1>2, <1>3, <1>4, <1>5, <1>6, <1>7, <1>8, <1>9 DEF IInv

\* ClearWork.
LEMMA ClearWorkStep ==
    ASSUME IInv, ClearWork
    PROVE  IInv'
<1> USE DEF ClearWork, sourceVars, Running, Detecting, NoSnap, NoMark, Fail
<1>i. /\ TypeOK /\ LogInv /\ LiveInv /\ TickInv /\ WorkInv
      /\ TargetInv /\ WindowInv /\ MergedInv /\ LateInv
  BY DEF IInv
<1>d. \A s : DataAt(s)' = DataAt(s)
  BY DataStable
<1>1. TypeOK'
  BY <1>i, Ranges DEF TypeOK, PCs, Ticks
<1>2. LogInv'
  BY <1>i, LogUnchanged
<1>3. LiveInv'
  BY <1>i DEF LiveInv, TypeOK
<1>4. TickInv'
  BY <1>i DEF TickInv, NoTick, NoWork
<1>5. WorkInv'
  BY <1>i DEF WorkInv, TickInv, TypeOK, NoWork
<1>6. TargetInv'
  BY <1>i, TargetKept, Ranges DEF Pin, NoWork, TypeOK
<1>7. WindowInv'
  BY <1>i, <1>d DEF WindowInv, Covers, Quiet, TickInv, TypeOK, Ticks
<1>8. MergedInv'
  BY <1>i, <1>d DEF MergedInv, ResumeSkipsOnlyMerged, TickInv, NoWork
<1>9. LateInv'
  BY <1>i, <1>d, Ranges DEF LateInv, Pin, TickInv, TypeOK, Ticks, NoWork
<1> QED  BY <1>1, <1>2, <1>3, <1>4, <1>5, <1>6, <1>7, <1>8, <1>9 DEF IInv

\* SkipTick moves the bookmark only when nothing changed up to the pin.
LEMMA SkipTickStep ==
    ASSUME IInv, SkipTick
    PROVE  IInv'
<1> USE DEF SkipTick, sourceVars, Running, Detecting, NoSnap, NoMark
<1>i. /\ TypeOK /\ LogInv /\ LiveInv /\ TickInv /\ WorkInv
      /\ TargetInv /\ WindowInv /\ MergedInv /\ LateInv
  BY DEF IInv
<1>d. \A s : DataAt(s)' = DataAt(s)
  BY DataStable
<1>q. tick.adv # 0 =>
        /\ tick.adv = tick.m /\ Quiet /\ bookmark <= tick.m /\ Pin = tick.m
        /\ work.m \in {0, tick.m}
        /\ target = DataAt(tick.m)
  <2> SUFFICES ASSUME tick.adv # 0
      PROVE  /\ tick.adv = tick.m /\ Quiet /\ bookmark <= tick.m /\ Pin = tick.m
             /\ work.m \in {0, tick.m}
             /\ target = DataAt(tick.m)
    OBVIOUS
  <2>1. /\ tick.adv = tick.m /\ tick.m # 0 /\ Quiet /\ bookmark <= tick.m
        /\ work.m \in {0, tick.m}
    BY <1>i DEF WindowInv, TickInv, TypeOK, Ticks
  <2>2. Pin = tick.m
    BY <2>1 DEF Pin
  <2>3. \A b \in Buckets : target[b] = DataAt(tick.m)[b]
    BY <1>i, <2>1, <2>2 DEF TargetInv, Quiet
  <2>4. target \in Versions /\ DataAt(tick.m) \in Versions
    BY <1>i, DataTyped DEF TypeOK, Ticks
  <2> QED  BY <2>1, <2>2, <2>3, <2>4 DEF Versions
<1>p. Pin' \in Nat /\ Pin <= Pin' /\ Pin \in Nat
  BY <1>i, <1>q, Ranges DEF Pin, TickInv, TypeOK, Ticks
<1>1. TypeOK'
  BY <1>i, Ranges DEF TypeOK, PCs, Ticks
<1>2. LogInv'
  BY <1>i, LogUnchanged
<1>3. LiveInv'
  BY <1>i DEF LiveInv, TypeOK
<1>4. TickInv'
  BY <1>i DEF TickInv, WorkInv, TypeOK, Ticks, NoWork
<1>5. WorkInv'
  BY <1>i, <1>q DEF WorkInv, TypeOK
<1>6. TargetInv'
  <2>1. CASE tick.adv = 0
    BY <1>i, <1>p, <2>1, TargetKept
  <2>2. CASE tick.adv # 0
    BY <1>d, <1>p, <1>q, <2>2 DEF TargetInv
  <2> QED  BY <2>1, <2>2
<1>7. WindowInv'
  BY <1>i, <1>d DEF WindowInv, Covers, Quiet, TickInv, TypeOK, Ticks
<1>8. MergedInv'
  BY <1>i, <1>d DEF MergedInv, ResumeSkipsOnlyMerged, TickInv, NoWork
<1>9. LateInv'
  <2>1. CASE tick.adv = 0
    BY <1>i, <1>d, <1>p, <2>1 DEF LateInv, TypeOK
  <2>2. CASE tick.adv # 0
    <3>1. late.m # 0 => \A b \in Buckets : DataAt(late.m)[b] = DataAt(tick.m)[b]
      BY <1>i, <1>q, <2>2 DEF LateInv, Quiet, TypeOK
    <3> QED  BY <1>i, <1>d, <1>p, <1>q, <2>2, <3>1 DEF LateInv, TypeOK
  <2> QED  BY <2>1, <2>2
<1> QED  BY <1>1, <1>2, <1>3, <1>4, <1>5, <1>6, <1>7, <1>8, <1>9 DEF IInv

\* The ranges of a window that covers every change since the bookmark: buckets
\* before the first range are as of the pin already, because they lie outside the
\* window or below the marker.
LEMMA BeginRunStep ==
    ASSUME IInv, NEW lo \in Buckets, NEW hi \in Buckets, BeginRanges(lo, hi),
           pc \in {"list", "setwork", "files"}, lo <= hi, Covers(lo, hi), Pin = tick.m,
           UNCHANGED <<sourceVars, target, bookmark, chunk, late>>,
           work' = [m |-> tick.m, mark |-> tick.mark],
           tick.mark # NoMark => work' = work,
           bookmark <= tick.m
    PROVE  IInv'
<1> USE DEF sourceVars, Running, Detecting, NoSnap, NoMark
<1>i. /\ TypeOK /\ LogInv /\ LiveInv /\ TickInv /\ WorkInv
      /\ TargetInv /\ WindowInv /\ MergedInv /\ LateInv
  BY DEF IInv
<1>d. \A s : DataAt(s)' = DataAt(s)
  BY DataStable
<1>b. /\ tick' \in Ticks /\ hi < tick'.end
      /\ tick'.cur <= lo \/ tick'.cur <= tick.mark
      /\ tick.mark = 0 => tick'.cur <= lo
      /\ pc' = IF tick'.cur < tick'.end THEN "merge" ELSE "complete"
      /\ tick'.bm = tick.bm /\ tick'.m = tick.m /\ tick'.mark = tick.mark
      /\ tick'.resumed = tick.resumed /\ tick'.lo = lo /\ tick'.hi = hi
  <2>1. tick \in Ticks /\ TypeOK
    BY <1>i DEF TypeOK
  <2>2. tick' = [tick EXCEPT !.lo = lo, !.hi = hi, !.cur = tick'.cur,
                             !.end = tick'.end, !.multi = tick'.multi]
    BY <2>1, BeginRangesFacts
  <2>3. /\ tick'.bm = tick.bm /\ tick'.m = tick.m /\ tick'.mark = tick.mark
        /\ tick'.resumed = tick.resumed /\ tick'.lo = lo /\ tick'.hi = hi
    BY <2>1, <2>2 DEF Ticks
  <2> QED  BY <2>1, <2>3, BeginRangesFacts
<1>m. /\ tick.m \in 1..Len(log) /\ tick.bm = bookmark /\ tick.mark \in Positions
      /\ work'.m = tick.m /\ work'.mark = tick.mark /\ Pin' = tick.m
  BY <1>i DEF TickInv, TypeOK, Ticks, Pin
<1>c. Covers(lo, hi)'
  BY <1>b, <1>d DEF Covers
<1>1. TypeOK'
  BY <1>i, <1>b, <1>m, Ranges DEF TypeOK, PCs, Ticks
<1>2. LogInv'
  BY <1>i, LogUnchanged
<1>3. LiveInv'
  BY <1>i, <1>b DEF LiveInv
<1>4. TickInv'
  BY <1>i, <1>b, <1>m DEF TickInv
<1>5. WorkInv'
  BY <1>m DEF WorkInv
<1>6. TargetInv'
  BY <1>i, <1>m, TargetKept DEF TypeOK
<1>7. WindowInv'
  <2>1. tick'.cur \in Nat /\ tick'.end \in Nat
    BY <1>b, <1>i, Ranges DEF Ticks
  <2> QED  BY <1>b, <1>c, <2>1 DEF WindowInv
<1>8. MergedInv'
  <2>1. ASSUME NEW b \in Buckets, b < tick'.cur
        PROVE  target[b] = DataAt(tick.m)[b]
    <3>1. CASE b < lo
      <4>1. PICK s \in bookmark..tick.m : target[b] = DataAt(s)[b]
        BY <1>i DEF TargetInv
      <4>2. b \notin lo..hi
        BY <3>1, Ranges, <1>i
      <4> QED  BY <4>1, <4>2 DEF Covers
    <3>2. CASE ~(b < lo)
      <4>1. tick.mark # 0 /\ b < tick.mark
        <5>1. b \in Nat /\ lo \in Nat /\ tick'.cur \in Nat /\ tick.mark \in Nat
          BY <1>b, <1>m, <1>i, Ranges DEF Ticks
        <5> QED  BY <2>1, <3>2, <1>b, <5>1
      <4> QED  BY <4>1, <1>i, <1>m DEF MergedInv, ResumeSkipsOnlyMerged
    <3> QED  BY <3>1, <3>2
  <2>2. ResumeSkipsOnlyMerged'
    BY <1>i, <1>d, <1>m, Ranges DEF MergedInv, ResumeSkipsOnlyMerged
  <2>3. pc' # "record"
    BY <1>b
  <2> QED  BY <1>b, <1>d, <2>1, <2>2, <2>3 DEF MergedInv
<1>9. LateInv'
  BY <1>i, <1>b, <1>d, <1>m DEF LateInv, TypeOK
<1> QED  BY <1>1, <1>2, <1>3, <1>4, <1>5, <1>6, <1>7, <1>8, <1>9 DEF IInv

\* The listing is complete: a bucket of which no listed snapshot adds a file
\* did not change between the bookmark and the pin.
LEMMA ListCovers ==
    ASSUME IInv, pc = "list"
    PROVE  \A b \in Buckets : \A s \in bookmark..tick.m :
              b \notin AddedBuckets(Listed) => DataAt(s)[b] = DataAt(tick.m)[b]
<1> SUFFICES ASSUME NEW b \in Buckets, NEW s \in bookmark..tick.m,
                    DataAt(s)[b] # DataAt(tick.m)[b]
             PROVE  b \in AddedBuckets(Listed)
  OBVIOUS
<1>1. /\ tick.m \in 0..Len(log) /\ s \in 0..Len(log) /\ s <= tick.m
      /\ tick.bm = bookmark /\ bookmark \in Nat /\ Len(log) \in Nat
  BY Ranges DEF IInv, TypeOK, Ticks, TickInv
<1>2. PICK u \in (s + 1)..tick.m : log[u].op \in ChangeOps /\ b \in log[u].files
  BY <1>1 DEF IInv, LogInv
<1>3. u \in (tick.bm + 1)..Len(log)
  BY <1>1, <1>2
<1>4. u \in live
  BY <1>3 DEF IInv, LiveInv
<1>5. u \in Listed
  BY <1>1, <1>2, <1>3, <1>4 DEF Listed, SnapshotsSince
<1> QED  BY <1>2, <1>5 DEF AddedBuckets

\* A bucket without live files never had rows.
LEMMA FilesCover ==
    ASSUME IInv
    PROVE  \A b \in Buckets : \A s \in 0..Len(log) :
              b \notin SourceBuckets => DataAt(s)[b] = 0
<1>1. Len(log) \in 0..Len(log) /\ \A s \in 0..Len(log) : s <= Len(log)
  BY Ranges DEF IInv
<1> QED  BY <1>1 DEF IInv, LogInv, SourceBuckets

\* Nothing lies outside a column range.
LEMMA ColumnRangeBounds ==
    ASSUME NEW B, NEW lo \in Buckets, NEW hi \in Buckets, IsColumnRange(B, lo, hi)
    PROVE  lo <= hi /\ \A b \in Buckets : b \notin lo..hi => b \notin B
BY SourceAssumption DEF IsColumnRange, Buckets

\* ListWindow.
LEMMA ListWindowStep ==
    ASSUME IInv, ListWindow
    PROVE  IInv'
<1> USE DEF ListWindow, sourceVars, Running, Detecting, NoSnap, NoMark
<1>i. /\ TypeOK /\ LogInv /\ LiveInv /\ TickInv /\ WorkInv
      /\ TargetInv /\ WindowInv /\ MergedInv /\ LateInv
  BY DEF IInv
<1>u. UNCHANGED <<log, live, target, bookmark, work, chunk, late>>
  OBVIOUS
<1>t. /\ tick \in Ticks /\ work \in [m : 0..Len(log), mark : Positions]
      /\ bookmark \in 0..Len(log) /\ Len(log) \in Nat /\ tick.m \in 0..Len(log)
      /\ 0 \in 0..Len(log) /\ tick.mark \in Positions
  BY <1>i, Ranges DEF TypeOK, Ticks
<1>m. /\ tick.m # 0 /\ tick.bm = bookmark /\ bookmark <= tick.m
      /\ tick.adv = 0 /\ bookmark # 0
      /\ (tick.resumed => work.m = tick.m /\ work.mark = tick.mark)
      /\ (~tick.resumed => work.m = 0 /\ tick.mark = 0)
  BY <1>i DEF TickInv
<1>n. Pin = tick.m
  BY <1>i, <1>m DEF Pin
<1>e. tick.cur = 0 /\ tick.end = 0
  BY <1>i DEF TickInv
<1>d. \A s : DataAt(s)' = DataAt(s)
  BY DataStable
<1>q. AddedBuckets(Listed) = {} => Quiet
  BY ListCovers DEF Quiet
<1>c. \A lo, hi \in Buckets : IsColumnRange(AddedBuckets(Listed), lo, hi) =>
          lo <= hi /\ Covers(lo, hi)
  <2> SUFFICES ASSUME NEW lo \in Buckets, NEW hi \in Buckets,
                      IsColumnRange(AddedBuckets(Listed), lo, hi)
               PROVE  lo <= hi /\ Covers(lo, hi)
    OBVIOUS
  <2>1. lo <= hi /\ \A b \in Buckets : b \notin lo..hi => b \notin AddedBuckets(Listed)
    BY ColumnRangeBounds
  <2> QED  BY <2>1, ListCovers DEF Covers
<1>1. CASE HasUnsupported(Listed)
  <2>1. Fail
    BY <1>1
  <2> QED  BY <2>1, AbortStep DEF NoLate
<1>2. CASE AddedBuckets(Listed) = {} /\ pc' = "skip"
           /\ tick' = [tick EXCEPT !.adv = IF tick.mark = 0 THEN tick.m ELSE 0]
  <2>1. /\ tick' \in Ticks /\ tick'.bm = tick.bm /\ tick'.m = tick.m
        /\ tick'.mark = tick.mark /\ tick'.resumed = tick.resumed
        /\ tick'.adv \in {0, tick.m} /\ tick'.cur = tick.cur /\ tick'.end = tick.end
    <3>1. PICK a \in {0, tick.m} : tick' = [tick EXCEPT !.adv = a]
      BY <1>2
    <3>2. a \in 0..Len(log) /\ tick \in Ticks
      BY <1>t
    <3> QED  BY <3>1, <3>2 DEF Ticks
  <2>2. TypeOK'
    BY <1>2, <1>i, <2>1, Ranges DEF TypeOK, PCs, Ticks
  <2>3. TickInv'
    BY <1>2, <1>i, <1>m, <1>e, <2>1 DEF TickInv
  <2>4. Quiet'
    BY <1>2, <1>q, <1>d, <2>1 DEF Quiet
  <2>5. WindowInv'
    BY <1>2, <2>1, <2>4, <1>m DEF WindowInv
  <2>6. Pin' = Pin
    BY <1>2, <1>m, <1>n, <2>1 DEF Pin
  <2>7. LateInv'
    BY <1>i, <1>d, <1>2, <2>6 DEF LateInv, TypeOK
  <2>8. MergedInv' /\ LiveInv' /\ WorkInv' /\ LogInv'
    BY <1>i, <1>d, <1>2, LogUnchanged
       DEF MergedInv, ResumeSkipsOnlyMerged, LiveInv, WorkInv
  <2>9. TargetInv'
    BY <1>i, <1>n, <1>t, <1>2, <2>6, TargetKept
  <2> QED  BY <2>2, <2>3, <2>5, <2>7, <2>8, <2>9 DEF IInv
<1>3. ASSUME NEW lo \in Buckets, NEW hi \in Buckets,
             IsColumnRange(AddedBuckets(Listed), lo, hi),
             tick.resumed, BeginRanges(lo, hi)
      PROVE  IInv'
  <2>1. work' = [m |-> tick.m, mark |-> tick.mark]
    BY <1>3, <1>t, <1>m
  <2>2. lo <= hi /\ Covers(lo, hi)
    BY <1>3, <1>c
  <2> QED  BY <1>3, <1>m, <1>n, <1>t, <2>1, <2>2, BeginRunStep
<1>4. ASSUME NEW lo \in Buckets, NEW hi \in Buckets,
             IsColumnRange(AddedBuckets(Listed), lo, hi),
             ~tick.resumed, pc' = "setwork", tick' = [tick EXCEPT !.lo = lo, !.hi = hi]
      PROVE  IInv'
  <2>1. /\ tick' \in Ticks /\ tick'.bm = tick.bm /\ tick'.m = tick.m
        /\ tick'.mark = tick.mark /\ tick'.resumed = tick.resumed
        /\ tick'.adv = tick.adv /\ tick'.lo = lo /\ tick'.hi = hi
        /\ tick'.cur = tick.cur /\ tick'.end = tick.end
    BY <1>4, <1>i DEF TypeOK, Ticks
  <2>2. TypeOK'
    BY <1>4, <1>i, <2>1, Ranges DEF TypeOK, PCs, Ticks
  <2>3. TickInv'
    BY <1>4, <1>i, <1>m, <1>e, <2>1 DEF TickInv
  <2>4. lo <= hi /\ Covers(lo, hi)
    BY <1>4, <1>c
  <2>5. Covers(lo, hi)'
    BY <2>1, <2>4, <1>d DEF Covers
  <2>6. WindowInv'
    BY <1>4, <2>1, <2>4, <2>5 DEF WindowInv
  <2>7. Pin' = Pin
    BY <1>4, <1>m, <1>n, <2>1 DEF Pin
  <2>8. LateInv'
    BY <1>i, <1>d, <1>4, <2>7 DEF LateInv, TypeOK
  <2>9. MergedInv' /\ LiveInv' /\ WorkInv' /\ LogInv'
    BY <1>i, <1>d, <1>4, LogUnchanged
       DEF MergedInv, ResumeSkipsOnlyMerged, LiveInv, WorkInv
  <2>10. TargetInv'
    <3> HIDE DEF ListWindow
    <3>1. tick.m \in Nat
      BY <1>t
    <3> QED  BY <1>i, <1>n, <1>u, <2>7, <3>1, TargetKept
  <2> QED  BY <2>2, <2>3, <2>6, <2>8, <2>9, <2>10 DEF IInv
<1> QED  BY <1>1, <1>2, <1>3, <1>4

\* PinRun.
LEMMA PinRunStep ==
    ASSUME IInv, PinRun
    PROVE  IInv'
<1> USE DEF PinRun, sourceVars, Running, Detecting, NoSnap, NoMark
<1>i. /\ TypeOK /\ LogInv /\ LiveInv /\ TickInv /\ WorkInv
      /\ TargetInv /\ WindowInv /\ MergedInv /\ LateInv
  BY DEF IInv
<1>m. /\ tick.m \in 1..Len(log) /\ bookmark <= tick.m /\ tick.mark = 0
      /\ Pin = tick.m /\ work.m = 0
      /\ work' = [m |-> tick.m, mark |-> tick.mark]
  BY <1>i DEF TickInv, TypeOK, Ticks, Pin
<1>d. \A s : DataAt(s)' = DataAt(s)
  BY DataStable
<1>1. CASE ~tick.full
  <2>1. BeginRanges(tick.lo, tick.hi)
    BY <1>1
  <2>2. /\ tick.lo \in Buckets /\ tick.hi \in Buckets
        /\ tick.lo <= tick.hi /\ Covers(tick.lo, tick.hi)
    BY <1>i, <1>1 DEF WindowInv, TypeOK, Ticks
  <2> QED  BY <1>m, <2>1, <2>2, BeginRunStep
<1>2. CASE tick.full
  <2>1. pc' = "files" /\ tick' = tick /\ work'.m = tick.m /\ work'.mark = 0
    BY <1>2, <1>m
  <2>2. TypeOK'
    BY <1>i, <1>m, <2>1, Ranges DEF TypeOK, PCs, Ticks
  <2>3. TickInv'
    BY <1>i, <1>m, <1>2, <2>1 DEF TickInv
  <2>4. Pin' = Pin
    BY <1>m, <2>1 DEF Pin
  <2>5. LateInv'
    BY <1>i, <1>d, <2>1, <2>4 DEF LateInv, TypeOK
  <2>6. MergedInv'
    BY <1>i, <1>d, <2>1, Ranges DEF MergedInv, ResumeSkipsOnlyMerged
  <2>7. LiveInv' /\ WorkInv' /\ LogInv' /\ WindowInv'
    BY <1>i, <1>m, <2>1, LogUnchanged DEF LiveInv, WorkInv, WindowInv
  <2>8. TargetInv'
    BY <1>i, <1>m, <2>4, TargetKept
  <2> QED  BY <2>2, <2>3, <2>5, <2>6, <2>7, <2>8 DEF IInv
<1> QED  BY <1>1, <1>2

\* ReadFiles: the live files cover every bucket that ever had rows.
LEMMA ReadFilesStep ==
    ASSUME IInv, ReadFiles
    PROVE  IInv'
<1> USE DEF ReadFiles, sourceVars, Running, Detecting, NoSnap, NoMark
<1>i. /\ TypeOK /\ LogInv /\ LiveInv /\ TickInv /\ WorkInv
      /\ TargetInv /\ WindowInv /\ MergedInv /\ LateInv
  BY DEF IInv
<1>m. /\ tick.m \in 1..Len(log) /\ bookmark <= tick.m /\ tick.mark = work.mark
      /\ Pin = tick.m /\ work.m = tick.m /\ tick.bm = bookmark
      /\ work = [m |-> tick.m, mark |-> tick.mark]
  BY <1>i DEF TickInv, WorkInv, TypeOK, Ticks, Pin
<1>d. \A s : DataAt(s)' = DataAt(s)
  BY DataStable
<1>c. \A b \in Buckets : \A s \in bookmark..tick.m :
          b \notin SourceBuckets => DataAt(s)[b] = DataAt(tick.m)[b]
  BY <1>i, <1>m, FilesCover DEF TypeOK
<1>1. CASE SourceBuckets = {} /\ pc' = "complete" /\ tick' = tick
  <2>1. Quiet
    BY <1>1, <1>c DEF Quiet
  <2>2. tick.cur = 0 /\ tick.end = 0
    BY <1>i DEF TickInv
  <2>3. TypeOK'
    BY <1>1, <1>i DEF TypeOK, PCs, Ticks
  <2>4. TickInv'
    BY <1>1, <1>i, <1>m DEF TickInv
  <2>5. Quiet'
    BY <1>1, <2>1, <1>d DEF Quiet
  <2>6. WindowInv'
    BY <1>1, <2>2, <2>5 DEF WindowInv
  <2>7. Pin' = Pin
    BY <1>1, <1>m DEF Pin
  <2>8. LateInv'
    <3>1. tick.lo \in Nat
      BY <1>i, Ranges DEF TypeOK, Ticks
    <3> QED  BY <1>i, <1>d, <1>1, <1>m, <2>2, <2>7, <3>1 DEF LateInv, TypeOK
  <2>9. MergedInv' /\ LiveInv' /\ WorkInv' /\ LogInv'
    BY <1>i, <1>d, <1>1, <2>2, Ranges, LogUnchanged
       DEF MergedInv, ResumeSkipsOnlyMerged, LiveInv, WorkInv
  <2>10. TargetInv'
    BY <1>i, <1>m, <2>7, TargetKept
  <2> QED  BY <2>3, <2>4, <2>6, <2>8, <2>9, <2>10 DEF IInv
<1>2. ASSUME NEW lo \in Buckets, NEW hi \in Buckets,
             IsColumnRange(SourceBuckets, lo, hi), BeginRanges(lo, hi)
      PROVE  IInv'
  <2>1. lo <= hi /\ \A b \in Buckets : b \notin lo..hi => b \notin SourceBuckets
    BY <1>2, ColumnRangeBounds
  <2>2. lo <= hi /\ Covers(lo, hi)
    BY <2>1, <1>c DEF Covers
  <2> QED  BY <1>2, <1>m, <2>2, BeginRunStep
<1> QED  BY <1>1, <1>2

\* What a MERGE does to a bucket.
LEMMA MergedFacts ==
    ASSUME TypeOK, NEW m \in 0..Len(log), NEW lo \in Positions, NEW hi \in Positions
    PROVE  /\ Merged(m, lo, hi) \in Versions
           /\ \A b \in Buckets : Merged(m, lo, hi)[b] \in {target[b], DataAt(m)[b]}
           /\ \A b \in Buckets : lo <= b /\ b < hi /\ (DataAt(m)[b] = 0 => target[b] = 0)
                                    => Merged(m, lo, hi)[b] = DataAt(m)[b]
<1>1. DataAt(m) \in Versions /\ target \in Versions
  BY DataTyped DEF TypeOK
<1> QED  BY <1>1 DEF Merged, Versions

\* The pin lies between the bookmark and the present, and a running tick works
\* on the persisted one.
LEMMA PinFacts ==
    ASSUME IInv
    PROVE  /\ Pin \in 0..Len(log) /\ bookmark \in 0..Len(log) /\ bookmark <= Pin
           /\ Running => Pin = tick.m /\ work.m = tick.m /\ tick.m # 0
<1>1. TypeOK /\ TickInv /\ TargetInv
  BY DEF IInv
<1>2. /\ Len(log) \in 0..Len(log) /\ work.m \in 0..Len(log) /\ tick.m \in 0..Len(log)
      /\ bookmark \in 0..Len(log) /\ 0 \in Buckets
  BY <1>1, Ranges DEF TypeOK, Ticks
<1>3. Pin \in 0..Len(log)
  BY <1>2 DEF Pin
<1>4. bookmark <= Pin
  <2>1. PICK s \in bookmark..Pin : target[0] = DataAt(s)[0]
    BY <1>1, <1>2 DEF TargetInv
  <2> QED  BY <2>1, <1>2, <1>3
<1>5. Running => Pin = tick.m /\ work.m = tick.m /\ tick.m # 0
  BY <1>1 DEF TickInv, Pin, NoSnap, Running
<1> QED  BY <1>2, <1>3, <1>4, <1>5

\* The next range of a running tick is not empty.
LEMMA RunningChunk ==
    ASSUME IInv, pc \in {"merge", "record"}
    PROVE  /\ TickChunkEnd \in Positions /\ TickChunkEnd \in Nat
           /\ tick.cur \in Nat /\ tick.end \in Nat /\ tick.cur \in Positions
           /\ tick.cur < TickChunkEnd /\ TickChunkEnd <= tick.end
<1>1. /\ tick.chunk \in Sizes /\ tick.cur \in Positions /\ tick.end \in Positions
      /\ tick.cur < tick.end
  BY DEF IInv, TypeOK, Ticks, WindowInv
<1>2. tick.cur \in Buckets /\ Positions \subseteq Nat
  BY <1>1, SourceAssumption DEF Positions, Buckets
<1>3. /\ TickChunkEnd \in Positions
      /\ tick.cur < TickChunkEnd /\ TickChunkEnd <= tick.end
  BY <1>1, <1>2, ChunkEndBounds DEF TickChunkEnd
<1> QED  BY <1>1, <1>2, <1>3

\* After a MERGE every bucket below the end of its range is as of the pin.
LEMMA MergeChunkValues ==
    ASSUME IInv, MergeChunk
    PROVE  /\ target' \in Versions
           /\ \A b \in Buckets : target'[b] \in {target[b], DataAt(tick.m)[b]}
           /\ \A b \in Buckets : b < TickChunkEnd => target'[b] = DataAt(tick.m)[b]
<1>1. /\ TypeOK /\ LogInv /\ TargetInv /\ MergedInv /\ pc = "merge" /\ Running
      /\ target' = Merged(tick.m, tick.cur, TickChunkEnd)
  BY DEF IInv, MergeChunk, Running
<1>2. /\ tick.m \in 0..Len(log) /\ Pin = tick.m /\ bookmark \in 0..Len(log)
      /\ tick.cur \in Positions /\ TickChunkEnd \in Positions
      /\ tick.cur \in Nat /\ Buckets \subseteq Nat /\ Len(log) \in Nat
  BY <1>1, PinFacts, RunningChunk, Ranges
<1>3. ASSUME NEW b \in Buckets, DataAt(tick.m)[b] = 0
      PROVE  target[b] = 0
  <2>1. PICK s \in bookmark..tick.m : target[b] = DataAt(s)[b]
    BY <1>1, <1>2 DEF TargetInv
  <2>2. s \in 0..Len(log) /\ s <= tick.m
    BY <1>2, <2>1
  <2> QED  BY <1>1, <1>2, <1>3, <2>1, <2>2 DEF LogInv
<1>4. /\ target' \in Versions
      /\ \A b \in Buckets : target'[b] \in {target[b], DataAt(tick.m)[b]}
      /\ \A b \in Buckets : tick.cur <= b /\ b < TickChunkEnd
                               => target'[b] = DataAt(tick.m)[b]
  BY <1>1, <1>2, <1>3, MergedFacts
<1>5. ASSUME NEW b \in Buckets, b < TickChunkEnd
      PROVE  target'[b] = DataAt(tick.m)[b]
  <2>1. CASE b < tick.cur
    <3>1. target[b] = DataAt(tick.m)[b]
      BY <1>1, <2>1 DEF MergedInv
    <3> QED  BY <1>4, <3>1
  <2>2. CASE ~(b < tick.cur)
    BY <1>2, <1>4, <1>5, <2>2
  <2> QED  BY <2>1, <2>2
<1> QED  BY <1>4, <1>5

\* MergeChunk.
LEMMA MergeChunkStep ==
    ASSUME IInv, MergeChunk
    PROVE  IInv'
<1> USE DEF sourceVars, Running, Detecting, NoSnap, NoMark
<1>i. /\ TypeOK /\ LogInv /\ LiveInv /\ TickInv /\ WorkInv
      /\ TargetInv /\ WindowInv /\ MergedInv /\ LateInv
  BY DEF IInv
<1>u. /\ UNCHANGED <<log, live, bookmark, work, chunk, tick>>
      /\ pc = "merge" /\ pc' = "record" /\ late' = NoLate
  BY DEF MergeChunk
<1>d. \A s : DataAt(s)' = DataAt(s)
  BY <1>u, DataStable
<1>p. /\ Pin = tick.m /\ Pin' = tick.m /\ work.m = tick.m /\ tick.m # 0
      /\ tick.m \in 0..Len(log) /\ bookmark \in 0..Len(log) /\ bookmark <= tick.m
      /\ Len(log) \in Nat
  BY <1>u, PinFacts, <1>i, Ranges DEF Pin
<1>e. TickChunkEnd' = TickChunkEnd
  BY <1>u DEF TickChunkEnd
<1>1. TypeOK'
  BY <1>i, <1>u, MergeChunkValues, Ranges DEF TypeOK, PCs, Ticks
<1>2. LogInv' /\ LiveInv' /\ TickInv' /\ WorkInv'
  BY <1>i, <1>u, LogUnchanged DEF LiveInv, TickInv, WorkInv
<1>3. TargetInv'
  <2>1. ASSUME NEW b \in Buckets
        PROVE  \E s \in bookmark..tick.m : target'[b] = DataAt(s)[b]
    <3>1. PICK s \in bookmark..tick.m : target[b] = DataAt(s)[b]
      BY <1>i, <1>p DEF TargetInv
    <3>2. tick.m \in bookmark..tick.m
      BY <1>p
    <3> QED  BY <3>1, <3>2, MergeChunkValues
  <2> QED  BY <1>d, <1>p, <1>u, <2>1 DEF TargetInv
<1>4. WindowInv'
  BY <1>i, <1>d, <1>u DEF WindowInv, Covers, Quiet
<1>5. MergedInv'
  <2>1. \A b \in Buckets : target'[b] \in {target[b], DataAt(tick.m)[b]}
    BY MergeChunkValues
  <2>2. \A b \in Buckets : b < TickChunkEnd => target'[b] = DataAt(tick.m)[b]
    BY MergeChunkValues
  <2>3. \A b \in Buckets : b < tick.cur => target[b] = DataAt(tick.m)[b]
    BY <1>i, <1>u DEF MergedInv
  <2>4. \A b \in Buckets : b < work.mark => target[b] = DataAt(tick.m)[b]
    BY <1>i, <1>p DEF MergedInv, ResumeSkipsOnlyMerged
  <2>5. \A b \in Buckets : b < work.mark => target'[b] = DataAt(tick.m)[b]
    BY <2>1, <2>4
  <2>6. \A b \in Buckets : b < tick.cur => target'[b] = DataAt(tick.m)[b]
    BY <2>1, <2>3
  <2> QED  BY <1>d, <1>e, <1>p, <1>u, <2>2, <2>5, <2>6 DEF MergedInv, ResumeSkipsOnlyMerged
<1>6. LateInv'
  BY <1>u DEF LateInv, NoLate
<1> QED  BY <1>1, <1>2, <1>3, <1>4, <1>5, <1>6 DEF IInv

\* RecordChunk: the marker follows the MERGE.
LEMMA RecordChunkStep ==
    ASSUME IInv, RecordChunk
    PROVE  IInv'
<1> USE DEF sourceVars, Running, Detecting, NoSnap, NoMark
<1>i. /\ TypeOK /\ LogInv /\ LiveInv /\ TickInv /\ WorkInv
      /\ TargetInv /\ WindowInv /\ MergedInv /\ LateInv
  BY DEF IInv
<1>u. /\ UNCHANGED <<log, live, target, bookmark, chunk, late>> /\ pc = "record"
      /\ pc' = IF TickChunkEnd < tick.end THEN "merge" ELSE "complete"
  BY DEF RecordChunk
<1>d. \A s : DataAt(s)' = DataAt(s)
  BY <1>u, DataStable
<1>p. /\ Pin = tick.m /\ work.m = tick.m /\ tick.m # 0
      /\ tick.m \in 0..Len(log) /\ bookmark \in 0..Len(log) /\ bookmark <= tick.m
      /\ Len(log) \in Nat /\ TickChunkEnd \in Positions /\ TickChunkEnd \in Nat
      /\ tick.end \in Nat /\ TickChunkEnd <= tick.end
  BY <1>u, PinFacts, RunningChunk, <1>i, Ranges
<1>w. /\ work' \in [m : 0..Len(log), mark : Positions] /\ work'.m = tick.m
      /\ work'.mark \in {work.mark, TickChunkEnd}
  BY <1>i, <1>p DEF RecordChunk, TypeOK
<1>t. /\ tick' \in Ticks /\ tick'.cur = TickChunkEnd
      /\ tick'.bm = tick.bm /\ tick'.m = tick.m /\ tick'.mark = tick.mark
      /\ tick'.resumed = tick.resumed /\ tick'.lo = tick.lo /\ tick'.hi = tick.hi
      /\ tick'.end = tick.end
  <2>1. PICK d \in Nat : tick' = [tick EXCEPT !.cur = TickChunkEnd, !.done = d]
    <3>1. CASE tick.multi
      <4>1. tick.done + 1 \in Nat
        BY <1>i DEF TypeOK, Ticks
      <4>2. tick' = [tick EXCEPT !.cur = TickChunkEnd, !.done = tick.done + 1]
        BY <3>1 DEF RecordChunk
      <4> QED  BY <4>1, <4>2
    <3>2. CASE ~tick.multi
      BY <3>2 DEF RecordChunk
    <3> QED  BY <3>1, <3>2
  <2>2. tick \in Ticks
    BY <1>i DEF TypeOK
  <2> QED  BY <1>p, <2>1, <2>2 DEF Ticks
<1>q. Pin' = tick.m
  BY <1>p, <1>w DEF Pin
<1>1. TypeOK'
  BY <1>i, <1>u, <1>t, <1>w DEF TypeOK, PCs, Ticks
<1>2. LogInv' /\ LiveInv'
  BY <1>i, <1>u, LogUnchanged DEF LiveInv
<1>3. TickInv' /\ WorkInv'
  BY <1>i, <1>u, <1>t, <1>w, <1>p DEF TickInv, WorkInv
<1>4. TargetInv'
  BY <1>i, <1>p, <1>q, <1>u, TargetKept
<1>5. WindowInv'
  <2>1. Quiet' = Quiet /\ Covers(tick.lo, tick.hi)' = Covers(tick.lo, tick.hi)
    BY <1>d, <1>t, <1>u DEF Quiet, Covers
  <2>2. tick.lo <= tick.hi /\ tick.hi < tick.end /\ Covers(tick.lo, tick.hi)
    BY <1>i, <1>u DEF WindowInv
  <2>3. Covers(tick.lo, tick.hi)'
    BY <2>1, <2>2
  <2> QED  BY <1>p, <1>t, <1>u, <2>2, <2>3 DEF WindowInv
<1>6. MergedInv'
  <2>1. \A b \in Buckets : b < TickChunkEnd => target[b] = DataAt(tick.m)[b]
    BY <1>i, <1>u DEF MergedInv
  <2>2. \A b \in Buckets : b < work.mark => target[b] = DataAt(tick.m)[b]
    BY <1>i, <1>p DEF MergedInv, ResumeSkipsOnlyMerged
  <2> QED  BY <1>d, <1>t, <1>u, <1>w, <2>1, <2>2 DEF MergedInv, ResumeSkipsOnlyMerged
<1>7. LateInv'
  BY <1>i, <1>u DEF LateInv
<1> QED  BY <1>1, <1>2, <1>3, <1>4, <1>5, <1>6, <1>7 DEF IInv

\* When the last range is merged the whole target is the source as of the pin.
LEMMA PublishedTarget ==
    ASSUME IInv, pc = "complete"
    PROVE  target = DataAt(tick.m)
<1>i. /\ TypeOK /\ TargetInv /\ WindowInv /\ MergedInv /\ Running
  BY DEF IInv, Running
<1>p. /\ Pin = tick.m /\ tick.m \in 0..Len(log) /\ Buckets \subseteq Nat
      /\ tick.cur \in Nat /\ tick.end \in Nat /\ tick.lo \in Nat /\ tick.hi \in Nat
  BY <1>i, PinFacts, Ranges DEF TypeOK, Ticks
<1>1. ASSUME NEW b \in Buckets
      PROVE  target[b] = DataAt(tick.m)[b]
  <2>1. PICK s \in bookmark..tick.m : target[b] = DataAt(s)[b]
    BY <1>i, <1>p DEF TargetInv
  <2>2. CASE Quiet
    BY <2>1, <2>2 DEF Quiet
  <2>3. CASE tick.lo <= tick.hi /\ tick.hi < tick.end /\ Covers(tick.lo, tick.hi)
    <3>1. CASE b < tick.cur
      BY <1>i, <3>1 DEF MergedInv
    <3>2. CASE ~(b < tick.cur)
      <4>1. b \notin tick.lo..tick.hi
        BY <1>i, <1>p, <2>3, <3>2 DEF WindowInv
      <4> QED  BY <2>1, <2>3, <4>1 DEF Covers
    <3> QED  BY <3>1, <3>2
  <2> QED  BY <1>i, <2>2, <2>3 DEF WindowInv
<1>2. DataAt(tick.m) \in Versions /\ target \in Versions
  BY <1>i, <1>p, DataTyped DEF TypeOK
<1> QED  BY <1>1, <1>2 DEF Versions

\* CompleteRun: an abandoned MERGE is harmless for the new bookmark too.
LEMMA CompleteRunStep ==
    ASSUME IInv, CompleteRun
    PROVE  IInv'
<1> USE DEF sourceVars, Running, Detecting, NoSnap, NoMark
<1>i. /\ TypeOK /\ LogInv /\ LiveInv /\ TickInv /\ WorkInv
      /\ TargetInv /\ WindowInv /\ MergedInv /\ LateInv
  BY DEF IInv
<1>u. /\ UNCHANGED <<log, live, target, work, chunk, tick, late>>
      /\ pc = "complete" /\ pc' = "clear" /\ bookmark' = tick.m
  BY DEF CompleteRun
<1>d. \A s : DataAt(s)' = DataAt(s)
  BY <1>u, DataStable
<1>p. /\ Pin = tick.m /\ Pin' = tick.m /\ work.m = tick.m /\ tick.m # 0
      /\ tick.m \in 0..Len(log) /\ bookmark \in 0..Len(log) /\ bookmark <= tick.m
      /\ Len(log) \in Nat
  BY <1>u, PinFacts, <1>i, Ranges DEF Pin
<1>1. TypeOK'
  BY <1>i, <1>u, <1>p DEF TypeOK, PCs, Ticks
<1>2. LogInv' /\ LiveInv' /\ TickInv' /\ WorkInv' /\ WindowInv'
  BY <1>i, <1>u, <1>p, LogUnchanged DEF LiveInv, TickInv, WorkInv, WindowInv
<1>3. TargetInv'
  <2>1. tick.m \in tick.m..tick.m
    BY <1>p
  <2> QED  BY <1>d, <1>p, <1>u, <2>1, PublishedTarget DEF TargetInv
<1>4. MergedInv'
  BY <1>i, <1>d, <1>u DEF MergedInv, ResumeSkipsOnlyMerged
<1>5. LateInv'
  <2> SUFFICES ASSUME late.m # 0
               PROVE  LateInv'
    BY <1>u DEF LateInv
  <2>1. late.m \in Nat /\ late.m <= tick.m
    BY <1>i, <1>p DEF LateInv, TypeOK
  <2>2. tick.m <= late.m \/ \A b \in Buckets : DataAt(late.m)[b] = DataAt(tick.m)[b]
    <3>1. CASE Quiet
      <4>1. \A b \in Buckets : DataAt(bookmark)[b] = DataAt(tick.m)[b]
        BY <1>p, <3>1 DEF Quiet
      <4>2. CASE bookmark <= late.m
        BY <1>p, <2>1, <3>1, <4>2 DEF Quiet
      <4>3. CASE ~(bookmark <= late.m)
        BY <1>i, <4>1, <4>3 DEF LateInv
      <4> QED  BY <4>2, <4>3
    <3>2. CASE tick.lo <= tick.hi /\ tick.hi < tick.end
      <4>1. tick.lo \in Nat /\ tick.hi \in Nat /\ tick.end \in Nat /\ tick.cur \in Nat
        BY <1>i, Ranges DEF TypeOK, Ticks
      <4>2. tick.end <= tick.cur /\ (tick.m = late.m \/ tick.cur <= tick.lo)
        BY <1>i, <1>u DEF WindowInv, LateInv
      <4> QED  BY <1>p, <3>2, <4>1, <4>2
    <3> QED  BY <1>i, <1>u, <3>1, <3>2 DEF WindowInv
  <2> QED  BY <1>i, <1>d, <1>p, <1>u, <2>1, <2>2 DEF LateInv
<1> QED  BY <1>1, <1>2, <1>3, <1>4, <1>5 DEF IInv

\* Interrupt: the abandoned MERGE is one of the pinned snapshot.
LEMMA InterruptStep ==
    ASSUME IInv, Interrupt
    PROVE  IInv'
<1> USE DEF sourceVars, Running, Detecting, NoSnap, NoMark
<1>i. /\ TypeOK /\ LogInv /\ LiveInv /\ TickInv /\ WorkInv
      /\ TargetInv /\ WindowInv /\ MergedInv /\ LateInv
  BY DEF IInv
<1>u. /\ UNCHANGED <<log, live, target, bookmark, work, chunk>>
      /\ pc # "idle" /\ Fail
  BY DEF Interrupt
<1>1. CASE late' = late
  BY <1>u, <1>1, AbortStep
<1>2. CASE /\ pc = "merge"
           /\ late' = [m |-> tick.m, lo |-> tick.cur, hi |-> TickChunkEnd]
  <2>d. \A s : DataAt(s)' = DataAt(s)
    BY <1>u, DataStable
  <2>p. /\ Pin = tick.m /\ Pin' = tick.m /\ work.m = tick.m /\ tick.m # 0
        /\ tick.m \in 0..Len(log) /\ bookmark \in 0..Len(log) /\ bookmark <= tick.m
        /\ Len(log) \in Nat /\ tick.cur \in Positions /\ TickChunkEnd \in Positions
    BY <1>u, <1>2, PinFacts, RunningChunk, <1>i, Ranges DEF Pin
  <2>1. TypeOK'
    <3>1. late' \in [m : 0..Len(log), lo : Positions, hi : Positions]
      BY <1>2, <2>p
    <3>2. NoTick \in Ticks /\ tick' = NoTick /\ pc' = "idle"
      BY <1>i, <1>u, Ranges DEF Fail
    <3> QED  BY <1>i, <1>u, <3>1, <3>2 DEF TypeOK, PCs, Ticks
  <2>2. LogInv' /\ LiveInv' /\ TickInv' /\ WorkInv' /\ WindowInv'
    BY <1>i, <1>u, LogUnchanged DEF LiveInv, TickInv, WorkInv, WindowInv, Fail, NoTick
  <2>3. TargetInv'
    BY <1>i, <1>u, <2>p, TargetKept
  <2>4. MergedInv'
    BY <1>i, <2>d, <1>u DEF MergedInv, ResumeSkipsOnlyMerged, Fail
  <2>5. LateInv'
    BY <1>u, <1>2, <2>p DEF LateInv, Fail
  <2> QED  BY <2>1, <2>2, <2>3, <2>4, <2>5 DEF IInv
<1> QED  BY <1>1, <1>2 DEF Interrupt

\* LateCommit: it writes what the target may hold at this moment.
LEMMA LateCommitStep ==
    ASSUME IInv, LateCommit
    PROVE  IInv'
<1> USE DEF sourceVars, Running, Detecting, NoSnap, NoMark
<1>i. /\ TypeOK /\ LogInv /\ LiveInv /\ TickInv /\ WorkInv
      /\ TargetInv /\ WindowInv /\ MergedInv /\ LateInv
  BY DEF IInv
<1>u. /\ UNCHANGED <<log, live, bookmark, work, chunk, pc, tick>>
      /\ late.m # 0 /\ late' = NoLate /\ target' = Merged(late.m, late.lo, late.hi)
  BY DEF LateCommit
<1>d. \A s : DataAt(s)' = DataAt(s)
  BY <1>u, DataStable
<1>p. /\ Pin \in 0..Len(log) /\ bookmark \in 0..Len(log) /\ bookmark <= Pin
      /\ Pin' = Pin /\ late.m \in 0..Len(log) /\ late.m <= Pin /\ Len(log) \in Nat
      /\ late.lo \in Positions /\ late.hi \in Positions
  BY <1>i, <1>u, PinFacts, Ranges DEF Pin, LateInv, TypeOK
<1>v. /\ target' \in Versions
      /\ \A b \in Buckets : target'[b] \in {target[b], DataAt(late.m)[b]}
  BY <1>i, <1>p, <1>u, MergedFacts
<1>1. TypeOK'
  BY <1>i, <1>u, <1>v, Ranges DEF TypeOK, Ticks
<1>2. LogInv' /\ LiveInv' /\ TickInv' /\ WorkInv'
  BY <1>i, <1>u, LogUnchanged DEF LiveInv, TickInv, WorkInv
<1>t. ASSUME NEW b \in Buckets
      PROVE  \E s \in bookmark..Pin : target'[b] = DataAt(s)[b]
  <2>1. PICK s \in bookmark..Pin : target[b] = DataAt(s)[b]
    BY <1>i DEF TargetInv
  <2>2. \E t \in bookmark..Pin : DataAt(late.m)[b] = DataAt(t)[b]
    <3>1. bookmark \in bookmark..Pin /\ (bookmark <= late.m => late.m \in bookmark..Pin)
      BY <1>p
    <3> QED  BY <1>i, <1>u, <3>1 DEF LateInv
  <2> QED  BY <1>v, <2>1, <2>2
<1>3. TargetInv'
  BY <1>d, <1>p, <1>u, <1>t DEF TargetInv
<1>4. WindowInv'
  BY <1>i, <1>d, <1>u DEF WindowInv, Covers, Quiet
<1>5. MergedInv'
  <2>1. ASSUME NEW b \in Buckets, work.m # 0, b < work.mark
        PROVE  target'[b] = DataAt(work.m)[b]
    <3>1. target[b] = DataAt(work.m)[b]
      BY <1>i, <2>1 DEF MergedInv, ResumeSkipsOnlyMerged
    <3>2. work.m = late.m
      BY <1>i, <1>u, <2>1, Ranges DEF LateInv
    <3> QED  BY <1>v, <3>1, <3>2
  <2>2. ASSUME NEW b \in Buckets, Running, b < tick.cur
        PROVE  target'[b] = DataAt(tick.m)[b]
    <3>1. target[b] = DataAt(tick.m)[b]
      BY <1>i, <2>2 DEF MergedInv
    <3>2. CASE tick.m = late.m
      BY <1>v, <3>1, <3>2
    <3>3. CASE tick.m # late.m
      <4>1. /\ tick.cur <= tick.lo /\ b \in Nat /\ tick.lo \in Nat /\ tick.cur \in Nat
            /\ tick.hi \in Nat
        BY <1>i, <1>u, <2>2, <3>3, Ranges DEF LateInv, TypeOK, Ticks
      <4>2. b \notin tick.lo..tick.hi /\ tick.cur # 0
        BY <2>2, <4>1
      <4>3. Covers(tick.lo, tick.hi)
        BY <1>i, <2>2, <4>2 DEF WindowInv
      <4>4. Pin = tick.m
        BY <2>2, PinFacts
      <4> QED  BY <1>t, <4>2, <4>3, <4>4 DEF Covers
    <3> QED  BY <3>2, <3>3
  <2>3. pc # "record"
    BY <1>i, <1>u DEF LateInv
  <2> QED  BY <1>d, <1>u, <2>1, <2>2, <2>3 DEF MergedInv, ResumeSkipsOnlyMerged
<1>6. LateInv'
  BY <1>u DEF LateInv, NoLate
<1> QED  BY <1>1, <1>2, <1>3, <1>4, <1>5, <1>6 DEF IInv

\* A new full_refresh_chunk does not disturb a tick that is under way.
LEMMA IdleStep ==
    ASSUME IInv, UNCHANGED <<log, live, target, bookmark, work, pc, tick, late>>,
           chunk' \in Sizes
    PROVE  IInv'
<1>i. /\ TypeOK /\ LogInv /\ LiveInv /\ TickInv /\ WorkInv
      /\ TargetInv /\ WindowInv /\ MergedInv /\ LateInv
  BY DEF IInv
<1>d. \A s : DataAt(s)' = DataAt(s)
  BY DataStable
<1>1. TypeOK'
  BY <1>i DEF TypeOK, Ticks
<1>2. LogInv' /\ LiveInv' /\ TickInv' /\ WorkInv'
  BY <1>i, LogUnchanged DEF LiveInv, TickInv, WorkInv, Running, Detecting
<1>3. TargetInv'
  BY <1>i, <1>d DEF TargetInv, Pin, Detecting
<1>4. WindowInv' /\ MergedInv'
  BY <1>i, <1>d DEF WindowInv, Covers, Quiet, Running, MergedInv, ResumeSkipsOnlyMerged,
                    TickChunkEnd
<1>5. LateInv'
  BY <1>i, <1>d DEF LateInv, Pin, Detecting, Running
<1> QED  BY <1>1, <1>2, <1>3, <1>4, <1>5 DEF IInv

\* A commit appends one snapshot and changes a bucket only with files it adds.
LEMMA CommitFacts ==
    ASSUME NoDeletes, TypeOK, NEW op \in Ops, NEW B \in Batches, Commit(op, B),
           NEW n \in Nat, n = Len(log)
    PROVE  /\ log' \in Seq(Snapshot) /\ Len(log') = n + 1
           /\ \A s \in 1..n : log'[s] = log[s]
           /\ \A s \in 0..n : DataAt(s)' = DataAt(s)
           /\ log'[n + 1].op = op /\ op \in AllowedOps
           /\ \A b \in Buckets :
                 \/ DataAt(n + 1)'[b] = DataAt(n)[b]
                 \/ /\ DataAt(n + 1)'[b] = n + 1
                    /\ op \in ChangeOps /\ b \in log'[n + 1].files
<1> DEFINE data == [b \in Buckets |-> NewVersion(op, B, b)]
           new == [op |-> op, files |-> IF op = "delete" THEN {} ELSE B, data |-> data]
<1>1. n \in Nat /\ log \in Seq(Snapshot)
  BY DEF TypeOK
<1>2. op # "delete" /\ op \in AllowedOps
  BY SourceAssumption DEF NoDeletes
<1>3. data \in Versions
  <2>1. DataAt(n) \in Versions
    BY <1>1, DataTyped
  <2>2. \A b \in Buckets : NewVersion(op, B, b) \in Nat
    BY <1>1, <2>1 DEF NewVersion, Versions
  <2> QED  BY <2>2 DEF Versions
<1>4. new \in Snapshot /\ new.op = op /\ new.files = B /\ new.data = data
  BY <1>2, <1>3, SourceAssumption DEF Snapshot
<1>5. log' = Append(log, new)
  BY DEF Commit
<1> HIDE DEF data, new
<1>6. /\ log' \in Seq(Snapshot) /\ Len(log') = n + 1 /\ log'[n + 1] = new
      /\ \A s \in 1..n : log'[s] = log[s]
  BY <1>1, <1>4, <1>5
<1>7. ASSUME NEW s \in 0..n
      PROVE  DataAt(s)' = DataAt(s)
  BY <1>1, <1>6 DEF DataAt
<1>8. ASSUME NEW b \in Buckets
      PROVE  \/ DataAt(n + 1)'[b] = DataAt(n)[b]
             \/ /\ DataAt(n + 1)'[b] = n + 1
                /\ op \in ChangeOps /\ b \in log'[n + 1].files
  <2>1. DataAt(n + 1)' = data
    <3>1. n + 1 # 0 /\ log'[n + 1].data = data
      BY <1>4, <1>6
    <3> QED  BY <3>1 DEF DataAt
  <2>2. data[b] = NewVersion(op, B, b)
    BY DEF data
  <2>3. CASE b \notin B \/ op = "replace"
    BY <2>1, <2>2, <2>3 DEF NewVersion
  <2>4. CASE ~(b \notin B \/ op = "replace")
    BY <1>2, <1>4, <1>6, <2>1, <2>2, <2>4 DEF NewVersion, AllowedOps
  <2> QED  BY <2>3, <2>4
<1> QED  BY <1>2, <1>4, <1>6, <1>7, <1>8

\* SourceCommit.
LEMMA SourceCommitStep ==
    ASSUME NoDeletes, IInv, SourceCommit
    PROVE  IInv'
<1> USE DEF Running, Detecting, NoSnap, NoMark
<1>i. /\ TypeOK /\ LogInv /\ LiveInv /\ TickInv /\ WorkInv
      /\ TargetInv /\ WindowInv /\ MergedInv /\ LateInv
  BY DEF IInv
<1>u. UNCHANGED <<target, bookmark, work, chunk, pc, tick, late>>
  BY DEF SourceCommit, refreshVars
<1>b. PICK op \in Ops, B \in Batches : Commit(op, B)
  BY DEF SourceCommit
<1>n. PICK n \in Nat : n = Len(log)
  BY <1>i DEF TypeOK
<1>f. /\ log' \in Seq(Snapshot) /\ Len(log') = n + 1
      /\ \A s \in 1..n : log'[s] = log[s]
      /\ \A s \in 0..n : DataAt(s)' = DataAt(s)
      /\ log'[n + 1].op = op /\ op \in AllowedOps
      /\ \A b \in Buckets :
            \/ DataAt(n + 1)'[b] = DataAt(n)[b]
            \/ /\ DataAt(n + 1)'[b] = n + 1
               /\ op \in ChangeOps /\ b \in log'[n + 1].files
  BY <1>i, <1>b, <1>n, CommitFacts
<1>t. /\ tick.m \in 0..n /\ work.m \in 0..n /\ late.m \in 0..n
      /\ bookmark \in 0..n /\ tick.bm \in 0..n
      /\ live' = live \union {n + 1} /\ Len(log) = n
  BY <1>i, <1>b, <1>n DEF TypeOK, Ticks, Commit
<1>d. \A s \in 0..tick.m : DataAt(s)' = DataAt(s)
  BY <1>f, <1>t
<1>p. /\ Pin \in 0..n /\ Pin' \in Nat /\ Pin <= Pin'
      /\ (Pin' = Pin \/ Pin' = n + 1)
  BY <1>u, <1>f, <1>t DEF Pin
<1>1. TypeOK'
  <2>1. \A s \in 0..Len(log) : s \in 0..Len(log')
    BY <1>f, <1>t
  <2>2. tick \in [bm : 0..Len(log'), m : 0..Len(log'), mark : Positions, chunk : Sizes,
                  resumed : BOOLEAN, full : BOOLEAN, lo : Buckets, hi : Buckets,
                  cur : Positions, end : Positions, multi : BOOLEAN, done : Nat,
                  adv : 0..Len(log')]
    BY <1>i, <2>1 DEF TypeOK, Ticks
  <2>3. /\ work \in [m : 0..Len(log'), mark : Positions]
        /\ late \in [m : 0..Len(log'), lo : Positions, hi : Positions]
        /\ bookmark \in 0..Len(log')
    BY <1>i, <2>1 DEF TypeOK
  <2>4. live' \subseteq 1..Len(log')
    BY <1>i, <1>f, <1>t DEF TypeOK
  <2> QED  BY <1>i, <1>u, <1>f, <2>2, <2>3, <2>4 DEF TypeOK, Ticks
<1>2. LogInv'
  <2>1. \A s \in 1..Len(log') : log'[s].op \in AllowedOps
    BY <1>i, <1>f, <1>t DEF LogInv
  <2>2. ASSUME NEW i \in 0..Len(log'), NEW j \in 0..Len(log'), i <= j, NEW b \in Buckets
        PROVE  /\ DataAt(i)'[b] # 0 => DataAt(j)'[b] # 0
               /\ \/ DataAt(i)'[b] = DataAt(j)'[b]
                  \/ \E u \in (i + 1)..j : log'[u].op \in ChangeOps /\ b \in log'[u].files
    <3>1. CASE j \in 0..n
      <4>1. i \in 0..n
        BY <1>t, <2>2, <3>1
      <4>2. /\ DataAt(i)[b] # 0 => DataAt(j)[b] # 0
            /\ \/ DataAt(i)[b] = DataAt(j)[b]
               \/ \E u \in (i + 1)..j : log[u].op \in ChangeOps /\ b \in log[u].files
        BY <1>i, <1>t, <2>2, <3>1, <4>1 DEF LogInv
      <4>3. \A u \in (i + 1)..j : log'[u] = log[u]
        BY <1>f, <1>t, <3>1, <4>1
      <4> QED  BY <1>f, <3>1, <4>1, <4>2, <4>3
    <3>2. CASE j = n + 1 /\ i \in 0..n
      <4>1. /\ DataAt(i)[b] # 0 => DataAt(n)[b] # 0
            /\ \/ DataAt(i)[b] = DataAt(n)[b]
               \/ \E u \in (i + 1)..n : log[u].op \in ChangeOps /\ b \in log[u].files
        BY <1>i, <1>t, <3>2 DEF LogInv
      <4>2. DataAt(i)' = DataAt(i) /\ log'[n + 1].op = op
        BY <1>f, <3>2
      <4>3. CASE DataAt(n + 1)'[b] = DataAt(n)[b]
        <5>1. \A u \in (i + 1)..n : u \in (i + 1)..(n + 1) /\ log'[u] = log[u]
          BY <1>f, <1>t, <3>2
        <5> QED  BY <3>2, <4>1, <4>2, <4>3, <5>1
      <4>4. CASE /\ DataAt(n + 1)'[b] = n + 1
                 /\ op \in ChangeOps /\ b \in log'[n + 1].files
        <5>1. n + 1 # 0 /\ n + 1 \in (i + 1)..(n + 1)
          BY <1>t, <3>2
        <5> QED  BY <3>2, <4>2, <4>4, <5>1
      <4> QED  BY <1>f, <4>3, <4>4
    <3>3. CASE i = n + 1 /\ j = n + 1
      BY <3>3
    <3> QED  BY <1>f, <1>t, <2>2, <3>1, <3>2, <3>3
  <2> QED  BY <2>1, <2>2 DEF LogInv
<1>3. LiveInv'
  <2>1. ASSUME NEW s \in live'
        PROVE  s..Len(log') \subseteq live'
    BY <1>i, <1>f, <1>t DEF LiveInv, TypeOK
  <2>2. pc = "list" => (tick.bm + 1)..Len(log') \subseteq live'
    BY <1>i, <1>f, <1>t DEF LiveInv
  <2> QED  BY <1>u, <2>1, <2>2 DEF LiveInv
<1>4. TickInv' /\ WorkInv'
  BY <1>i, <1>u DEF TickInv, WorkInv
<1>5. TargetInv'
  <2>1. ASSUME NEW b \in Buckets
        PROVE  \E s \in bookmark..Pin' : target[b] = DataAt(s)'[b]
    <3>1. PICK s \in bookmark..Pin : target[b] = DataAt(s)[b]
      BY <1>i DEF TargetInv
    <3>2. s \in 0..n /\ s \in bookmark..Pin'
      BY <1>t, <1>p, <3>1
    <3> QED  BY <1>f, <3>1, <3>2
  <2> QED  BY <1>u, <2>1 DEF TargetInv
<1>6. WindowInv'
  <2>1. \A s \in bookmark..tick.m : s \in 0..tick.m
    BY <1>t
  <2>2. tick.m \in 0..tick.m
    BY <1>t
  <2>3. Quiet => Quiet'
    BY <1>u, <1>d, <2>1, <2>2 DEF Quiet
  <2>4. Covers(tick.lo, tick.hi) => Covers(tick.lo, tick.hi)'
    BY <1>u, <1>d, <2>1, <2>2 DEF Covers
  <2> QED  BY <1>i, <1>u, <2>3, <2>4 DEF WindowInv
<1>7. MergedInv'
  BY <1>i, <1>u, <1>f, <1>t DEF MergedInv, ResumeSkipsOnlyMerged, TickChunkEnd
<1>8. LateInv'
  <2>1. DataAt(late.m)' = DataAt(late.m) /\ DataAt(bookmark)' = DataAt(bookmark)
    BY <1>f, <1>t, <1>u
  <2>2. late.m # 0 => late.m <= Pin'
    BY <1>i, <1>p, <1>t DEF LateInv
  <2> QED  BY <1>i, <1>u, <2>1, <2>2 DEF LateInv
<1> QED  BY <1>1, <1>2, <1>3, <1>4, <1>5, <1>6, <1>7, <1>8 DEF IInv

\* SourceExpire: what is left is still a suffix.
LEMMA SourceExpireStep ==
    ASSUME IInv, SourceExpire
    PROVE  IInv'
<1>i. /\ TypeOK /\ LogInv /\ LiveInv /\ TickInv /\ WorkInv
      /\ TargetInv /\ WindowInv /\ MergedInv /\ LateInv
  BY DEF IInv
<1>u. UNCHANGED <<log, target, bookmark, work, chunk, pc, tick, late>>
  BY DEF SourceExpire, Expire, refreshVars
<1>b. PICK s \in live : IsOldest(s) /\ ListSurvives(s) /\ live' = live \ {s}
  BY DEF SourceExpire, Expire
<1>d. \A t : DataAt(t)' = DataAt(t)
  BY <1>u, DataStable
<1>1. TypeOK'
  BY <1>i, <1>u, <1>b DEF TypeOK, Ticks
<1>2. LogInv' /\ TickInv' /\ WorkInv'
  BY <1>i, <1>u, LogUnchanged DEF TickInv, WorkInv, Running, Detecting
<1>3. LiveInv'
  <2>1. live \subseteq Nat /\ tick.bm \in Nat
    BY <1>i DEF TypeOK, Ticks
  <2>2. ASSUME NEW t \in live'
        PROVE  t..Len(log) \subseteq live'
    <3>1. t..Len(log) \subseteq live /\ s < t
      BY <1>i, <1>b, <2>1 DEF LiveInv, IsOldest
    <3> QED  BY <1>b, <2>1, <3>1
  <2>3. pc = "list" => (tick.bm + 1)..Len(log) \subseteq live'
    BY <1>i, <1>b, <2>1 DEF LiveInv, ListSurvives
  <2> QED  BY <1>u, <2>2, <2>3 DEF LiveInv
<1>4. TargetInv'
  BY <1>i, <1>u, <1>d DEF TargetInv, Pin, Detecting
<1>5. WindowInv' /\ MergedInv'
  BY <1>i, <1>u, <1>d DEF WindowInv, Covers, Quiet, Running, MergedInv,
                          ResumeSkipsOnlyMerged, TickChunkEnd
<1>6. LateInv'
  BY <1>i, <1>u, <1>d DEF LateInv, Pin, Detecting, Running
<1> QED  BY <1>1, <1>2, <1>3, <1>4, <1>5, <1>6 DEF IInv

(***************************************************************************)
(* The invariant and what follows from it.                                 *)
(***************************************************************************)
\* The invariant holds initially.
LEMMA InitInv ==
    ASSUME Init
    PROVE  IInv
<1> USE DEF Init, SourceInit, NoSnap, NoMark, Running, Detecting
<1>1. Len(log) = 0 /\ log \in Seq(Snapshot)
  OBVIOUS
<1>2. \A b \in Buckets : target[b] = 0 /\ DataAt(0)[b] = 0
  BY DEF DataAt
<1>3. TypeOK
  <2>1. NoTick \in Ticks /\ 0 \in Positions
    BY <1>1, SourceAssumption DEF NoTick, Ticks, Sizes, Buckets, Positions
  <2> QED  BY <1>1, <2>1 DEF TypeOK, PCs, Versions, NoWork, NoLate
<1>4. LogInv /\ LiveInv
  BY <1>1 DEF LogInv, LiveInv
<1>5. TickInv /\ WorkInv /\ WindowInv /\ LateInv
  BY DEF TickInv, WorkInv, WindowInv, LateInv, NoTick, NoWork, NoLate
<1>6. TargetInv
  <2>1. Pin = 0
    BY <1>1 DEF Pin, NoWork
  <2> QED  BY <1>2, <2>1 DEF TargetInv
<1>7. MergedInv
  BY DEF MergedInv, ResumeSkipsOnlyMerged, NoWork
<1> QED  BY <1>3, <1>4, <1>5, <1>6, <1>7 DEF IInv

\* Every step preserves the invariant.
LEMMA StepInv ==
    ASSUME NoDeletes, IInv, [Next]_vars
    PROVE  IInv'
<1>1. CASE TickStep
  <2> USE StartTickStep, CheckPinStep, DiscardWorkStep, ReadCurrentStep, ProbeStep,
          ListWindowStep, PinRunStep, ReadFilesStep, MergeChunkStep, MergeFailsStep,
          RecordChunkStep, CompleteRunStep, SkipTickStep, ClearWorkStep
  <2> QED  BY <1>1 DEF TickStep
<1>2. CASE Interrupt
  BY <1>2, InterruptStep
<1>3. CASE LateCommit
  BY <1>3, LateCommitStep
<1>4. CASE \E c \in Sizes : EditChunk(c)
  BY <1>4, IdleStep DEF EditChunk, sourceVars
<1>5. CASE SourceCommit
  BY <1>5, SourceCommitStep
<1>6. CASE SourceExpire
  BY <1>6, SourceExpireStep
<1>7. CASE UNCHANGED vars
  <2>1. chunk \in Sizes
    BY DEF IInv, TypeOK
  <2> QED  BY <1>7, <2>1, IdleStep DEF vars
<1> QED  BY <1>1, <1>2, <1>3, <1>4, <1>5, <1>6, <1>7 DEF Next

\* IInv is an invariant of refresh_view for every horizon, grid, number of
\* snapshots and set of batches, if no writer of the source deletes.
THEOREM Invariance ==
    ASSUME NoDeletes
    PROVE  Spec => []IInv
<1>1. Init => IInv
  BY InitInv
<1>2. IInv /\ [Next]_vars => IInv'
  BY StepInv
<1> QED  BY <1>1, <1>2, PTL DEF Spec

\* Every variable of refresh_view stays in its range.
THEOREM TypeCorrect ==
    ASSUME NoDeletes
    PROVE  Spec => []TypeOK
<1>1. IInv => TypeOK
  BY DEF IInv
<1> QED  BY <1>1, Invariance, PTL

\* No interruption, abandoned MERGE, expiration or edit of full_refresh_chunk
\* leaves a bucket of the target older than last_source_snapshot.
THEOREM NeverBehind ==
    ASSUME NoDeletes
    PROVE  Spec => []NeverBehindBookmark
<1>1. IInv => NeverBehindBookmark
  <2> SUFFICES ASSUME IInv, NEW b \in Buckets
               PROVE  \E s \in bookmark..Len(log) : target[b] = DataAt(s)[b]
    BY DEF NeverBehindBookmark
  <2>1. PICK s \in bookmark..Pin : target[b] = DataAt(s)[b]
    BY DEF IInv, TargetInv
  <2>2. Pin \in 0..Len(log) /\ bookmark \in 0..Len(log) /\ Len(log) \in Nat
    BY PinFacts, Ranges DEF IInv
  <2>3. s \in bookmark..Len(log)
    BY <2>1, <2>2
  <2> QED  BY <2>1, <2>3
<1> QED  BY <1>1, Invariance, PTL

\* Whatever a resumed run skips (work_last_merged_chunk) is merged as of the
\* pinned snapshot it resumes.
THEOREM ResumeIsSound ==
    ASSUME NoDeletes
    PROVE  Spec => []ResumeSkipsOnlyMerged
<1>1. IInv => ResumeSkipsOnlyMerged
  BY DEF IInv, MergedInv
<1> QED  BY <1>1, Invariance, PTL

\* A skip that moves the bookmark finds the target as of the pin already.
LEMMA SkippedTarget ==
    ASSUME IInv, pc = "skip", tick.adv # NoSnap
    PROVE  target = DataAt(tick.adv) /\ tick.adv = tick.m
<1>1. TypeOK /\ TargetInv /\ Quiet /\ tick.adv = tick.m /\ tick.m # NoSnap
  BY DEF IInv, WindowInv
<1>2. Pin = tick.m
  BY <1>1 DEF IInv, TickInv, Pin, Detecting, NoSnap
<1>3. \A b \in Buckets : target[b] = DataAt(tick.m)[b]
  BY <1>1, <1>2 DEF TargetInv, Quiet
<1>4. DataAt(tick.m) \in Versions /\ target \in Versions
  BY <1>1, DataTyped DEF TypeOK, Ticks
<1> QED  BY <1>1, <1>3, <1>4 DEF Versions

\* The bookmark moves in CompleteRun and SkipTick only, forward, and to what the
\* target holds.
LEMMA BookmarkMoves ==
    ASSUME IInv, [Next]_vars, bookmark' # bookmark
    PROVE  /\ UNCHANGED <<log, live, target>>
           /\ bookmark < bookmark' /\ bookmark' \in 0..Len(log)
           /\ target = DataAt(bookmark')
<1>t. /\ bookmark \in 0..Len(log) /\ tick.m \in 0..Len(log) /\ Len(log) \in Nat
      /\ bookmark <= Pin
  BY PinFacts, Ranges DEF IInv, TypeOK, Ticks
<1>1. CASE CompleteRun
  <2>1. /\ UNCHANGED <<log, live, target, tick>> /\ pc = "complete" /\ bookmark' = tick.m
    BY <1>1 DEF CompleteRun, sourceVars
  <2>2. Pin = tick.m
    BY <2>1, PinFacts DEF Running
  <2>3. target = DataAt(tick.m)
    BY <2>1, PublishedTarget
  <2> QED  BY <1>t, <2>1, <2>2, <2>3
<1>2. CASE SkipTick
  <2>1. /\ UNCHANGED <<log, live, target, tick>> /\ pc = "skip"
        /\ tick.adv # NoSnap /\ bookmark' = tick.adv
    BY <1>2 DEF SkipTick, sourceVars
  <2>2. target = DataAt(tick.adv) /\ tick.adv = tick.m
    BY <2>1, SkippedTarget
  <2>3. bookmark <= tick.m
    BY <2>1, <2>2 DEF IInv, TickInv, Detecting, NoSnap
  <2> QED  BY <1>t, <2>1, <2>2, <2>3
<1>3. CompleteRun \/ SkipTick
  BY DEF Next, TickStep, vars, refreshVars, StartTick, CheckPin, DiscardWork, ReadCurrent,
         Probe, ListWindow, PinRun, ReadFiles, MergeChunk, MergeFails, RecordChunk,
         ClearWork, Interrupt, LateCommit, EditChunk, SourceCommit, SourceExpire
<1> QED  BY <1>1, <1>2, <1>3

\* set_last_source_snapshot is only ever called when the whole target is the
\* source as of that snapshot, and never goes back.
THEOREM PublishesExactly ==
    ASSUME NoDeletes
    PROVE  Spec => PublishedExactly
<1>1. IInv /\ [Next]_vars =>
        [bookmark' # bookmark => bookmark' > bookmark /\ target' = DataAt(bookmark')]_vars
  <2> SUFFICES ASSUME IInv, [Next]_vars, bookmark' # bookmark
               PROVE  bookmark' > bookmark /\ target' = DataAt(bookmark')
    OBVIOUS
  <2>1. /\ UNCHANGED <<log, live, target>> /\ bookmark < bookmark'
        /\ target = DataAt(bookmark') /\ bookmark \in Nat /\ bookmark' \in Nat
    BY BookmarkMoves DEF IInv, TypeOK
  <2> QED  BY <2>1
<1> QED  BY <1>1, Invariance, PTL DEF Spec, PublishedExactly

(***************************************************************************)
(* The refinement of MaterializedView.                                     *)
(***************************************************************************)
\* A commit to the target that writes content of one snapshot since the
\* bookmark is a MergeBuckets of the abstract view.
LEMMA MergeMaps ==
    ASSUME TypeOK, UNCHANGED <<log, live, bookmark>>, target' \in Versions,
           NEW s \in bookmark..Len(log),
           \A b \in Buckets : target'[b] \in {target[b], DataAt(s)[b]}
    PROVE  MV!MergeBuckets
<1>1. \A t : MV!DataAt(t) = DataAt(t)
  BY DEF MV!DataAt, DataAt, MV!Buckets, Buckets
<1>2. MV!Buckets = Buckets
  BY DEF MV!Buckets, Buckets
<1> QED  BY <1>1, <1>2 DEF MV!MergeBuckets, MV!sourceVars, Versions

\* Writers and expiration are the same in both specifications.
LEMMA SourceMaps ==
    ASSUME SourceCommit \/ SourceExpire
    PROVE  MV!SourceMoves
BY DEF SourceCommit, SourceExpire, refreshVars, MV!SourceMoves, MV!viewVars,
       Commit, Expire, NewVersion, DataAt, Buckets,
       MV!Commit, MV!Expire, MV!NewVersion, MV!DataAt, MV!Buckets

\* An abandoned MERGE that commits is a MergeBuckets.
LEMMA LateCommitMaps ==
    ASSUME IInv, LateCommit
    PROVE  MV!MergeBuckets
<1>1. /\ TypeOK /\ UNCHANGED <<log, live, bookmark>> /\ late.m # NoSnap
      /\ target' = Merged(late.m, late.lo, late.hi)
  BY DEF IInv, LateCommit, sourceVars
<1>2. /\ late.m \in 0..Len(log) /\ late.lo \in Positions /\ late.hi \in Positions
      /\ bookmark \in 0..Len(log) /\ Len(log) \in Nat
  BY <1>1, Ranges DEF TypeOK
<1>3. /\ target' \in Versions
      /\ \A b \in Buckets : target'[b] \in {target[b], DataAt(late.m)[b]}
  BY <1>1, <1>2, MergedFacts
<1>4. CASE bookmark <= late.m
  <2>1. late.m \in bookmark..Len(log)
    BY <1>2, <1>4
  <2> QED  BY <1>1, <1>3, <2>1, MergeMaps
<1>5. CASE \A b \in Buckets : DataAt(late.m)[b] = DataAt(bookmark)[b]
  <2>1. bookmark \in bookmark..Len(log)
    BY <1>2
  <2>2. \A b \in Buckets : target'[b] \in {target[b], DataAt(bookmark)[b]}
    BY <1>3, <1>5
  <2> QED  BY <1>1, <1>3, <2>1, <2>2, MergeMaps
<1> QED  BY <1>1, <1>4, <1>5 DEF IInv, LateInv

\* MergeChunk is a MergeBuckets.
LEMMA MergeChunkMaps ==
    ASSUME IInv, MergeChunk
    PROVE  MV!MergeBuckets
<1>1. /\ TypeOK /\ UNCHANGED <<log, live, bookmark>> /\ Running
  BY DEF IInv, MergeChunk, sourceVars, Running
<1>2. tick.m \in bookmark..Len(log)
  BY <1>1, PinFacts, Ranges
<1> QED  BY <1>1, <1>2, MergeChunkValues, MergeMaps

\* Every step is a step of the abstract view or a stutter.
LEMMA StepMaps ==
    ASSUME IInv, [Next]_vars
    PROVE  [MV!ViewNext]_<<log, live, target, bookmark>>
<1> USE DEF MV!ViewNext
<1>1. CASE MergeChunk \/ LateCommit
  BY <1>1, MergeChunkMaps, LateCommitMaps
<1>2. CASE SourceCommit \/ SourceExpire
  BY <1>2, SourceMaps
<1>3. CASE bookmark' # bookmark
  <2>1. /\ UNCHANGED <<log, live, target>> /\ bookmark < bookmark'
        /\ bookmark' \in 0..Len(log) /\ target = DataAt(bookmark')
        /\ bookmark \in 0..Len(log) /\ Len(log) \in Nat
    BY <1>3, BookmarkMoves, Ranges DEF IInv, TypeOK
  <2>2. bookmark' \in (bookmark + 1)..Len(log)
    BY <2>1
  <2>3. DataAt(bookmark') = MV!DataAt(bookmark')
    BY DEF MV!DataAt, DataAt, MV!Buckets, Buckets
  <2>4. MV!Publish
    BY <2>1, <2>2, <2>3 DEF MV!Publish, MV!sourceVars
  <2> QED  BY <2>4
<1>4. CASE UNCHANGED <<log, live, target, bookmark>>
  BY <1>4
<1>5. \/ MergeChunk \/ LateCommit \/ SourceCommit \/ SourceExpire
      \/ bookmark' # bookmark \/ UNCHANGED <<log, live, target, bookmark>>
  BY DEF Next, TickStep, vars, sourceVars, StartTick, CheckPin, DiscardWork, ReadCurrent,
         Probe, ListWindow, PinRun, ReadFiles, MergeFails, RecordChunk, CompleteRun,
         SkipTick, ClearWork, Interrupt, EditChunk
<1> QED  BY <1>1, <1>2, <1>3, <1>4, <1>5

\* refresh_view, with its ticks, pins, chunks, retries and crashes, implements
\* MaterializedView.
THEOREM Implements ==
    ASSUME NoDeletes
    PROVE  Spec => ImplementsView
<1>1. Init => MV!ViewInit
  BY DEF Init, SourceInit, NoSnap, Buckets, MV!ViewInit, MV!SourceInit, MV!Buckets
<1>2. IInv /\ [Next]_vars => [MV!ViewNext]_<<log, live, target, bookmark>>
  BY StepMaps
<1> QED  BY <1>1, <1>2, Invariance, PTL DEF Spec, ImplementsView, MV!ViewSpec

=============================================================================
