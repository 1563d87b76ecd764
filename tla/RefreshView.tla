---------------------------- MODULE RefreshView ----------------------------
(***************************************************************************)
(* One materialized view: the coroutine refresh_view (server.py) with the  *)
(* detector and executor it awaits, the view_status row it persists in     *)
(* SQLite, its source and its target.                                      *)
(*                                                                         *)
(* A tick is cut at its awaits: each action runs from one await to the     *)
(* next, so commits to the source, snapshot expiration, configuration      *)
(* edits and interruptions fall between any two of them.  bookmark and     *)
(* work survive an interruption, tick does not.                            *)
(***************************************************************************)
EXTENDS ChunkGrid

VARIABLES
    target,    \* version held by each bucket of the target table
    bookmark,  \* view_status.last_source_snapshot
    work,      \* view_status.work_max_snapshot, work_last_merged_chunk
    chunk,     \* the view's full_refresh_chunk in the current configuration
    pc,        \* the await the tick has reached
    tick,      \* locals of the tick
    late       \* a MERGE that was submitted and abandoned by the service

refreshVars == <<target, bookmark, work, chunk, pc, tick, late>>
vars == <<log, live, target, bookmark, work, chunk, pc, tick, late>>

NoSnap == 0
NoMark == 0
NoWork == [m |-> NoSnap, mark |-> NoMark]
NoLate == [m |-> NoSnap, lo |-> 0, hi |-> 0]

\* bm, m, mark: bookmark, pinned snapshot and marker as read by the tick.
\* lo, hi: first and last bucket of the window; cur, end: what is left of it.
\* done: chunks_done; multi: chunks_total > 1; adv: where a skip moves the bookmark.
NoTick == [bm |-> NoSnap, m |-> NoSnap, mark |-> NoMark, chunk |-> NoChunk,
           resumed |-> FALSE, full |-> FALSE, lo |-> 0, hi |-> 0, cur |-> 0, end |-> 0,
           multi |-> FALSE, done |-> 0, adv |-> NoSnap]

Sizes == Chunks \union {NoChunk}

PCs == {"idle", "pin", "discard", "current", "probe", "list", "setwork",
        "files", "merge", "record", "complete", "skip", "clear"}

Init ==
    /\ SourceInit
    /\ target = [b \in Buckets |-> 0]
    /\ bookmark = NoSnap
    /\ work = NoWork
    /\ chunk \in Sizes
    /\ pc = "idle"
    /\ tick = NoTick
    /\ late = NoLate

(***************************************************************************)
(* Starting a tick, and validating a pin left by an earlier one.           *)
(***************************************************************************)
\* Fault: a tick pins afresh although a run is in flight.
StartTickAfresh ==
    /\ pc = "idle"
    /\ tick' = [NoTick EXCEPT !.bm = bookmark, !.chunk = chunk]
    /\ pc' = "current"
    /\ UNCHANGED <<sourceVars, target, bookmark, work, chunk, late>>

StartTick ==
    /\ pc = "idle"
    /\ tick' = [NoTick EXCEPT !.bm = bookmark, !.m = work.m, !.mark = work.mark,
                              !.chunk = chunk, !.resumed = (work.m # NoSnap)]
    /\ pc' = IF work.m = NoSnap THEN "current" ELSE "pin"
    /\ UNCHANGED <<sourceVars, target, bookmark, work, chunk, late>>

\* Fault: a pin left by an earlier tick is trusted.
PinTrusted == TRUE

PinValid ==
    /\ SnapshotExists(tick.m)
    /\ tick.bm # NoSnap => SnapshotExists(tick.bm)

CheckPin ==
    /\ pc = "pin"
    /\ pc' = IF ~PinValid THEN "discard" ELSE IF tick.bm = NoSnap THEN "files" ELSE "probe"
    /\ tick' = [tick EXCEPT !.full = (tick.bm = NoSnap)]
    /\ UNCHANGED <<sourceVars, target, bookmark, work, chunk, late>>

\* Fault: the marker outlives the pin it belongs to.
DiscardWorkKeepsMark ==
    /\ pc = "discard"
    /\ work' = [work EXCEPT !.m = NoSnap]
    /\ tick' = [tick EXCEPT !.m = NoSnap, !.mark = NoMark, !.resumed = FALSE, !.full = FALSE]
    /\ pc' = "current"
    /\ UNCHANGED <<sourceVars, target, bookmark, chunk, late>>

DiscardWork ==
    /\ pc = "discard"
    /\ work' = NoWork
    /\ tick' = [tick EXCEPT !.m = NoSnap, !.mark = NoMark, !.resumed = FALSE, !.full = FALSE]
    /\ pc' = "current"
    /\ UNCHANGED <<sourceVars, target, bookmark, chunk, late>>

(***************************************************************************)
(* Detection.  A fresh run pins the current snapshot and then lists the    *)
(* snapshots after the bookmark without an upper bound; a resumed run      *)
(* lists those up to its pin.                                              *)
(***************************************************************************)
ReadCurrent ==
    /\ pc = "current"
    /\ IF CurrentSnapshot \in {NoSnap, tick.bm}
       THEN /\ pc' = "skip"
            /\ tick' = tick
       ELSE /\ pc' = IF tick.bm = NoSnap THEN "setwork" ELSE "probe"
            /\ tick' = [tick EXCEPT !.m = CurrentSnapshot, !.full = (tick.bm = NoSnap)]
    /\ UNCHANGED <<sourceVars, target, bookmark, work, chunk, late>>

Fail ==
    /\ pc' = "idle"
    /\ tick' = NoTick

\* The existence probes of get_snapshots_since: an expired bookmark turns a
\* fresh run into a full refresh and fails a resumed one.
Probe ==
    /\ pc = "probe"
    /\ IF SnapshotExists(tick.bm) /\ (tick.resumed => SnapshotExists(tick.m))
       THEN pc' = "list" /\ tick' = tick
       ELSE IF tick.resumed THEN Fail
       ELSE pc' = "setwork" /\ tick' = [tick EXCEPT !.full = TRUE]
    /\ UNCHANGED <<sourceVars, target, bookmark, work, chunk, late>>

Listed == SnapshotsSince(tick.bm, IF tick.resumed THEN tick.m ELSE Len(log))

\* The window [lo, hi] is known: derive the ranges left to merge.
BeginRanges(lo, hi) ==
    LET start == RangesStart(tick.chunk, lo, tick.mark)
        end == RangesEnd(tick.chunk, hi)
    IN  /\ tick' = [tick EXCEPT !.lo = lo, !.hi = hi, !.cur = start, !.end = end,
                                !.multi = start < end /\ ChunkEnd(tick.chunk, start, end) < end]
        /\ pc' = IF start < end THEN "merge" ELSE "complete"

\* Nothing to merge: a fresh run, or a resumed one with no chunk committed,
\* moves the bookmark to the pin; otherwise the bookmark stays.
ListWindow ==
    /\ pc = "list"
    /\ IF HasUnsupported(Listed) THEN Fail
       ELSE \/ /\ AddedBuckets(Listed) = {}
               /\ pc' = "skip"
               /\ tick' = [tick EXCEPT !.adv = IF tick.mark = NoMark THEN tick.m ELSE NoSnap]
            \/ \E lo, hi \in Buckets :
                  /\ IsColumnRange(AddedBuckets(Listed), lo, hi)
                  /\ IF tick.resumed THEN BeginRanges(lo, hi)
                     ELSE pc' = "setwork" /\ tick' = [tick EXCEPT !.lo = lo, !.hi = hi]
    /\ UNCHANGED <<sourceVars, target, bookmark, work, chunk, late>>

\* A fresh run persists its pin before it merges anything.
PinRun ==
    /\ pc = "setwork"
    /\ work' = [m |-> tick.m, mark |-> NoMark]
    /\ IF tick.full THEN pc' = "files" /\ tick' = tick
       ELSE BeginRanges(tick.lo, tick.hi)
    /\ UNCHANGED <<sourceVars, target, bookmark, chunk, late>>

\* A full refresh takes its window from the live files of the source.
ReadFiles ==
    /\ pc = "files"
    /\ \/ /\ SourceBuckets = {}
          /\ pc' = "complete"
          /\ tick' = tick
       \/ \E lo, hi \in Buckets :
             /\ IsColumnRange(SourceBuckets, lo, hi)
             /\ BeginRanges(lo, hi)
    /\ UNCHANGED <<sourceVars, target, bookmark, work, chunk, late>>

(***************************************************************************)
(* The MERGE ranges.                                                       *)
(***************************************************************************)
TickChunkEnd == ChunkEnd(tick.chunk, tick.cur, tick.end)

\* Fault: the MERGE reads the live source instead of the pinned snapshot.
MergedLive(m, lo, hi) ==
    [b \in Buckets |-> IF lo <= b /\ b < hi /\ DataAt(Len(log))[b] # 0
                       THEN DataAt(Len(log))[b] ELSE target[b]]

\* MERGE INTO the target of the buckets [lo, hi) of the source as of m: a
\* bucket with rows is updated or inserted, no row is ever deleted.
Merged(m, lo, hi) ==
    [b \in Buckets |-> IF lo <= b /\ b < hi /\ DataAt(m)[b] # 0
                       THEN DataAt(m)[b] ELSE target[b]]

\* An abandoned MERGE conflicts with this commit and can no longer commit.
MergeChunk ==
    /\ pc = "merge"
    /\ SnapshotExists(tick.m)
    /\ target' = Merged(tick.m, tick.cur, TickChunkEnd)
    /\ late' = NoLate
    /\ pc' = "record"
    /\ UNCHANGED <<sourceVars, bookmark, work, chunk, tick>>

\* The pinned snapshot expired under the run.
MergeFails ==
    /\ pc = "merge"
    /\ ~SnapshotExists(tick.m)
    /\ Fail
    /\ UNCHANGED <<sourceVars, target, bookmark, work, chunk, late>>

\* Fault: the marker runs ahead to the end of the window.
RecordChunkAhead ==
    /\ pc = "record"
    /\ work' = IF tick.multi THEN [m |-> tick.m, mark |-> tick.end] ELSE work
    /\ tick' = [tick EXCEPT !.cur = TickChunkEnd,
                            !.done = IF tick.multi THEN tick.done + 1 ELSE 0]
    /\ pc' = IF TickChunkEnd < tick.end THEN "merge" ELSE "complete"
    /\ UNCHANGED <<sourceVars, target, bookmark, chunk, late>>

RecordChunk ==
    /\ pc = "record"
    /\ work' = IF tick.multi THEN [m |-> tick.m, mark |-> TickChunkEnd] ELSE work
    /\ tick' = [tick EXCEPT !.cur = TickChunkEnd,
                            !.done = IF tick.multi THEN tick.done + 1 ELSE 0]
    /\ pc' = IF TickChunkEnd < tick.end THEN "merge" ELSE "complete"
    /\ UNCHANGED <<sourceVars, target, bookmark, chunk, late>>

(***************************************************************************)
(* The end of a tick: two SQLite commits, the bookmark and then the work.  *)
(***************************************************************************)
\* Fault: the bookmark is read again from the source when the run ends.
CompleteRunLatest ==
    /\ pc = "complete"
    /\ bookmark' = CurrentSnapshot
    /\ pc' = "clear"
    /\ UNCHANGED <<sourceVars, target, work, chunk, tick, late>>

CompleteRun ==
    /\ pc = "complete"
    /\ bookmark' = tick.m
    /\ pc' = "clear"
    /\ UNCHANGED <<sourceVars, target, work, chunk, tick, late>>

SkipTick ==
    /\ pc = "skip"
    /\ bookmark' = IF tick.adv = NoSnap THEN bookmark ELSE tick.adv
    /\ pc' = "clear"
    /\ UNCHANGED <<sourceVars, target, work, chunk, tick, late>>

ClearWork ==
    /\ pc = "clear"
    /\ work' = NoWork
    /\ Fail
    /\ UNCHANGED <<sourceVars, target, bookmark, chunk, late>>

(***************************************************************************)
(* Interruptions: query timeout, error, cancellation, shutdown or crash.   *)
(* A MERGE that was in flight may still commit later.                      *)
(***************************************************************************)
Interrupt ==
    /\ pc # "idle"
    /\ Fail
    /\ \/ late' = late
       \/ /\ pc = "merge"
          /\ SnapshotExists(tick.m)
          /\ late' = [m |-> tick.m, lo |-> tick.cur, hi |-> TickChunkEnd]
    /\ UNCHANGED <<sourceVars, target, bookmark, work, chunk>>

LateCommit ==
    /\ late.m # NoSnap
    /\ target' = Merged(late.m, late.lo, late.hi)
    /\ late' = NoLate
    /\ UNCHANGED <<sourceVars, bookmark, work, chunk, pc, tick>>

(***************************************************************************)
(* The environment.                                                        *)
(***************************************************************************)
\* update_view accepts another full_refresh_chunk at any time.
EditChunk(c) ==
    /\ chunk' = c
    /\ UNCHANGED <<sourceVars, target, bookmark, work, pc, tick, late>>

SourceCommit ==
    /\ \E op \in Ops, B \in Batches : Commit(op, B)
    /\ UNCHANGED refreshVars

\* Assumed of the schedule of expire_snapshots: between the probe of the
\* bookmark and the query that lists the snapshots after it, no snapshot of
\* that list expires.
ListSurvives(s) == pc = "list" => s <= tick.bm

SourceExpire ==
    /\ \E s \in live : IsOldest(s) /\ ListSurvives(s) /\ Expire(s)
    /\ UNCHANGED refreshVars

TickStep ==
    \/ StartTick \/ CheckPin \/ DiscardWork
    \/ ReadCurrent \/ Probe \/ ListWindow \/ PinRun \/ ReadFiles
    \/ MergeChunk \/ MergeFails \/ RecordChunk
    \/ CompleteRun \/ SkipTick \/ ClearWork

Next ==
    \/ TickStep
    \/ Interrupt
    \/ LateCommit
    \/ \E c \in Sizes : EditChunk(c)
    \/ SourceCommit
    \/ SourceExpire

Spec == Init /\ [][Next]_vars

-----------------------------------------------------------------------------
(***************************************************************************)
(* Properties.                                                             *)
(***************************************************************************)
Ticks == [bm : 0..Len(log), m : 0..Len(log), mark : Positions, chunk : Sizes,
          resumed : BOOLEAN, full : BOOLEAN, lo : Buckets, hi : Buckets,
          cur : Positions, end : Positions, multi : BOOLEAN, done : Nat,
          adv : 0..Len(log)]

\* Every variable stays in its range.
TypeOK ==
    /\ log \in Seq(Snapshot)
    /\ live \subseteq 1..Len(log)
    /\ target \in Versions
    /\ bookmark \in 0..Len(log)
    /\ work \in [m : 0..Len(log), mark : Positions]
    /\ chunk \in Sizes
    /\ pc \in PCs
    /\ tick \in Ticks
    /\ late \in [m : 0..Len(log), lo : Positions, hi : Positions]

\* No bucket of the view is ever older than the bookmark says, whatever was
\* interrupted, abandoned or expired: each holds the content of one snapshot
\* between the bookmark and the present.
NeverBehindBookmark ==
    \A b \in Buckets : \E s \in bookmark..Len(log) : target[b] = DataAt(s)[b]

\* The resume marker tells the truth: below it every bucket is merged as of
\* the pinned snapshot, so a resumed run may skip them.
ResumeSkipsOnlyMerged ==
    work.m # NoSnap => \A b \in Buckets : b < work.mark => target[b] = DataAt(work.m)[b]

\* When the bookmark moves, it moves forward and the whole view is exactly
\* the source as of the new bookmark, chunks merged by several ticks included.
PublishedExactly ==
    [][bookmark' # bookmark => bookmark' > bookmark /\ target' = DataAt(bookmark')]_vars

\* While a run is in flight its pin is frozen and its marker never goes back,
\* even when full_refresh_chunk is edited between two ticks.
PinFrozen ==
    [][work.m # NoSnap /\ work'.m # NoSnap => work'.m = work.m /\ work'.mark >= work.mark]_vars

\* An incremental run never moves the bookmark past a delete of the source:
\* it fails until a full refresh takes over.
DeletesFailLoudly ==
    [][bookmark' > bookmark /\ bookmark # NoSnap /\ ~tick.full =>
          \A s \in (bookmark + 1)..bookmark' : log[s].op # "delete"]_vars

\* The promise of a materialized view, with the target as the view and the
\* persisted bookmark as asOf.
MV == INSTANCE MaterializedView WITH view <- target, asOf <- bookmark

ImplementsView == MV!ViewSpec
=============================================================================
