-------------------------- MODULE RefreshInvariant --------------------------
(***************************************************************************)
(* The inductive invariant of RefreshView, for sources that lose no data.  *)
(***************************************************************************)
EXTENDS RefreshView

NoDeletes == "delete" \notin Ops

\* The history of the source: a bucket changes only with a change snapshot that
\* adds files to it, and never loses its rows.
LogInv ==
    /\ \A s \in 1..Len(log) : log[s].op \in AllowedOps
    /\ \A i, j \in 0..Len(log) : i <= j => \A b \in Buckets :
          /\ DataAt(i)[b] # 0 => DataAt(j)[b] # 0
          /\ \/ DataAt(i)[b] = DataAt(j)[b]
             \/ \E u \in (i + 1)..j : log[u].op \in ChangeOps /\ b \in log[u].files

\* Expiration leaves a suffix of the history, and all that a query is listing.
LiveInv ==
    /\ \A s \in live : s..Len(log) \subseteq live
    /\ pc = "list" => (tick.bm + 1)..Len(log) \subseteq live

Running == pc \in {"merge", "record", "complete"}
Detecting == pc \in {"probe", "list", "setwork", "skip"}

\* How the locals of a tick relate to the persisted row.
TickInv ==
    /\ pc = "idle" => tick = NoTick
    /\ ~Running /\ pc # "clear" => tick.cur = 0 /\ tick.end = 0
    /\ pc \notin {"idle", "clear"} => tick.bm = bookmark
    /\ pc = "pin" => tick.resumed
    /\ pc \in {"current", "setwork"} => ~tick.resumed
    /\ pc = "current" => work.m = NoSnap /\ tick.m = NoSnap /\ tick.mark = NoMark
    /\ pc \in {"pin", "discard", "current", "probe", "list", "setwork"} => tick.adv = NoSnap
    /\ pc \in {"probe", "list"} => bookmark # NoSnap
    /\ pc \in {"probe", "list", "setwork", "files"} \/ Running => tick.m # NoSnap
    /\ tick.resumed /\ pc # "clear" => work.m = tick.m /\ tick.m # NoSnap
    /\ pc = "files" \/ Running => work.m = tick.m
    /\ pc = "files" => work.mark = tick.mark
    /\ tick.resumed /\ pc \in {"pin", "probe", "list", "skip"} => work.mark = tick.mark
    /\ Detecting /\ ~tick.resumed => work.m = NoSnap /\ tick.mark = NoMark
    /\ Detecting /\ tick.m # NoSnap => bookmark <= tick.m

WorkInv ==
    /\ work.m = NoSnap => work.mark = NoMark
    /\ work.m # NoSnap => bookmark <= work.m

\* The latest snapshot whose rows the target may hold.
Pin == IF work.m # NoSnap THEN work.m
       ELSE IF Detecting /\ tick.m # NoSnap THEN tick.m
       ELSE Len(log)

TargetInv == \A b \in Buckets : \E s \in bookmark..Pin : target[b] = DataAt(s)[b]

\* Outside [lo, hi] the source did not change from the bookmark to the pin.
Covers(lo, hi) ==
    \A b \in Buckets : \A s \in bookmark..tick.m :
        b \notin lo..hi => DataAt(s)[b] = DataAt(tick.m)[b]

Quiet == \A b \in Buckets : \A s \in bookmark..tick.m : DataAt(s)[b] = DataAt(tick.m)[b]

WindowInv ==
    /\ pc = "setwork" /\ ~tick.full => tick.lo <= tick.hi /\ Covers(tick.lo, tick.hi)
    /\ pc \in {"merge", "record"} => tick.cur < tick.end
    /\ Running => \/ /\ pc = "complete" /\ tick.cur = 0
                     /\ Quiet
                  \/ /\ tick.lo <= tick.hi /\ tick.hi < tick.end
                     /\ Covers(tick.lo, tick.hi)
    /\ pc = "complete" => tick.end <= tick.cur
    /\ pc = "skip" /\ tick.adv # NoSnap => tick.m # NoSnap /\ tick.adv = tick.m /\ Quiet

\* What is already merged as of the pin.
MergedInv ==
    /\ ResumeSkipsOnlyMerged
    /\ Running => \A b \in Buckets : b < tick.cur => target[b] = DataAt(tick.m)[b]
    /\ pc = "record" => \A b \in Buckets : b < TickChunkEnd => target[b] = DataAt(tick.m)[b]

\* An abandoned MERGE can only write what the view may hold anyway.
LateInv ==
    late.m # NoSnap =>
        /\ late.m <= Pin
        /\ \/ bookmark <= late.m
           \/ \A b \in Buckets : DataAt(late.m)[b] = DataAt(bookmark)[b]
        /\ work.m \in {NoSnap, late.m} \/ work.mark = NoMark
        /\ pc # "record"
        /\ Running => tick.m = late.m \/ tick.cur <= tick.lo

IInv == /\ TypeOK /\ LogInv /\ LiveInv /\ TickInv /\ WorkInv
        /\ TargetInv /\ WindowInv /\ MergedInv /\ LateInv
=============================================================================
