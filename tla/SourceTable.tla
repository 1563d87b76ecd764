---------------------------- MODULE SourceTable ----------------------------
(***************************************************************************)
(* The Iceberg source table of one materialized view, as the detector sees *)
(* it through Trino's metadata tables (detector.py).                       *)
(*                                                                         *)
(* A snapshot is its position in commit order, 1..Len(log), and 0 stands   *)
(* for None.  Time is cut into the GROUP BY buckets 0..Horizon-1, and the  *)
(* rows of a bucket are abstracted to the snapshot that last changed them  *)
(* (0: the bucket has no rows).                                            *)
(***************************************************************************)
EXTENDS Integers, Sequences

CONSTANTS
    Horizon,  \* the buckets lie in [0, Horizon)
    MaxSnap,  \* bound: commits to the source
    Ops,      \* operations the writers of the source use
    Batches   \* sets of buckets that one commit may write

VARIABLES
    log,      \* every snapshot ever committed
    live      \* the snapshots still in $snapshots

sourceVars == <<log, live>>

Buckets == 0..(Horizon - 1)

ChangeOps == {"append", "overwrite"}
AllowedOps == ChangeOps \union {"replace"}

ASSUME SourceAssumption ==
    /\ Horizon \in Nat \ {0}
    /\ MaxSnap \in Nat
    /\ Ops \subseteq AllowedOps \union {"delete"}
    /\ Batches \subseteq SUBSET Buckets

Versions == [Buckets -> Nat]
Snapshot == [op : Ops, files : SUBSET Buckets, data : Versions]

\* What FOR VERSION AS OF s reads: the version of every bucket.
DataAt(s) == IF s = 0 THEN [b \in Buckets |-> 0] ELSE log[s].data

SourceInit ==
    /\ log = << >>
    /\ live = {}

(***************************************************************************)
(* Writers of the source.                                                  *)
(***************************************************************************)
NewVersion(op, B, b) ==
    IF b \notin B \/ op = "replace" THEN DataAt(Len(log))[b]
    ELSE IF op = "delete" THEN 0
    ELSE Len(log) + 1

\* append and overwrite add data files for the buckets B they change, replace
\* rewrites files of B without changing a row, delete empties B.
Commit(op, B) ==
    /\ Len(log) < MaxSnap
    /\ op \in {"replace", "delete"} =>
          B # {} /\ \A b \in B : DataAt(Len(log))[b] # 0
    /\ log' = Append(log, [op    |-> op,
                           files |-> IF op = "delete" THEN {} ELSE B,
                           data  |-> [b \in Buckets |-> NewVersion(op, B, b)]])
    /\ live' = live \union {Len(log) + 1}

\* Snapshot expiration goes by age and never takes the current snapshot.
Expire(s) ==
    /\ s \in live \ {Len(log)}
    /\ live' = live \ {s}
    /\ UNCHANGED log

IsOldest(s) == \A u \in live : s <= u

(***************************************************************************)
(* The detector's metadata queries.                                        *)
(***************************************************************************)
CurrentSnapshot == Len(log)

SnapshotExists(s) == s \in live

\* Snapshots of (last, upper] that are still listed.
SnapshotsSince(last, upper) == {s \in live : last < s /\ s <= upper}

\* Fault: deletes are let through like a compaction.
HasUnsupportedNoDelete(S) == \E s \in S : log[s].op \notin AllowedOps \union {"delete"}

HasUnsupported(S) == \E s \in S : log[s].op \notin AllowedOps

\* Buckets of the data files added by the change snapshots of S.
AddedBuckets(S) == {b \in Buckets : \E s \in S : log[s].op \in ChangeOps /\ b \in log[s].files}

\* Buckets of the live data files ($files), whatever snapshot is pinned.
SourceBuckets == {b \in Buckets : DataAt(Len(log))[b] # 0}

\* lo and hi are the min and max of the filter column over the files of B.
IsColumnRange(B, lo, hi) ==
    /\ lo \in B
    /\ hi \in B
    /\ \A b \in B : lo <= b /\ b <= hi
=============================================================================
