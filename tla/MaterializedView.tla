-------------------------- MODULE MaterializedView --------------------------
(***************************************************************************)
(* What a materialized view promises its readers, with no ticks, chunks,   *)
(* pins or crashes: the bookmark asOf names a snapshot of the source, the  *)
(* buckets of the view run ahead of it one by one, never behind it, and    *)
(* asOf moves, forward only, at a moment when the whole view is the source *)
(* as of the new snapshot.                                                 *)
(***************************************************************************)
EXTENDS SourceTable

VARIABLES
    view,  \* version held by each bucket of the view
    asOf   \* the snapshot the view is materialized up to

viewVars == <<view, asOf>>

ViewInit ==
    /\ SourceInit
    /\ view = [b \in Buckets |-> 0]
    /\ asOf = 0

SourceMoves ==
    /\ \/ \E op \in Ops, B \in Batches : Commit(op, B)
       \/ \E s \in live : Expire(s)
    /\ UNCHANGED viewVars

\* One commit to the view: some buckets take the content of a snapshot that
\* is not older than the bookmark.
MergeBuckets ==
    /\ view' \in [Buckets -> Nat]
    /\ \E s \in asOf..Len(log) :
          \A b \in Buckets : view'[b] = view[b] \/ view'[b] = DataAt(s)[b]
    /\ UNCHANGED <<sourceVars, asOf>>

\* The view is published as of a later snapshot.
Publish ==
    /\ asOf' \in (asOf + 1)..Len(log)
    /\ view = DataAt(asOf')
    /\ UNCHANGED <<sourceVars, view>>

ViewNext == SourceMoves \/ MergeBuckets \/ Publish

ViewSpec == ViewInit /\ [][ViewNext]_<<log, live, view, asOf>>
=============================================================================
