--------------------------- MODULE MCRefreshView ---------------------------
(* Bounded instances of RefreshView for TLC. *)
EXTENDS RefreshInvariant

\* The start of the chunk of width w that holds p.
Aligned(w, p) == (p \div w) * w

\* Two uniform grids and one that nests in neither, over four buckets.
MCFloor == [c \in Chunks |-> [p \in Positions |->
    IF c = "one" THEN p
    ELSE IF c = "two" THEN Aligned(2, p)
    ELSE IF p = 0 THEN 0 ELSE IF p < Horizon THEN 1 ELSE Horizon]]
MCCeiling == [c \in Chunks |-> [b \in Buckets |->
    IF c = "one" THEN b + 1
    ELSE IF c = "two" THEN (IF Aligned(2, b) + 2 < Horizon THEN Aligned(2, b) + 2 ELSE Horizon)
    ELSE IF b = 0 THEN 1 ELSE Horizon]]

(***************************************************************************)
(* Convergence.  The worker keeps scheduling ticks (view_worker's loop), so *)
(* steps of the tick are weakly fair.  query_timeout_seconds is assumed to  *)
(* leave room for one chunk: a tick is interrupted only after it recorded   *)
(* one.                                                                     *)
(***************************************************************************)
InterruptAfterChunk == tick.done > 0 /\ Interrupt

\* A full refresh that replaces an expired bookmark runs to its end.
RecoveryUninterrupted == tick.full => tick.bm = NoSnap

ConvergeNext ==
    \/ TickStep
    \/ RecoveryUninterrupted /\ InterruptAfterChunk
    \/ LateCommit
    \/ \E c \in Sizes : EditChunk(c)
    \/ SourceCommit
    \/ SourceExpire

ConvergeSpec == Init /\ [][ConvergeNext]_vars /\ WF_vars(TickStep)

RetryNext ==
    \/ TickStep
    \/ InterruptAfterChunk
    \/ SourceCommit
    \/ SourceExpire

RetrySpec == Init /\ [][RetryNext]_vars /\ WF_vars(TickStep)

\* Every snapshot committed to the source is eventually in the view, however
\* often ticks are interrupted after the chunk they recorded.
Converges ==
    \A s \in 1..MaxSnap : Len(log) >= s ~> bookmark >= s

(***************************************************************************)
(* Environments beyond the ones RefreshView assumes.                       *)
(***************************************************************************)
\* An interior snapshot of an in-flight run's window expires, out of order.
ExpireInterior ==
    /\ pc = "idle"
    /\ work.mark # NoMark
    /\ \E s \in live : bookmark < s /\ s < work.m /\ Expire(s)
    /\ UNCHANGED refreshVars

InteriorSpec == Init /\ [][Next \/ ExpireInterior]_vars

\* Expiration by age at any moment, also inside the detector's queries.
ExpireAnytime ==
    /\ \E s \in live : IsOldest(s) /\ Expire(s)
    /\ UNCHANGED refreshVars

GapSpec == Init /\ [][Next \/ ExpireAnytime]_vars

\* A full refresh leaves nothing in the target that the source no longer has.
FullRefreshDropsStaleRows ==
    [][bookmark' # bookmark /\ tick.full =>
          \A b \in Buckets : DataAt(bookmark')[b] = 0 => target'[b] = 0]_vars

\* A tick that merges nothing moves the bookmark only over buckets that are
\* in the view, those of a discarded run included.
SkipLeavesNoOrphans ==
    [][bookmark' # bookmark /\ pc = "skip" => target' = DataAt(bookmark')]_vars
=============================================================================
