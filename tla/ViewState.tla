----------------------------- MODULE ViewState -----------------------------
(***************************************************************************)
(* What the service remembers of one view name, and how it survives: the   *)
(* ViewStatus in memory and the rows of state.db (query_history.py) that   *)
(* mirror it, the bookmark among them, through ticks that end with Iceberg *)
(* maintenance (maintain_view), restarts with hydration, reloads of        *)
(* views.yaml and the API's create, update and delete.                     *)
(*                                                                         *)
(* Times are ages: the seconds since a recorded moment, up to Interval,    *)
(* where an operation is due again.  A bookmark is known by the identity   *)
(* (query and target) it was taken for and by whether the target held that *)
(* query's full content; which snapshot it names is RefreshView's matter.  *)
(***************************************************************************)
EXTENDS Integers, FiniteSetsExt

CONSTANTS
    Identities,  \* a query together with its target_table
    NumOps,      \* optimize, expire_snapshots, remove_orphan_files: 1..NumOps
    Switches,    \* the sets of operations a configuration may switch on
    Interval,    \* maintenance_interval_seconds
    MaxTotal     \* bound: total_refreshes saturates here

ASSUME StateAssumption ==
    /\ NumOps \in Nat
    /\ Interval \in Nat \ {0}
    /\ MaxTotal \in Nat
    /\ Switches \subseteq SUBSET (1..NumOps)

OpIds == 1..NumOps

\* A view's configuration: its identity and the operations switched on.
Config == [id : Identities, ops : Switches]

NoView == [id |-> "none", ops |-> {}]       \* s.config has no such view
Unloaded == [id |-> "unloaded", ops |-> {}] \* s.config is None
Broken == [id |-> "broken", ops |-> {}]     \* views.yaml does not load

ASSUME IdentityAssumption == Identities \cap {"none", "unloaded", "broken"} = {}

VARIABLES
    file,      \* the view's entry in views.yaml
    conf,      \* the view's entry in s.config.views
    history,   \* s.history is open
    status,    \* s.view_statuses[name]
    orphan,    \* the ViewStatus of the running tick, once it left s.view_statuses
    row,       \* the view's rows in state.db
    pc,        \* the await the tick has reached
    tick,      \* locals of the tick
    deleting,  \* delete_view awaits the cancelled worker
    ran,       \* history variable: age of each operation's last success
    unsaved,   \* history variable: successes that state.db does not show
    forgotten  \* history variable: no view of this name since its delete
               \* was answered

vars == <<file, conf, history, status, orphan, row, pc, tick, deleting,
          ran, unsaved, forgotten>>

(***************************************************************************)
(* Ages, statuses and rows.                                                *)
(***************************************************************************)
Never == Interval + 1
Ages == 0..Never

Due(age) == age >= Interval

Older(age) == IF age < Interval THEN age + 1 ELSE age

Unrun == [i \in OpIds |-> Never]

\* total: total_refreshes; last: last_run of maintenance[op].
NoStatus == [total |-> -1, last |-> Unrun]
Fresh == [total |-> 0, last |-> Unrun]

NoBookmark == [id |-> "none", sound |-> TRUE]
NoRows == [total |-> 0, bookmark |-> NoBookmark, last |-> Unrun]

NoTick == [conf |-> NoView, bookmark |-> NoBookmark, todo |-> {}]

Init ==
    /\ file = NoView /\ conf = NoView
    /\ history = TRUE
    /\ status = NoStatus /\ orphan = NoStatus
    /\ row = NoRows
    /\ pc = "idle"
    /\ tick = NoTick
    /\ deleting = FALSE
    /\ ran = Unrun
    /\ unsaved = {}
    /\ forgotten = TRUE

\* The ViewStatus that the running tick refers to.
Held == IF orphan # NoStatus THEN orphan ELSE status

Hold(vs) == IF orphan # NoStatus THEN orphan' = vs /\ UNCHANGED status
                                 ELSE status' = vs /\ UNCHANGED orphan

\* Fault: the view's status is looked up without a default.
LookUp(vs) == vs

\* view_statuses.setdefault(name, ViewStatus(name))
SetDefault(vs) == IF vs = NoStatus THEN Fresh ELSE vs

\* No tick runs; the last one ended, or was cut off.
Idle == pc \in {"idle", "cut"}

confVars == <<file, conf, history, deleting>>
ghostVars == <<ran, unsaved, forgotten>>

(***************************************************************************)
(* A tick of the view's worker.                                            *)
(***************************************************************************)
StartTick ==
    /\ Idle /\ conf \in Config
    /\ status' = SetDefault(status)
    /\ tick' = [conf |-> conf, todo |-> {},
                bookmark |-> IF history THEN row.bookmark ELSE NoBookmark]
    /\ orphan' = NoStatus
    /\ pc' = "run"
    /\ UNCHANGED <<confVars, row, ghostVars>>

\* A run from no bookmark fills the target; one from a bookmark adds to what
\* that bookmark promised of it.
Claim == [id |-> tick.conf.id,
          sound |-> tick.bookmark = NoBookmark
                       \/ (tick.bookmark.id = tick.conf.id /\ tick.bookmark.sound)]

\* The run completes, or detection finds nothing to merge and moves on.
MoveBookmark ==
    /\ pc = "run"
    /\ row' = IF history THEN [row EXCEPT !.bookmark = Claim] ELSE row
    /\ pc' \in {"count", "persist"}
    /\ UNCHANGED <<confVars, status, orphan, tick, ghostVars>>

\* The source has not moved.
Skip ==
    /\ pc = "run"
    /\ pc' = "persist"
    /\ UNCHANGED <<confVars, status, orphan, row, tick, ghostVars>>

Count ==
    /\ pc = "count"
    /\ Hold([Held EXCEPT !.total = IF @ < MaxTotal THEN @ + 1 ELSE @])
    /\ pc' = "persist"
    /\ UNCHANGED <<confVars, row, tick, ghostVars>>

\* row with the counters of vs: upsert_view_status leaves the bookmark alone.
Mirrored(vs) == IF history THEN [row EXCEPT !.total = vs.total] ELSE row

\* The next operation of the loop, or the end of the tick.
NextOp(todo) ==
    /\ tick' = IF todo = {} THEN NoTick ELSE [tick EXCEPT !.todo = todo]
    /\ pc' = IF todo = {} THEN "idle" ELSE "op"

DueOps(vs) == {i \in tick.conf.ops : Due(vs.last[i])}

\* The status is saved; maintain_view looks the view's status up again and
\* reads the clock once.
Persist ==
    /\ pc = "persist"
    /\ row' = Mirrored(Held)
    /\ status' = SetDefault(status)
    /\ orphan' = NoStatus
    /\ NextOp(DueOps(SetDefault(status)))
    /\ UNCHANGED <<confVars, ghostVars>>

Op == Min(tick.todo)

OpSucceeds ==
    /\ pc = "op"
    /\ Hold([Held EXCEPT !.last[Op] = 0])
    /\ ran' = [ran EXCEPT ![Op] = 0]
    /\ unsaved' = unsaved \union {Op}
    /\ pc' = "save"
    /\ UNCHANGED <<confVars, row, tick, forgotten>>

\* upsert_maintenance of the operation with the fields of vs.
SaveOp(vs) ==
    /\ row' = IF history THEN [row EXCEPT !.last[Op] = vs.last[Op]] ELSE row
    /\ unsaved' = IF history /\ vs.last[Op] = ran[Op] THEN unsaved \ {Op} ELSE unsaved

\* The query log, then the operation's row.
OpSaved ==
    /\ pc = "save"
    /\ SaveOp(Held)
    /\ NextOp(tick.todo \ {Op})
    /\ UNCHANGED <<confVars, status, orphan, ran, forgotten>>

\* Fault: the first failure leaves the loop.
OpFailsAll ==
    /\ pc = "op"
    /\ IF Held.last[Op] = Never THEN UNCHANGED <<row, unsaved>> ELSE SaveOp(Held)
    /\ NextOp({})
    /\ UNCHANGED <<confVars, status, orphan, ran, forgotten>>

\* A failed operation keeps its last_run; without one there is no row for it.
OpFails ==
    /\ pc = "op"
    /\ IF Held.last[Op] = Never THEN UNCHANGED <<row, unsaved>> ELSE SaveOp(Held)
    /\ NextOp(tick.todo \ {Op})
    /\ UNCHANGED <<confVars, status, orphan, ran, forgotten>>

Abandon(end) ==
    /\ pc' = end
    /\ tick' = NoTick
    /\ orphan' = NoStatus

\* query_timeout_seconds or an error ends the tick, and the status is saved.
\* A cancelled maintenance operation is not an error of that operation.
Interrupt ==
    /\ ~Idle
    /\ row' = Mirrored(Held)
    /\ Abandon("cut")
    /\ UNCHANGED <<confVars, status, ghostVars>>

WorkerStep ==
    \/ StartTick \/ MoveBookmark \/ Skip \/ Count \/ Persist
    \/ OpSucceeds \/ OpSaved \/ OpFails

(***************************************************************************)
(* The configuration: reload_config in the supervisor, and the API.        *)
(***************************************************************************)
\* The worker of a view that left the configuration is cancelled.
CancelUnless(configured) ==
    IF configured THEN UNCHANGED <<pc, tick, orphan>> ELSE Abandon("idle")

Reload ==
    /\ file # Broken
    /\ conf' = file
    /\ status' = IF file = NoView THEN status ELSE SetDefault(status)
    /\ CancelUnless(file # NoView)
    /\ forgotten' = (forgotten /\ file = NoView)
    /\ UNCHANGED <<file, history, row, deleting, ran, unsaved>>

EditFile(f) ==
    /\ file' = f
    /\ UNCHANGED <<conf, history, status, orphan, row, pc, tick, deleting, ghostVars>>

CreateView(c) ==
    /\ conf = NoView
    /\ conf' = c
    /\ file' = c
    /\ status' = Fresh
    /\ forgotten' = FALSE
    /\ UNCHANGED <<history, orphan, row, pc, tick, deleting, ran, unsaved>>

UpdateView(c) ==
    /\ conf \in Config
    /\ conf' = c
    /\ file' = c
    /\ UNCHANGED <<history, status, orphan, row, pc, tick, deleting, ghostVars>>

\* delete_view up to its await of the cancelled worker.
DeleteView ==
    /\ conf \in Config /\ ~deleting
    /\ conf' = NoView
    /\ file' = NoView
    /\ deleting' = TRUE
    /\ Abandon("idle")
    /\ UNCHANGED <<history, status, row, ghostVars>>

\* Fault: the rows of the view outlive it.
DeleteEndsKeepsRows ==
    /\ deleting
    /\ deleting' = FALSE
    /\ status' = NoStatus
    /\ orphan' = IF Idle THEN NoStatus ELSE Held
    /\ row' = row
    /\ ran' = Unrun
    /\ unsaved' = {}
    /\ forgotten' = TRUE
    /\ UNCHANGED <<file, conf, history, pc, tick>>

\* Status and rows are removed by name, whoever owns it by now.
DeleteEnds ==
    /\ deleting
    /\ deleting' = FALSE
    /\ status' = NoStatus
    /\ orphan' = IF Idle THEN NoStatus ELSE Held
    /\ row' = IF history THEN NoRows ELSE row
    /\ ran' = Unrun
    /\ unsaved' = {}
    /\ forgotten' = TRUE
    /\ UNCHANGED <<file, conf, history, pc, tick>>

(***************************************************************************)
(* The process and the clock.                                              *)
(***************************************************************************)
\* Fault: hydration leaves out the maintenance rows.
HydratedCounters == [total |-> row.total, last |-> Unrun]

\* Fault: hydration leaves out the counters.
HydratedMaintenance == [total |-> 0, last |-> row.last]

\* hydrate_view_state into a fresh ViewStatus.
Hydrated == [total |-> row.total, last |-> row.last]

\* A crash or a shutdown, and the start of a new process: history is opened
\* only if the configuration loaded, views are hydrated only if configured.
Restart ==
    /\ conf' = IF file = Broken THEN Unloaded ELSE file
    /\ history' = (file # Broken)
    /\ status' = IF file \in Config THEN Hydrated ELSE NoStatus
    /\ deleting' = FALSE
    /\ Abandon("cut")
    /\ forgotten' = (forgotten /\ file \notin Config)
    /\ UNCHANGED <<file, row, ran, unsaved>>

OlderAll(last) == [i \in OpIds |-> Older(last[i])]

\* A second of wall clock passes.
Age ==
    /\ status' = [status EXCEPT !.last = OlderAll(@)]
    /\ orphan' = [orphan EXCEPT !.last = OlderAll(@)]
    /\ row' = [row EXCEPT !.last = OlderAll(@)]
    /\ ran' = OlderAll(ran)
    /\ UNCHANGED <<confVars, pc, tick, unsaved, forgotten>>

Next ==
    \/ WorkerStep \/ Interrupt
    \/ Reload
    \/ \E f \in Config \union {NoView, Broken} : EditFile(f)
    \/ \E c \in Config : CreateView(c) \/ UpdateView(c)
    \/ DeleteView \/ DeleteEnds
    \/ Restart \/ Age

Spec == Init /\ [][Next]_vars

(***************************************************************************)
(* Steady use of a name: its identity changes only after an API delete was *)
(* answered (README.md: "Force a full refresh"); a view removed from       *)
(* views.yaml comes back unchanged and before the next restart; the        *)
(* service is started with files that load.                                *)
(***************************************************************************)
SteadyEdit(f) ==
    \/ f \in {NoView, Broken}
    \/ f.id \in {file.id, conf.id}
    \/ f.id = row.bookmark.id /\ status # NoStatus /\ ~deleting
    \/ conf = NoView /\ file = NoView /\ forgotten

SteadyNext ==
    \/ WorkerStep \/ Interrupt
    \/ Reload
    \/ \E f \in Config \union {NoView, Broken} : SteadyEdit(f) /\ EditFile(f)
    \/ \E c \in Config : \/ forgotten /\ file = NoView /\ CreateView(c)
                         \/ c.id = conf.id /\ UpdateView(c)
    \/ DeleteView \/ DeleteEnds
    \/ file # Broken /\ Restart
    \/ Age

SteadySpec == Init /\ [][SteadyNext]_vars

\* Time passes and the worker keeps scheduling ticks.
FairSpec == SteadySpec /\ WF_vars(WorkerStep) /\ WF_vars(Age)

-----------------------------------------------------------------------------
(***************************************************************************)
(* Properties.                                                             *)
(***************************************************************************)
Statuses == [total : -1..MaxTotal, last : [OpIds -> Ages]]
Bookmarks == {NoBookmark} \union [id : Identities, sound : BOOLEAN]

\* Every variable stays in its range.
TypeOK ==
    /\ file \in Config \union {NoView, Broken}
    /\ conf \in Config \union {NoView, Unloaded}
    /\ history \in BOOLEAN /\ deleting \in BOOLEAN
    /\ status \in Statuses /\ orphan \in Statuses
    /\ row \in [total : 0..MaxTotal, bookmark : Bookmarks, last : [OpIds -> Ages]]
    /\ pc \in {"idle", "cut", "run", "count", "persist", "op", "save"}
    /\ tick \in [conf : Config \union {NoView}, bookmark : Bookmarks, todo : SUBSET OpIds]
    /\ ran \in [OpIds -> Ages]
    /\ unsaved \in SUBSET OpIds
    /\ forgotten \in BOOLEAN

\* The persisted bookmark belongs to the configured query and target, and
\* that target holds everything the bookmark promises.
BookmarkBelongs ==
    row.bookmark # NoBookmark =>
        /\ row.bookmark.sound
        /\ conf \in Config => row.bookmark.id = conf.id

Starts(i) == pc' = "op" /\ i = Min(tick'.todo) /\ ~(pc = "op" /\ i = Op)

\* A maintenance operation that succeeded is not run again before
\* maintenance_interval_seconds have passed, restarts included, unless its
\* success was cut off before it reached state.db.
MaintenanceSpaced ==
    [][\A i \in OpIds : Starts(i) => Due(ran[i]) \/ i \in unsaved]_vars

\* The persisted counters of a view go back only when the view is deleted.
CountersSurvive ==
    [][row'.total < row.total => row' = NoRows]_vars

\* While ticks are not cut off, an operation that keeps failing does not keep
\* the ones after it from running.
FailuresStarveNone ==
    \A i \in OpIds :
        <>[](conf \in Config /\ i \in conf.ops) /\ <>[](pc # "cut")
            => []<>(pc = "op" /\ i = Op)
=============================================================================
