----------------------------- MODULE ViewWorker -----------------------------
(***************************************************************************)
(* Who runs refresh_view for one view name (server.py): the supervisor     *)
(* that keeps one worker task per configured view, the worker's loop, the  *)
(* HTTP handlers that trigger, create and delete, and edits of views.yaml. *)
(*                                                                         *)
(* All of it but create_view runs on one event loop, so an action runs     *)
(* from one suspension to the next.  refresh_cond is never held across a   *)
(* suspension: entering it does not wait.  Tasks and runtimes that nobody  *)
(* refers to any more are used again.                                      *)
(***************************************************************************)
EXTENDS Integers

CONSTANTS
    Tasks,     \* bound: worker tasks alive at once
    Runtimes,  \* ViewRuntime objects that may be referred to at once
    Clients,   \* callers of POST /refresh
    NoTask,
    NoRuntime

ASSUME NamesAssumption == NoTask \notin Tasks /\ NoRuntime \notin Runtimes

VARIABLES
    configured,  \* the view is in s.config.views
    yaml,        \* the view is in views.yaml
    current,     \* s.view_runtimes[name]
    worker,      \* s.workers[name]
    task,        \* the worker tasks
    rt,          \* wake and refresh_in_flight of the runtimes
    client,      \* the handlers of POST /refresh
    deleting,    \* the task that delete_view awaits
    stopping     \* stop_event

vars == <<configured, yaml, current, worker, task, rt, client, deleting, stopping>>

\* saw: the clients that were owed a refresh when the task's began.
Done == [pc |-> "done", rt |-> NoRuntime, cancelled |-> FALSE, saw |-> {}]
Created == [Done EXCEPT !.pc = "created"]
NewRuntime == [wake |-> FALSE, inFlight |-> FALSE]

\* need: target - refresh_seq; observed: a refresh that saw the trigger ended.
IdleClient == [pc |-> "idle", rt |-> NoRuntime, need |-> 0, observed |-> FALSE]

Init ==
    /\ configured \in BOOLEAN
    /\ yaml = configured
    /\ current = NoRuntime
    /\ worker = NoTask
    /\ task = [t \in Tasks |-> Done]
    /\ rt = [r \in Runtimes |-> NewRuntime]
    /\ client = [c \in Clients |-> IdleClient]
    /\ deleting = NoTask
    /\ stopping = FALSE

Alive(t) == t # NoTask /\ task[t].pc # "done"

IsFree(t) == ~Alive(t) /\ t \notin {worker, deleting}

Unreferenced(r) ==
    /\ r # current
    /\ \A t \in Tasks : task[t].rt # r
    /\ \A c \in Clients : client[c].rt # r

\* view_runtimes.setdefault(name, ViewRuntime()) returns r holding state.
SetDefault(r, state) ==
    /\ current' = r
    /\ IF current = NoRuntime
       THEN Unreferenced(r) /\ state = NewRuntime
       ELSE r = current /\ state = rt[r]

\* notify_all on the condition of r.
Notified(cs, r) ==
    [c \in Clients |-> IF cs[c].pc = "parked" /\ cs[c].rt = r
                       THEN [cs[c] EXCEPT !.pc = "woken"] ELSE cs[c]]

Waiting(cs) == {c \in Clients : cs[c].pc \in {"parked", "woken"}}

Owed(cs) == {c \in Waiting(cs) : cs[c].need > 0}

\* The refresh of t ends: refresh_seq of its runtime grows.
Bumped(t) ==
    [c \in Clients |->
        IF c \notin Waiting(client) THEN client[c]
        ELSE [client[c] EXCEPT
                !.need = IF @ > 0 /\ client[c].rt = task[t].rt THEN @ - 1 ELSE @,
                !.observed = @ \/ c \in task[t].saw]]

\* Fault: the replaced task is forgotten but not cancelled.
NoCancel(t) == task

Cancel(t) == IF Alive(t) THEN [task EXCEPT ![t].cancelled = TRUE] ELSE task

(***************************************************************************)
(* The worker task.                                                        *)
(***************************************************************************)
\* The head of the loop, reached with the runtime in state and clients cs.
LoopTop(t, r, state, cs) ==
    IF stopping \/ ~configured
    THEN /\ task' = [task EXCEPT ![t] = Done]
         /\ rt' = [rt EXCEPT ![r] = state]
         /\ client' = Notified(cs, r)
    ELSE /\ task' = [task EXCEPT ![t] = [pc |-> "refresh", rt |-> r, cancelled |-> FALSE,
                                         saw |-> Owed(cs)]]
         /\ rt' = [rt EXCEPT ![r] = [state EXCEPT !.inFlight = TRUE]]
         /\ client' = cs

Begin(t) ==
    /\ task[t].pc = "created" /\ ~task[t].cancelled
    /\ \E r \in Runtimes, state \in {NewRuntime} \union {rt[q] : q \in Runtimes} :
          /\ SetDefault(r, state)
          /\ LoopTop(t, r, state, client)
    /\ UNCHANGED <<configured, yaml, worker, deleting, stopping>>

\* Fault: wake is cleared before the task waits for it.
FinishRefreshClears(t) ==
    /\ task[t].pc = "refresh" /\ ~task[t].cancelled
    /\ task' = [task EXCEPT ![t].pc = "waiting", ![t].saw = {}]
    /\ rt' = [rt EXCEPT ![task[t].rt] = NewRuntime]
    /\ client' = Notified(Bumped(t), task[t].rt)
    /\ UNCHANGED <<configured, yaml, current, worker, deleting, stopping>>

\* refresh_view returned or raised.  A wake that is already set does not
\* suspend the task: it is cleared and the next refresh begins.
FinishRefresh(t) ==
    LET r == task[t].rt
        cs == Notified(Bumped(t), r)
    IN  /\ task[t].pc = "refresh" /\ ~task[t].cancelled
        /\ IF rt[r].wake THEN LoopTop(t, r, NewRuntime, cs)
           ELSE /\ task' = [task EXCEPT ![t].pc = "waiting", ![t].saw = {}]
                /\ rt' = [rt EXCEPT ![r] = NewRuntime]
                /\ client' = cs
        /\ UNCHANGED <<configured, yaml, current, worker, deleting, stopping>>

\* The wait for wake is over, by the event or by refresh_interval_seconds.
WakeUp(t) ==
    /\ task[t].pc = "waiting" /\ ~task[t].cancelled
    /\ LoopTop(t, task[t].rt, [rt[task[t].rt] EXCEPT !.wake = FALSE], client)
    /\ UNCHANGED <<configured, yaml, current, worker, deleting, stopping>>

\* Fault: the task ends without waking the handlers parked on its runtime.
UnwindSilent(t, r) ==
    /\ task' = [task EXCEPT ![t] = Done]
    /\ client' = client

\* The task ends through the outer finally of view_worker.
Unwind(t, r) ==
    /\ task' = [task EXCEPT ![t] = Done]
    /\ client' = Notified(client, r)

\* CancelledError reaches the task.  One that never ran ends silently, one
\* inside refresh_view first closes its connection.
DeliverCancel(t) ==
    /\ task[t].cancelled
    /\ \/ /\ task[t].pc = "created"
          /\ task' = [task EXCEPT ![t] = Done]
          /\ UNCHANGED client
       \/ /\ task[t].pc = "waiting"
          /\ Unwind(t, task[t].rt)
       \/ /\ task[t].pc = "refresh"
          /\ task' = [task EXCEPT ![t].pc = "closing", ![t].cancelled = FALSE]
          /\ UNCHANGED client
    /\ UNCHANGED <<configured, yaml, current, worker, rt, deleting, stopping>>

Closed(t) ==
    /\ task[t].pc = "closing"
    /\ rt' = [rt EXCEPT ![task[t].rt].inFlight = FALSE]
    /\ Unwind(t, task[t].rt)
    /\ UNCHANGED <<configured, yaml, current, worker, deleting, stopping>>

(***************************************************************************)
(* The supervisor.                                                         *)
(***************************************************************************)
\* Whatever is ready runs before the supervisor's timer fires again.
Settled ==
    /\ \A t \in Tasks : task[t].pc # "created" /\ ~task[t].cancelled
    /\ \A c \in Clients : client[c].pc # "woken"

\* The views become those of views.yaml.
ReloadConfig == configured' = yaml

\* One live task for a configured view; the task of any other is cancelled.
SyncWorkers ==
    \/ /\ configured' /\ Alive(worker)
       /\ UNCHANGED <<worker, task>>
    \/ /\ configured' /\ ~Alive(worker)
       /\ \E t \in Tasks : /\ IsFree(t) \/ t = worker
                           /\ worker' = t
                           /\ task' = [task EXCEPT ![t] = Created]
    \/ /\ ~configured'
       /\ task' = Cancel(worker)
       /\ worker' = NoTask

SupervisorTick ==
    /\ ~stopping /\ Settled
    /\ ReloadConfig
    /\ SyncWorkers
    /\ UNCHANGED <<yaml, current, rt, client, deleting, stopping>>

Stop ==
    /\ ~stopping
    /\ stopping' = TRUE
    /\ UNCHANGED <<configured, yaml, current, worker, task, rt, client, deleting>>

\* The finally of supervisor.
StopWorkers ==
    /\ stopping /\ worker # NoTask
    /\ task' = Cancel(worker)
    /\ worker' = NoTask
    /\ UNCHANGED <<configured, yaml, current, rt, client, deleting, stopping>>

(***************************************************************************)
(* The HTTP handlers, and editors of views.yaml.                           *)
(***************************************************************************)
\* Fault: the refresh in flight is taken for one that saw the trigger.
TargetNext(state) == 1

\* Fault: the handler waits for one refresh more than it needs.
TargetOneMore(state) == IF state.inFlight THEN 3 ELSE 2

\* How far refresh_seq is from the handler's target.
Target(state) == IF state.inFlight THEN 2 ELSE 1

Trigger(c) ==
    /\ client[c].pc = "idle" /\ configured
    /\ \E r \in Runtimes, state \in {NewRuntime} \union {rt[q] : q \in Runtimes} :
          /\ SetDefault(r, state)
          /\ rt' = [rt EXCEPT ![r] = [state EXCEPT !.wake = TRUE]]
          /\ client' = [client EXCEPT ![c] =
                [pc |-> "parked", rt |-> r, observed |-> FALSE,
                 need |-> Target(state)]]
    /\ UNCHANGED <<configured, yaml, worker, task, deleting, stopping>>

\* A notified handler checks its condition again.
Resume(c) ==
    /\ client[c].pc = "woken"
    /\ client' = [client EXCEPT ![c].pc = IF client[c].need = 0 THEN "ok"
                                          ELSE IF ~configured THEN "gone" ELSE "parked"]
    /\ UNCHANGED <<configured, yaml, current, worker, task, rt, deleting, stopping>>

Respond(c) ==
    /\ client[c].pc \in {"ok", "gone"}
    /\ client' = [client EXCEPT ![c] = IdleClient]
    /\ UNCHANGED <<configured, yaml, current, worker, task, rt, deleting, stopping>>

CreateView ==
    /\ ~configured
    /\ configured' = TRUE
    /\ yaml' = TRUE
    /\ UNCHANGED <<current, worker, task, rt, client, deleting, stopping>>

DeleteView ==
    /\ configured /\ deleting = NoTask
    /\ configured' = FALSE
    /\ yaml' = FALSE
    /\ worker' = NoTask
    /\ task' = Cancel(worker)
    /\ IF Alive(worker) THEN deleting' = worker /\ UNCHANGED current
       ELSE current' = NoRuntime /\ UNCHANGED deleting
    /\ UNCHANGED <<rt, client, stopping>>

\* The awaited task is done.
DeleteEnds ==
    /\ deleting # NoTask /\ ~Alive(deleting)
    /\ deleting' = NoTask
    /\ current' = NoRuntime
    /\ UNCHANGED <<configured, yaml, worker, task, rt, client, stopping>>

EditYaml ==
    /\ yaml' = ~yaml
    /\ UNCHANGED <<configured, current, worker, task, rt, client, deleting, stopping>>

TaskStep(t) == Begin(t) \/ FinishRefresh(t) \/ WakeUp(t) \/ DeliverCancel(t) \/ Closed(t)

Next ==
    \/ \E t \in Tasks : TaskStep(t)
    \/ SupervisorTick \/ Stop \/ StopWorkers
    \/ \E c \in Clients : Trigger(c) \/ Resume(c) \/ Respond(c)
    \/ CreateView \/ DeleteView \/ DeleteEnds \/ EditYaml

\* Every task that can run does: query_timeout_seconds ends a refresh,
\* refresh_interval_seconds a wait, config_reload_interval_seconds the
\* supervisor's.
Fairness ==
    /\ \A t \in Tasks : WF_vars(TaskStep(t))
    /\ WF_vars(SupervisorTick)
    /\ \A c \in Clients : WF_vars(Resume(c))
    /\ WF_vars(DeleteEnds)

Spec == Init /\ [][Next]_vars /\ Fairness

-----------------------------------------------------------------------------
(***************************************************************************)
(* Properties.                                                             *)
(***************************************************************************)
\* Every variable stays in its range.
TypeOK ==
    /\ configured \in BOOLEAN /\ yaml \in BOOLEAN /\ stopping \in BOOLEAN
    /\ current \in Runtimes \union {NoRuntime}
    /\ worker \in Tasks \union {NoTask}
    /\ deleting \in Tasks \union {NoTask}
    /\ task \in [Tasks -> [pc : {"done", "created", "refresh", "waiting", "closing"},
                           rt : Runtimes \union {NoRuntime}, cancelled : BOOLEAN,
                           saw : SUBSET Clients]]
    /\ rt \in [Runtimes -> [wake : BOOLEAN, inFlight : BOOLEAN]]
    /\ client \in [Clients -> [pc : {"idle", "parked", "woken", "ok", "gone"},
                               rt : Runtimes \union {NoRuntime}, need : 0..2,
                               observed : BOOLEAN]]

\* refresh_view is never run twice at once for a view, whatever sequence of
\* deletes, creates and reloads replaced its worker.
RefreshesSequential ==
    \A t, u \in Tasks : task[t].pc = "refresh" /\ task[u].pc = "refresh" => t = u

\* No trigger is lost: while a handler is parked short of its target, the
\* worker of its runtime does not wait without a wake.
NoLostWake ==
    \A c \in Clients, t \in Tasks :
        /\ client[c].pc = "parked" /\ client[c].need > 0
        /\ task[t].pc = "waiting" /\ task[t].rt = client[c].rt
        => rt[task[t].rt].wake

\* POST /refresh reports success only after a refresh that began after the
\* trigger has ended.
TriggerObserved == \A c \in Clients : client[c].pc = "ok" => client[c].observed

\* Unless the service shuts down, and once the view is no longer created and
\* removed, every parked handler of POST /refresh returns, with 200 or 410.
ParkedReturns ==
    <>[]configured \/ <>[]~configured =>
        \A c \in Clients :
            client[c].pc = "parked" ~> client[c].pc \in {"ok", "gone"} \/ stopping
=============================================================================
