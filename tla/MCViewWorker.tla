---------------------------- MODULE MCViewWorker ----------------------------
(* Bounded instances of ViewWorker for TLC. *)
EXTENDS ViewWorker

VARIABLE calm  \* the environment is calm, chosen once

Served == Alive(worker) /\ task[worker].pc # "created"

(***************************************************************************)
(* A calm environment: a view is removed, through the API or views.yaml,   *)
(* only once its worker has started; a view is created again only after    *)
(* its deletion was answered; a connection closes before the supervisor's  *)
(* next tick.                                                              *)
(***************************************************************************)
EnvDelete == (calm => Served) /\ DeleteView
EnvEdit == (calm => deleting = NoTask /\ (yaml => Served)) /\ EditYaml
EnvCreate == (calm => deleting = NoTask /\ Settled) /\ CreateView
EnvTick == (calm => \A t \in Tasks : task[t].pc # "closing") /\ SupervisorTick

EnvInit == Init /\ calm \in BOOLEAN

EnvNext ==
    /\ \/ \E t \in Tasks : TaskStep(t)
       \/ EnvTick \/ Stop \/ StopWorkers
       \/ \E c \in Clients : Trigger(c) \/ Resume(c) \/ Respond(c)
       \/ EnvCreate \/ EnvDelete \/ DeleteEnds \/ EnvEdit
    /\ UNCHANGED calm

envVars == <<vars, calm>>

EnvSpec ==
    /\ EnvInit /\ [][EnvNext]_envVars
    /\ \A t \in Tasks : WF_vars(TaskStep(t))
    /\ WF_vars(EnvTick)
    /\ \A c \in Clients : WF_vars(Resume(c))
    /\ WF_vars(DeleteEnds)

\* In a calm environment a handler that reports success saw its trigger's
\* refresh end.
CalmTriggerObserved == calm => TriggerObserved

\* In a calm environment every parked handler returns, unless the service
\* shuts down.
CalmParkedReturns == calm => ParkedReturns
=============================================================================
