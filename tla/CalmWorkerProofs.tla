-------------------------- MODULE CalmWorkerProofs --------------------------
(***************************************************************************)
(* POST /refresh in a calm environment (MCViewWorker): a handler that      *)
(* reports success saw a refresh end that began after its trigger, with    *)
(* any number of tasks, runtimes and handlers.                             *)
(***************************************************************************)
EXTENDS MCViewWorker, ViewWorkerProofs

\* A worker that closes its connection has no successor yet, so that it
\* resets refresh_in_flight under nobody.
ClosingAlone == \A t, u \in Tasks : task[t].pc = "closing" => ~Active(u)

\* A trigger during a refresh finds it in flight.
FlightMarked == \A t \in Tasks : task[t].pc = "refresh" => rt[task[t].rt].inFlight

\* The last refresh that a handler is owed saw its trigger.
LastSaw ==
    \A t \in Tasks, c \in Waiting(client) :
        task[t].pc = "refresh" /\ client[c].rt = task[t].rt /\ client[c].need = 1
        => c \in task[t].saw \/ client[c].observed

\* A handler that is owed nothing has seen what it waits for.
PaidSaw == \A c \in Waiting(client) : client[c].need = 0 => client[c].observed

ObserveInv == ClosingAlone /\ FlightMarked /\ LastSaw /\ PaidSaw /\ TriggerObserved

-----------------------------------------------------------------------------
\* What a notification, the end of a refresh and the head of the loop do to
\* the history of the handlers.
LEMMA NotifiedSees ==
    ASSUME NEW cs \in [Clients -> ClientRecords], NEW r
    PROVE  \A c \in Clients : /\ Notified(cs, r)[c].observed = cs[c].observed
                              /\ Notified(cs, r)[c].pc = "ok" <=> cs[c].pc = "ok"
BY DEF Notified, ClientRecords

LEMMA BumpedSees ==
    ASSUME TypeOK, NEW t \in Tasks
    PROVE  /\ \A c \in Waiting(client) :
                 Bumped(t)[c].observed = (client[c].observed \/ c \in task[t].saw)
           /\ \A c \in Clients \ Waiting(client) : Bumped(t)[c] = client[c]
           /\ \A c \in Clients : Bumped(t)[c].pc = client[c].pc
           /\ \A c \in Waiting(client) :
                 client[c].rt # task[t].rt => Bumped(t)[c].need = client[c].need
<1>1. client \in [Clients -> ClientRecords]
  BY Typed
<1>2. ASSUME NEW c \in Waiting(client)
      PROVE  /\ Bumped(t)[c].observed = (client[c].observed \/ c \in task[t].saw)
             /\ Bumped(t)[c].pc = client[c].pc
             /\ client[c].rt # task[t].rt => Bumped(t)[c].need = client[c].need
  <2>1. c \in Clients /\ client[c] \in ClientRecords
    BY <1>1 DEF Waiting
  <2> QED  BY <2>1 DEF Bumped, ClientRecords
<1>3. \A c \in Clients \ Waiting(client) : Bumped(t)[c] = client[c]
  BY DEF Bumped
<1> QED  BY <1>2, <1>3

LEMMA LoopTopSees ==
    ASSUME TypeOK, NEW t \in Tasks, NEW r \in Runtimes, NEW state \in RuntimeRecords,
           NEW cs \in [Clients -> ClientRecords], LoopTop(t, r, state, cs)
    PROVE  /\ task'[t].pc = "refresh" => rt'[r].inFlight /\ task'[t].saw = Owed(cs)
           /\ \A c \in Clients : /\ client'[c].observed = cs[c].observed
                                 /\ client'[c].pc = "ok" <=> cs[c].pc = "ok"
<1>1. task \in [Tasks -> TaskRecords] /\ rt \in [Runtimes -> RuntimeRecords] /\ Done.pc = "done"
  BY Typed DEF Done
<1>2. CASE stopping \/ ~configured
  BY <1>1, <1>2, NotifiedSees DEF LoopTop
<1>3. CASE ~(stopping \/ ~configured)
  BY <1>1, <1>3 DEF LoopTop, RuntimeRecords
<1> QED  BY <1>2, <1>3

-----------------------------------------------------------------------------
\* Task t reaches the head of its loop with the handlers as in cs: the new
\* refresh sees every handler that is owed one.
LEMMA LoopTopObserves ==
    ASSUME WInv, ObserveInv, NEW t \in Tasks, Active(t),
           NEW r \in Runtimes, NEW state \in RuntimeRecords,
           NEW cs \in [Clients -> ClientRecords], Waiting(cs) = Waiting(client),
           \A c \in Waiting(client) : cs[c].need = 0 => cs[c].observed,
           \A c \in Clients : cs[c].pc = "ok" => cs[c].observed,
           LoopTop(t, r, state, cs)
    PROVE  ObserveInv'
<1>1. /\ task' \in [Tasks -> TaskRecords]
      /\ \A u \in Tasks \ {t} : task'[u] = task[u]
      /\ \/ task'[t].pc = "done"
         \/ task'[t].pc = "refresh" /\ task'[t].rt = r
      /\ Waiting(client') = Waiting(client)
      /\ \A c \in Clients : client'[c].rt = cs[c].rt /\ client'[c].need = cs[c].need
  BY LoopTopFacts DEF WInv
<1>2. /\ task'[t].pc = "refresh" => rt'[r].inFlight /\ task'[t].saw = Owed(cs)
      /\ \A c \in Clients : /\ client'[c].observed = cs[c].observed
                            /\ client'[c].pc = "ok" <=> cs[c].pc = "ok"
  BY LoopTopSees DEF WInv
<1>3. \A u \in Tasks \ {t} : ~Active(u) /\ task[u].pc # "closing"
  BY DEF WInv, OneActive, ObserveInv, ClosingAlone
<1>4. ClosingAlone'
  BY <1>1, <1>3 DEF ClosingAlone
<1>5. \A u \in Tasks : task'[u].pc = "refresh" => u = t /\ task'[t].rt = r
  BY <1>1, <1>3 DEF Active
<1>6. FlightMarked'
  BY <1>2, <1>5 DEF FlightMarked
<1>7. \A c \in Waiting(client) : c \in Clients /\ cs[c].need \in 0..2
  BY DEF Waiting, ClientRecords
<1>8. LastSaw'
  BY <1>1, <1>2, <1>5, <1>7 DEF LastSaw, Owed
<1>9. PaidSaw' /\ TriggerObserved'
  BY <1>1, <1>2, <1>7 DEF PaidSaw, TriggerObserved
<1> QED  BY <1>4, <1>6, <1>8, <1>9 DEF ObserveInv

LEMMA BeginObserves ==
    ASSUME WInv, ObserveInv, NEW t \in Tasks, Begin(t) \/ WakeUp(t)
    PROVE  ObserveInv'
<1>1. TypeOK /\ client \in [Clients -> ClientRecords] /\ rt \in [Runtimes -> RuntimeRecords]
  BY Typed DEF WInv
<1>2. \A c \in Waiting(client) : client[c].need = 0 => client[c].observed
  BY DEF ObserveInv, PaidSaw
<1>3. \A c \in Clients : client[c].pc = "ok" => client[c].observed
  BY DEF ObserveInv, TriggerObserved
<1>4. CASE Begin(t)
  <2>1. PICK r \in Runtimes, state \in {NewRuntime} \union {rt[q] : q \in Runtimes} :
          SetDefault(r, state) /\ LoopTop(t, r, state, client)
    BY <1>4 DEF Begin
  <2>2. state \in RuntimeRecords /\ Active(t)
    BY <1>1, <1>4, <2>1, SetDefaultFacts DEF Begin, Active
  <2> QED  BY <1>1, <1>2, <1>3, <2>1, <2>2, LoopTopObserves
<1>5. CASE WakeUp(t)
  <2> DEFINE r == task[t].rt
             state == [rt[r] EXCEPT !.wake = FALSE]
  <2>1. LoopTop(t, r, state, client) /\ Active(t)
    BY <1>5 DEF WakeUp, Active
  <2>2. r \in Runtimes /\ state \in RuntimeRecords
    BY <1>1, <1>5 DEF WakeUp, WInv, RuntimeKnown, RuntimeRecords
  <2> HIDE DEF r, state
  <2> QED  BY <1>1, <1>2, <1>3, <2>1, <2>2, LoopTopObserves
<1> QED  BY <1>4, <1>5

\* A refresh ends: whoever needs no other one was seen by it.
LEMMA FinishObserves ==
    ASSUME WInv, ObserveInv, NEW t \in Tasks, FinishRefresh(t)
    PROVE  ObserveInv'
<1> DEFINE r == task[t].rt
           cs == Notified(Bumped(t), r)
<1>1. /\ TypeOK /\ task \in [Tasks -> TaskRecords] /\ client \in [Clients -> ClientRecords]
      /\ NewRuntime \in RuntimeRecords
  BY Typed DEF WInv
<1>2. task[t].pc = "refresh" /\ Active(t) /\ r \in Runtimes
  BY DEF FinishRefresh, Active, WInv, RuntimeKnown
<1>3. Bumped(t) \in [Clients -> ClientRecords] /\ Waiting(Bumped(t)) = Waiting(client)
  BY <1>1, BumpedFacts
<1>4. /\ cs \in [Clients -> ClientRecords] /\ Waiting(cs) = Waiting(client)
      /\ \A c \in Clients : /\ cs[c].need = Bumped(t)[c].need
                            /\ cs[c].observed = Bumped(t)[c].observed
                            /\ cs[c].pc = "ok" <=> Bumped(t)[c].pc = "ok"
  BY <1>3, NotifiedFacts, NotifiedSees
<1> HIDE DEF cs
<1>5. \A c \in Clients : cs[c].pc = "ok" => cs[c].observed
  <2> SUFFICES ASSUME NEW c \in Clients, cs[c].pc = "ok" PROVE cs[c].observed
    OBVIOUS
  <2>1. client[c].pc = "ok"
    BY <1>1, <1>4, BumpedSees
  <2>2. c \notin Waiting(client) /\ client[c].observed
    BY <2>1 DEF Waiting, ObserveInv, TriggerObserved
  <2> QED  BY <1>1, <1>4, <2>2, BumpedSees
<1>6. \A c \in Waiting(client) : cs[c].need = 0 => cs[c].observed
  <2> SUFFICES ASSUME NEW c \in Waiting(client), cs[c].need = 0 PROVE cs[c].observed
    OBVIOUS
  <2>1. c \in Clients /\ client[c].need \in 0..2
    BY <1>1 DEF Waiting, ClientRecords
  <2>2. cs[c].observed = (client[c].observed \/ c \in task[t].saw)
    BY <1>1, <1>4, <2>1, BumpedSees
  <2>3. CASE client[c].rt = r
    <3>1. client[c].need \in {0, 1}
      BY <1>1, <1>4, <2>1, <2>3, BumpedFacts
    <3> QED  BY <1>2, <2>2, <2>3, <3>1 DEF ObserveInv, LastSaw, PaidSaw
  <2>4. CASE client[c].rt # r
    <3>1. client[c].need = 0
      BY <1>1, <1>4, <2>1, <2>4, BumpedSees
    <3> QED  BY <2>2, <3>1 DEF ObserveInv, PaidSaw
  <2> QED  BY <2>3, <2>4
<1>7. CASE rt[r].wake
  <2>1. LoopTop(t, r, NewRuntime, cs)
    BY <1>7 DEF FinishRefresh, cs
  <2> HIDE DEF r
  <2> QED  BY <1>1, <1>2, <1>4, <1>5, <1>6, <2>1, LoopTopObserves
<1>8. CASE ~rt[r].wake
  <2>1. task' = [task EXCEPT ![t].pc = "waiting", ![t].saw = {}] /\ client' = cs
    BY <1>8 DEF FinishRefresh, cs
  <2>2. task'[t].pc = "waiting" /\ \A u \in Tasks \ {t} : task'[u] = task[u]
    BY <1>1, <2>1 DEF TaskRecords
  <2>3. \A u \in Tasks : task'[u].pc # "refresh"
    BY <1>2, <2>2 DEF WInv, OneActive, Active
  <2>4. ClosingAlone'
    BY <1>2, <2>2 DEF ObserveInv, ClosingAlone, Active
  <2>5. FlightMarked' /\ LastSaw'
    BY <2>3 DEF FlightMarked, LastSaw
  <2>6. PaidSaw' /\ TriggerObserved'
    BY <1>4, <1>5, <1>6, <2>1 DEF PaidSaw, TriggerObserved
  <2> QED  BY <2>4, <2>5, <2>6 DEF ObserveInv
<1> QED  BY <1>7, <1>8

\* A task is cancelled, closes its connection, or ends.
LEMMA LeaveObserves ==
    ASSUME WInv, ObserveInv, NEW t \in Tasks, DeliverCancel(t) \/ Closed(t)
    PROVE  ObserveInv'
<1>1. /\ TypeOK /\ task \in [Tasks -> TaskRecords] /\ client \in [Clients -> ClientRecords]
      /\ Done.pc = "done"
  BY Typed DEF WInv, Done
<1>2. /\ \A u \in Tasks \ {t} : task'[u] = task[u]
      /\ task'[t].pc = "done" \/ (task'[t].pc = "closing" /\ task[t].pc = "refresh")
      /\ client' = client \/ client' = Notified(client, task[t].rt)
  BY <1>1 DEF DeliverCancel, Closed, Unwind, TaskRecords
<1>3. /\ Waiting(client') = Waiting(client)
      /\ \A c \in Clients : /\ client'[c].rt = client[c].rt
                            /\ client'[c].need = client[c].need
                            /\ client'[c].observed = client[c].observed
                            /\ client'[c].pc = "ok" <=> client[c].pc = "ok"
  BY <1>1, <1>2, NotifiedFacts, NotifiedSees
<1>4. ClosingAlone'
  BY <1>2 DEF WInv, OneActive, ObserveInv, ClosingAlone, Active
<1>5. \A u \in Tasks : task'[u].pc = "refresh" => task'[u] = task[u]
  BY <1>2
<1>6. FlightMarked'
  <2>1. CASE UNCHANGED rt
    BY <1>5, <2>1 DEF ObserveInv, FlightMarked
  <2>2. CASE task[t].pc = "closing"
    BY <1>5, <2>2 DEF ObserveInv, ClosingAlone, FlightMarked, Active
  <2> QED  BY <2>1, <2>2 DEF DeliverCancel, Closed
<1>7. \A c \in Waiting(client) : c \in Clients
  BY DEF Waiting
<1>8. LastSaw' /\ PaidSaw' /\ TriggerObserved'
  BY <1>3, <1>5, <1>7 DEF ObserveInv, LastSaw, PaidSaw, TriggerObserved
<1> QED  BY <1>4, <1>6, <1>8 DEF ObserveInv

\* A trigger during a refresh asks for the one after it.
LEMMA TriggerObserves ==
    ASSUME WInv, ObserveInv, NEW c \in Clients, Trigger(c)
    PROVE  ObserveInv'
<1>1. /\ TypeOK /\ rt \in [Runtimes -> RuntimeRecords] /\ client \in [Clients -> ClientRecords]
  BY Typed DEF WInv
<1>2. PICK r \in Runtimes, state \in {NewRuntime} \union {rt[q] : q \in Runtimes} :
        /\ SetDefault(r, state)
        /\ rt' = [rt EXCEPT ![r] = [state EXCEPT !.wake = TRUE]]
        /\ client' = [client EXCEPT ![c] =
              [pc |-> "parked", rt |-> r, observed |-> FALSE, need |-> Target(state)]]
  BY DEF Trigger
<1>3. UNCHANGED task
  BY DEF Trigger
<1>4. state \in RuntimeRecords /\ (state = rt[r] \/ (state = NewRuntime /\ Unreferenced(r)))
  BY <1>1, <1>2, SetDefaultFacts
<1>5. /\ rt'[r].inFlight = state.inFlight
      /\ \A q \in Runtimes \ {r} : rt'[q] = rt[q]
  BY <1>1, <1>2, <1>4 DEF RuntimeRecords
<1>6. /\ client'[c].rt = r /\ client'[c].need = IF state.inFlight THEN 2 ELSE 1
      /\ client'[c].pc = "parked"
      /\ \A d \in Clients \ {c} : client'[d] = client[d]
  BY <1>1, <1>2 DEF Target
<1>7. \A t \in Tasks : task[t].pc = "refresh" =>
         task[t].rt \in Runtimes /\ (task[t].rt = r => state = rt[r] /\ state.inFlight)
  BY <1>4 DEF WInv, RuntimeKnown, ObserveInv, FlightMarked, Unreferenced
<1>8. FlightMarked'
  BY <1>3, <1>5, <1>7 DEF ObserveInv, FlightMarked
<1>9. ClosingAlone'
  BY <1>3 DEF ObserveInv, ClosingAlone, Active
<1>10. \A d \in Waiting(client') : d \in Clients /\ (d # c => d \in Waiting(client))
  BY <1>6 DEF Waiting
<1>11. LastSaw'
  BY <1>3, <1>6, <1>7, <1>10 DEF ObserveInv, LastSaw
<1>12. PaidSaw' /\ TriggerObserved'
  BY <1>6, <1>10 DEF ObserveInv, PaidSaw, TriggerObserved
<1> QED  BY <1>8, <1>9, <1>11, <1>12 DEF ObserveInv

\* A handler reports success only when it is owed nothing.
LEMMA HandlerObserves ==
    ASSUME WInv, ObserveInv, NEW c \in Clients, Resume(c) \/ Respond(c)
    PROVE  ObserveInv'
<1>1. client \in [Clients -> ClientRecords]
  BY Typed DEF WInv
<1>2. UNCHANGED <<task, rt>>
  BY DEF Resume, Respond
<1>3. /\ \A d \in Clients : client'[d].pc = "ok" =>
            client[d].pc = "ok" \/ (d \in Waiting(client) /\ client[d].need = 0)
      /\ \A d \in Clients : client'[d].pc = "ok" => client'[d].observed = client[d].observed
      /\ \A d \in Waiting(client') : /\ d \in Waiting(client)
                                     /\ client'[d].rt = client[d].rt
                                     /\ client'[d].need = client[d].need
                                     /\ client'[d].observed = client[d].observed
  <2>1. CASE Resume(c)
    <3> DEFINE pc == IF client[c].need = 0 THEN "ok" ELSE IF ~configured THEN "gone" ELSE "parked"
    <3>1. client' = [client EXCEPT ![c].pc = pc] /\ client[c].pc = "woken"
      BY <2>1 DEF Resume
    <3>2. pc \in {"ok", "gone", "parked"} /\ (pc = "ok" => client[c].need = 0)
      OBVIOUS
    <3> HIDE DEF pc
    <3> QED  BY <1>1, <3>1, <3>2 DEF Waiting, ClientRecords
  <2>2. CASE Respond(c)
    <3>1. client' = [client EXCEPT ![c] = IdleClient] /\ IdleClient.pc = "idle"
      BY <2>2 DEF Respond, IdleClient
    <3> QED  BY <1>1, <3>1 DEF Waiting
  <2> QED  BY <2>1, <2>2
<1>4. ClosingAlone' /\ FlightMarked'
  BY <1>2 DEF ObserveInv, ClosingAlone, FlightMarked, Active
<1>5. LastSaw' /\ PaidSaw'
  BY <1>2, <1>3 DEF ObserveInv, LastSaw, PaidSaw
<1>6. TriggerObserved'
  BY <1>3 DEF ObserveInv, PaidSaw, TriggerObserved
<1> QED  BY <1>4, <1>5, <1>6 DEF ObserveInv

\* Tasks are only spawned, when none closes its connection, or cancelled.
LEMMA QuietObserves ==
    ASSUME WInv, ObserveInv, UNCHANGED <<rt, client>>,
           \/ UNCHANGED task
           \/ task' = Cancel(worker)
           \/ /\ \A t \in Tasks : task[t].pc # "closing"
              /\ \E t \in Tasks : task' = [task EXCEPT ![t] = Created]
    PROVE  ObserveInv'
<1>1. task \in [Tasks -> TaskRecords] /\ Created.pc = "created"
  BY Typed DEF WInv, Created, Done
<1>2. \A u \in Tasks : task'[u].pc \in {"refresh", "closing"} =>
         task'[u].pc = task[u].pc /\ task'[u].rt = task[u].rt /\ task'[u].saw = task[u].saw
  BY <1>1 DEF Cancel, TaskRecords
<1>3. ClosingAlone'
  <2>1. CASE UNCHANGED task \/ task' = Cancel(worker)
    <3>1. \A u \in Tasks : task'[u].pc = task[u].pc
      BY <1>1, <2>1 DEF Cancel, TaskRecords
    <3> QED  BY <3>1 DEF ObserveInv, ClosingAlone, Active
  <2>2. CASE \A t \in Tasks : task[t].pc # "closing"
    BY <1>2, <2>2 DEF ClosingAlone
  <2> QED  BY <2>1, <2>2
<1>4. FlightMarked' /\ LastSaw' /\ PaidSaw' /\ TriggerObserved'
  BY <1>2 DEF ObserveInv, FlightMarked, LastSaw, PaidSaw, TriggerObserved
<1> QED  BY <1>3, <1>4 DEF ObserveInv

-----------------------------------------------------------------------------
\* Every step in a calm environment preserves it.
LEMMA CalmStep ==
    ASSUME WInv, calm => ObserveInv, [EnvNext]_envVars
    PROVE  calm' => ObserveInv'
<1>0. calm' = calm
  BY DEF EnvNext, envVars
<1> SUFFICES ASSUME calm, ObserveInv PROVE ObserveInv'
  BY <1>0
<1>1. CASE \E t \in Tasks : TaskStep(t)
  BY <1>1, BeginObserves, FinishObserves, LeaveObserves DEF TaskStep
<1>2. CASE EnvTick
  BY <1>2, QuietObserves DEF EnvTick, SupervisorTick, SyncWorkers
<1>3. CASE \E c \in Clients : Trigger(c) \/ Resume(c) \/ Respond(c)
  BY <1>3, TriggerObserves, HandlerObserves
<1>4. CASE Stop \/ StopWorkers \/ EnvCreate \/ EnvDelete \/ DeleteEnds \/ EnvEdit
  BY <1>4, QuietObserves DEF Stop, StopWorkers, EnvCreate, CreateView, EnvDelete, DeleteView,
                             DeleteEnds, EnvEdit, EditYaml
<1>5. CASE UNCHANGED envVars
  BY <1>5, QuietObserves DEF envVars, vars
<1> QED  BY <1>1, <1>2, <1>3, <1>4, <1>5 DEF EnvNext

\* In a calm environment POST /refresh reports success only after a refresh
\* that began after the trigger has ended.
THEOREM CalmTriggersObserved == EnvSpec => []CalmTriggerObserved
<1>1. EnvInit => WInv /\ (calm => ObserveInv)
  <2> SUFFICES ASSUME EnvInit PROVE WInv /\ ObserveInv
    OBVIOUS
  <2>1. WInv
    BY InitWInv DEF EnvInit
  <2>2. /\ \A t \in Tasks : task[t].pc = "done"
        /\ \A c \in Clients : client[c].pc = "idle"
    BY DEF EnvInit, Init, Done, IdleClient
  <2> QED  BY <2>1, <2>2 DEF ObserveInv, ClosingAlone, FlightMarked, LastSaw, PaidSaw,
                             TriggerObserved, Waiting
<1>2. [EnvNext]_envVars => [Next]_vars
  BY DEF EnvNext, envVars, Next, EnvTick, EnvCreate, EnvDelete, EnvEdit
<1>3. WInv /\ (calm => ObserveInv) /\ [EnvNext]_envVars => WInv' /\ (calm' => ObserveInv')
  BY <1>2, NextWInv, CalmStep
<1>4. WInv /\ (calm => ObserveInv) => CalmTriggerObserved
  BY DEF ObserveInv, CalmTriggerObserved
<1> QED  BY <1>1, <1>3, <1>4, PTL DEF EnvSpec
=============================================================================
