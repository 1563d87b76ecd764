-------------------------- MODULE ViewWorkerProofs --------------------------
(***************************************************************************)
(* Theorems about ViewWorker: however views are created, deleted and       *)
(* edited, and however many tasks, runtimes and handlers there are, no two *)
(* refreshes of a view run at once and no trigger is lost.                 *)
(***************************************************************************)
EXTENDS ViewWorker, TLAPS

-----------------------------------------------------------------------------
(***************************************************************************)
(* The inductive invariant.                                                *)
(***************************************************************************)
Active(t) == task[t].pc \in {"created", "refresh", "waiting"}

\* A task that entered its loop has a runtime.
RuntimeKnown ==
    \A t \in Tasks : task[t].pc \in {"refresh", "waiting", "closing"} => task[t].rt \in Runtimes

\* A task that s.workers no longer holds is on its way out, so that the
\* supervisor, which waits for that, never spawns a second active one.
Ousted == \A t \in Tasks : Active(t) => t = worker \/ task[t].cancelled

OneActive == \A t, u \in Tasks : Active(t) /\ Active(u) => t = u

\* While a task waits, triggers find no refresh in flight: they need one.
WaitingIdle ==
    \A t \in Tasks : task[t].pc = "waiting" =>
        /\ ~rt[task[t].rt].inFlight
        /\ \A c \in Waiting(client) : client[c].rt = task[t].rt => client[c].need < 2

\* Handlers about to check their condition again count as well.
WakeKept ==
    \A t \in Tasks : task[t].pc = "waiting" =>
        \A c \in Waiting(client) :
            client[c].rt = task[t].rt /\ client[c].need > 0 => rt[task[t].rt].wake

\* Whoever needs two refreshes has left a wake that no refresh has consumed.
TwoOwed ==
    \A c \in Waiting(client) :
        client[c].rt \in Runtimes /\ (client[c].need = 2 => rt[client[c].rt].wake)

WInv ==
    /\ TypeOK
    /\ RuntimeKnown /\ Ousted /\ OneActive
    /\ WaitingIdle /\ WakeKept /\ TwoOwed

-----------------------------------------------------------------------------
(***************************************************************************)
(* Notifications, the end of a refresh and the head of the loop.           *)
(***************************************************************************)
TaskRecords == [pc : {"done", "created", "refresh", "waiting", "closing"},
                rt : Runtimes \union {NoRuntime}, cancelled : BOOLEAN,
                saw : SUBSET Clients]
RuntimeRecords == [wake : BOOLEAN, inFlight : BOOLEAN]
ClientRecords == [pc : {"idle", "parked", "woken", "ok", "gone"},
                  rt : Runtimes \union {NoRuntime}, need : 0..2, observed : BOOLEAN]

\* What TypeOK says, function by function.
LEMMA Typed ==
    ASSUME TypeOK
    PROVE  /\ task \in [Tasks -> TaskRecords]
           /\ rt \in [Runtimes -> RuntimeRecords]
           /\ client \in [Clients -> ClientRecords]
           /\ Done \in TaskRecords /\ Created \in TaskRecords
           /\ NewRuntime \in RuntimeRecords /\ ~NewRuntime.wake /\ ~NewRuntime.inFlight
           /\ IdleClient \in ClientRecords
<1>1. /\ task \in [Tasks -> TaskRecords]
      /\ rt \in [Runtimes -> RuntimeRecords]
      /\ client \in [Clients -> ClientRecords]
  BY DEF TypeOK, TaskRecords, RuntimeRecords, ClientRecords
<1>2. Done \in TaskRecords
  BY DEF Done, TaskRecords
<1>3. Created \in TaskRecords
  BY DEF Created, Done, TaskRecords
<1>4. NewRuntime \in RuntimeRecords /\ ~NewRuntime.wake /\ ~NewRuntime.inFlight
  BY DEF NewRuntime, RuntimeRecords
<1>5. IdleClient \in ClientRecords
  BY DEF IdleClient, ClientRecords
<1> QED  BY <1>1, <1>2, <1>3, <1>4, <1>5

\* A notification moves parked handlers to woken and changes nothing else.
LEMMA NotifiedFacts ==
    ASSUME NEW cs \in [Clients -> ClientRecords], NEW r
    PROVE  /\ Notified(cs, r) \in [Clients -> ClientRecords]
           /\ Waiting(Notified(cs, r)) = Waiting(cs)
           /\ \A c \in Clients : /\ Notified(cs, r)[c].rt = cs[c].rt
                                 /\ Notified(cs, r)[c].need = cs[c].need
<1>1. \A c \in Clients :
        /\ Notified(cs, r)[c] \in ClientRecords
        /\ Notified(cs, r)[c].rt = cs[c].rt
        /\ Notified(cs, r)[c].need = cs[c].need
        /\ Notified(cs, r)[c].pc \in {"parked", "woken"} <=> cs[c].pc \in {"parked", "woken"}
  BY DEF Notified, ClientRecords
<1>2. Notified(cs, r) \in [Clients -> ClientRecords]
  BY <1>1 DEF Notified
<1> QED  BY <1>1, <1>2 DEF Waiting

\* The end of a refresh takes one from the need of the handlers on its
\* runtime.
LEMMA BumpedFacts ==
    ASSUME TypeOK, NEW t \in Tasks
    PROVE  /\ Bumped(t) \in [Clients -> ClientRecords]
           /\ Waiting(Bumped(t)) = Waiting(client)
           /\ \A c \in Waiting(client) :
                 /\ Bumped(t)[c].rt = client[c].rt
                 /\ Bumped(t)[c].need <= client[c].need
                 /\ client[c].rt = task[t].rt =>
                       Bumped(t)[c].need = IF client[c].need > 0 THEN client[c].need - 1 ELSE 0
<1>1. client \in [Clients -> ClientRecords]
  BY Typed
<1>2. \A c \in Clients :
        /\ Bumped(t)[c].pc = client[c].pc
        /\ Bumped(t)[c].rt = client[c].rt
        /\ Bumped(t)[c] \in ClientRecords
  <2>1. SUFFICES ASSUME NEW c \in Clients
                 PROVE  /\ Bumped(t)[c].pc = client[c].pc
                        /\ Bumped(t)[c].rt = client[c].rt
                        /\ Bumped(t)[c] \in ClientRecords
    OBVIOUS
  <2>2. client[c] \in ClientRecords
    BY <1>1
  <2>3. CASE c \notin Waiting(client)
    BY <2>2, <2>3 DEF Bumped
  <2>4. CASE c \in Waiting(client)
    <3> DEFINE left == IF client[c].need > 0 /\ client[c].rt = task[t].rt
                       THEN client[c].need - 1 ELSE client[c].need
               seen == client[c].observed \/ c \in task[t].saw
    <3>1. Bumped(t)[c] = [client[c] EXCEPT !.need = left, !.observed = seen]
      BY <2>2, <2>4 DEF Bumped, ClientRecords
    <3>2. left \in 0..2
      BY <2>2 DEF ClientRecords
    <3>3. seen \in BOOLEAN
      OBVIOUS
    <3> HIDE DEF left, seen
    <3> QED  BY <2>2, <3>1, <3>2, <3>3 DEF ClientRecords
  <2> QED  BY <2>3, <2>4
<1>3. Bumped(t) \in [Clients -> ClientRecords]
  BY <1>2 DEF Bumped
<1>4. Waiting(Bumped(t)) = Waiting(client)
  BY <1>2 DEF Waiting
<1>5. ASSUME NEW c \in Waiting(client)
      PROVE  /\ Bumped(t)[c].need <= client[c].need
             /\ client[c].rt = task[t].rt =>
                   Bumped(t)[c].need = IF client[c].need > 0 THEN client[c].need - 1 ELSE 0
  <2>1. c \in Clients /\ client[c] \in ClientRecords
    BY <1>1 DEF Waiting
  <2>2. Bumped(t)[c].need = IF client[c].need > 0 /\ client[c].rt = task[t].rt
                            THEN client[c].need - 1 ELSE client[c].need
    BY <2>1 DEF Bumped, ClientRecords
  <2> QED  BY <2>1, <2>2 DEF ClientRecords
<1> QED  BY <1>2, <1>3, <1>4, <1>5 DEF Waiting

\* The head of the loop leaves the task done or refreshing.
LEMMA LoopTopFacts ==
    ASSUME TypeOK, NEW t \in Tasks, NEW r \in Runtimes, NEW state \in RuntimeRecords,
           NEW cs \in [Clients -> ClientRecords], LoopTop(t, r, state, cs)
    PROVE  /\ task' \in [Tasks -> TaskRecords]
           /\ rt' \in [Runtimes -> RuntimeRecords]
           /\ client' \in [Clients -> ClientRecords]
           /\ \A u \in Tasks \ {t} : task'[u] = task[u]
           /\ \/ task'[t].pc = "done"
              \/ task'[t].pc = "refresh" /\ task'[t].rt = r
           /\ \A q \in Runtimes \ {r} : rt'[q] = rt[q]
           /\ rt'[r].wake = state.wake
           /\ Waiting(client') = Waiting(cs)
           /\ \A c \in Clients : client'[c].rt = cs[c].rt /\ client'[c].need = cs[c].need
<1>1. /\ task \in [Tasks -> TaskRecords] /\ rt \in [Runtimes -> RuntimeRecords]
      /\ Done \in TaskRecords /\ Done.pc = "done"
  BY Typed DEF Done
<1>2. /\ Notified(cs, r) \in [Clients -> ClientRecords]
      /\ Waiting(Notified(cs, r)) = Waiting(cs)
      /\ \A c \in Clients : /\ Notified(cs, r)[c].rt = cs[c].rt
                            /\ Notified(cs, r)[c].need = cs[c].need
  BY NotifiedFacts
<1>3. CASE stopping \/ ~configured
  BY <1>1, <1>2, <1>3 DEF LoopTop
<1>4. CASE ~(stopping \/ ~configured)
  <2> DEFINE new == [pc |-> "refresh", rt |-> r, cancelled |-> FALSE, saw |-> Owed(cs)]
  <2>1. new \in TaskRecords
    BY DEF Owed, Waiting, TaskRecords
  <2>2. /\ task' = [task EXCEPT ![t] = new]
        /\ rt' = [rt EXCEPT ![r] = [state EXCEPT !.inFlight = TRUE]]
        /\ client' = cs
    BY <1>4 DEF LoopTop
  <2>3. task' \in [Tasks -> TaskRecords] /\ task'[t] = new
    BY <1>1, <2>1, <2>2
  <2>4. [state EXCEPT !.inFlight = TRUE] \in RuntimeRecords
    BY DEF RuntimeRecords
  <2> QED  BY <1>1, <2>2, <2>3, <2>4 DEF RuntimeRecords
<1> QED  BY <1>3, <1>4

-----------------------------------------------------------------------------
(***************************************************************************)
(* What each kind of step does to the invariant.                           *)
(***************************************************************************)
\* Task t reaches the head of its loop with the handlers as in cs, all of
\* them as far from their target as before or closer.
LEMMA LoopTopStep ==
    ASSUME WInv, NEW t \in Tasks, Active(t), ~task[t].cancelled,
           NEW r \in Runtimes, NEW state \in RuntimeRecords,
           NEW cs \in [Clients -> ClientRecords],
           Waiting(cs) = Waiting(client),
           \A c \in Waiting(client) :
              /\ cs[c].rt = client[c].rt /\ cs[c].need <= client[c].need
              /\ cs[c].rt = r /\ cs[c].need = 2 => state.wake,
           LoopTop(t, r, state, cs),
           current' \in Runtimes \union {NoRuntime},
           UNCHANGED <<configured, yaml, worker, deleting, stopping>>
    PROVE  WInv'
<1>1. TypeOK /\ task \in [Tasks -> TaskRecords] /\ client \in [Clients -> ClientRecords]
  BY Typed DEF WInv
<1>2. /\ task' \in [Tasks -> TaskRecords]
      /\ rt' \in [Runtimes -> RuntimeRecords]
      /\ client' \in [Clients -> ClientRecords]
      /\ \A u \in Tasks \ {t} : task'[u] = task[u]
      /\ \/ task'[t].pc = "done"
         \/ task'[t].pc = "refresh" /\ task'[t].rt = r
      /\ \A q \in Runtimes \ {r} : rt'[q] = rt[q]
      /\ rt'[r].wake = state.wake
      /\ Waiting(client') = Waiting(client)
      /\ \A c \in Clients : client'[c].rt = cs[c].rt /\ client'[c].need = cs[c].need
  BY <1>1, LoopTopFacts
<1>3. TypeOK'
  BY <1>1, <1>2 DEF TypeOK, TaskRecords, RuntimeRecords, ClientRecords
<1>4. t = worker /\ \A u \in Tasks : Active(u) => u = t
  BY DEF WInv, Ousted, OneActive
<1>5. RuntimeKnown' /\ Ousted' /\ OneActive'
  BY <1>2, <1>4 DEF WInv, RuntimeKnown, Ousted, OneActive, Active
<1>6. \A u \in Tasks : task'[u].pc # "waiting"
  BY <1>2, <1>4 DEF Active
<1>7. WaitingIdle' /\ WakeKept'
  BY <1>6 DEF WaitingIdle, WakeKept
<1>8. ASSUME NEW c \in Waiting(client)
      PROVE  client'[c].rt \in Runtimes /\ (client'[c].need = 2 => rt'[client'[c].rt].wake)
  <2>1. c \in Clients /\ client[c].rt \in Runtimes /\ client[c].need \in 0..2
    BY <1>1 DEF WInv, TwoOwed, Waiting, ClientRecords
  <2>2. client[c].need = 2 => rt[client[c].rt].wake
    BY DEF WInv, TwoOwed
  <2>3. /\ client'[c].rt = client[c].rt /\ client'[c].need <= client[c].need
        /\ client'[c].rt = r /\ client'[c].need = 2 => state.wake
    BY <1>2, <2>1
  <2>4. client'[c].need \in 0..2
    BY <1>2, <2>1 DEF ClientRecords
  <2>5. client'[c].need = 2 => client[c].need = 2
    BY <2>1, <2>3, <2>4
  <2> QED  BY <1>2, <2>1, <2>2, <2>3, <2>5
<1>9. TwoOwed'
  BY <1>2, <1>8 DEF TwoOwed
<1> QED  BY <1>3, <1>5, <1>7, <1>9 DEF WInv

\* Task t leaves: it ends, or closes its connection.
LEMMA LeaveStep ==
    ASSUME WInv, NEW t \in Tasks, NEW left \in TaskRecords,
           left.pc = "done" \/ (left.pc = "closing" /\ left.rt \in Runtimes),
           task' = [task EXCEPT ![t] = left],
           rt' \in [Runtimes -> RuntimeRecords],
           \A q \in Runtimes : /\ rt'[q].wake = rt[q].wake
                               /\ rt'[q].inFlight => rt[q].inFlight,
           client' = client \/ client' = Notified(client, task[t].rt),
           UNCHANGED <<configured, yaml, current, worker, deleting, stopping>>
    PROVE  WInv'
<1>1. TypeOK /\ task \in [Tasks -> TaskRecords] /\ client \in [Clients -> ClientRecords]
  BY Typed DEF WInv
<1>2. /\ client' \in [Clients -> ClientRecords]
      /\ Waiting(client') = Waiting(client)
      /\ \A c \in Clients : client'[c].rt = client[c].rt /\ client'[c].need = client[c].need
  BY <1>1, NotifiedFacts
<1>3. task' \in [Tasks -> TaskRecords] /\ task'[t] = left
      /\ \A u \in Tasks \ {t} : task'[u] = task[u]
  BY <1>1
<1>4. TypeOK'
  BY <1>1, <1>2, <1>3 DEF TypeOK, TaskRecords, RuntimeRecords, ClientRecords
<1>5. \A u \in Tasks : Active(u)' => Active(u) /\ task'[u] = task[u]
  BY <1>3 DEF Active
<1>6. RuntimeKnown'
  BY <1>3 DEF WInv, RuntimeKnown
<1>7. Ousted' /\ OneActive'
  BY <1>5 DEF WInv, Ousted, OneActive
<1>8. \A u \in Tasks : task'[u].pc = "waiting" =>
        task'[u] = task[u] /\ task[u].pc = "waiting" /\ task[u].rt \in Runtimes
  BY <1>3 DEF WInv, RuntimeKnown
<1>9. \A c \in Waiting(client) : c \in Clients
  BY DEF Waiting
<1>10. WaitingIdle' /\ WakeKept'
  BY <1>2, <1>8, <1>9 DEF WInv, WaitingIdle, WakeKept
<1>11. TwoOwed'
  BY <1>2, <1>9 DEF WInv, TwoOwed
<1> QED  BY <1>4, <1>6, <1>7, <1>10, <1>11 DEF WInv

\* The worker is forgotten, and cancelled.
LEMMA CancelStep ==
    ASSUME WInv, task' = Cancel(worker), worker' = NoTask,
           configured' \in BOOLEAN, yaml' \in BOOLEAN, stopping' \in BOOLEAN,
           current' \in Runtimes \union {NoRuntime},
           deleting' \in Tasks \union {NoTask},
           UNCHANGED <<rt, client>>
    PROVE  WInv'
<1>1. TypeOK /\ task \in [Tasks -> TaskRecords] /\ worker \in Tasks \union {NoTask}
  BY Typed DEF WInv, TypeOK
<1>2. /\ task' \in [Tasks -> TaskRecords]
      /\ \A u \in Tasks : /\ task'[u].pc = task[u].pc /\ task'[u].rt = task[u].rt
                          /\ task[u].cancelled => task'[u].cancelled
                          /\ u = worker /\ Alive(worker) => task'[u].cancelled
  BY <1>1 DEF Cancel, Alive, TaskRecords
<1>3. TypeOK'
  BY <1>1, <1>2 DEF TypeOK, TaskRecords
<1>4. \A u \in Tasks : Active(u)' => Active(u) /\ Alive(u)
  BY <1>2, NamesAssumption DEF Active, Alive
<1>5. Ousted' /\ OneActive'
  BY <1>2, <1>4 DEF WInv, Ousted, OneActive
<1>6. RuntimeKnown' /\ WaitingIdle' /\ WakeKept' /\ TwoOwed'
  BY <1>2 DEF WInv, RuntimeKnown, WaitingIdle, WakeKept, TwoOwed
<1> QED  BY <1>3, <1>5, <1>6 DEF WInv

\* Neither tasks nor handlers move.
LEMMA IdleStep ==
    ASSUME WInv, UNCHANGED <<task, rt, client, worker>>,
           configured' \in BOOLEAN, yaml' \in BOOLEAN, stopping' \in BOOLEAN,
           current' \in Runtimes \union {NoRuntime},
           deleting' \in Tasks \union {NoTask}
    PROVE  WInv'
<1>1. TypeOK'
  BY DEF WInv, TypeOK
<1>2. RuntimeKnown' /\ Ousted' /\ OneActive'
  BY DEF WInv, RuntimeKnown, Ousted, OneActive, Active
<1>3. WaitingIdle' /\ WakeKept' /\ TwoOwed'
  BY DEF WInv, WaitingIdle, WakeKept, TwoOwed
<1> QED  BY <1>1, <1>2, <1>3 DEF WInv

-----------------------------------------------------------------------------
(***************************************************************************)
(* The actions.                                                            *)
(***************************************************************************)
\* The runtime of the view is the current one, or a new one nobody knows.
LEMMA SetDefaultFacts ==
    ASSUME TypeOK, NEW r \in Runtimes,
           NEW state \in {NewRuntime} \union {rt[q] : q \in Runtimes}, SetDefault(r, state)
    PROVE  /\ state \in RuntimeRecords /\ current' = r
           /\ state = rt[r] \/ (state = NewRuntime /\ Unreferenced(r))
BY Typed DEF SetDefault

LEMMA BeginStep ==
    ASSUME WInv, NEW t \in Tasks, Begin(t)
    PROVE  WInv'
<1>1. TypeOK /\ client \in [Clients -> ClientRecords]
  BY Typed DEF WInv
<1>2. PICK r \in Runtimes, state \in {NewRuntime} \union {rt[q] : q \in Runtimes} :
        SetDefault(r, state) /\ LoopTop(t, r, state, client)
  BY DEF Begin
<1>3. /\ state \in RuntimeRecords /\ current' = r
      /\ state = rt[r] \/ (state = NewRuntime /\ Unreferenced(r))
  BY <1>1, <1>2, SetDefaultFacts
<1>4. ASSUME NEW c \in Waiting(client)
      PROVE  /\ client[c].rt = client[c].rt /\ client[c].need <= client[c].need
             /\ client[c].rt = r /\ client[c].need = 2 => state.wake
  <2>1. c \in Clients /\ client[c].need \in 0..2
    BY <1>1 DEF Waiting, ClientRecords
  <2>2. client[c].need = 2 => rt[client[c].rt].wake
    BY DEF WInv, TwoOwed
  <2> QED  BY <1>3, <2>1, <2>2 DEF Unreferenced
<1>5. Active(t) /\ ~task[t].cancelled /\ UNCHANGED <<configured, yaml, worker, deleting, stopping>>
  BY DEF Begin, Active
<1> QED  BY <1>1, <1>2, <1>3, <1>4, <1>5, LoopTopStep

LEMMA FinishRefreshStep ==
    ASSUME WInv, NEW t \in Tasks, FinishRefresh(t)
    PROVE  WInv'
<1> DEFINE r == task[t].rt
           cs == Notified(Bumped(t), r)
<1>1. /\ TypeOK /\ task \in [Tasks -> TaskRecords] /\ rt \in [Runtimes -> RuntimeRecords]
      /\ client \in [Clients -> ClientRecords]
      /\ NewRuntime \in RuntimeRecords /\ ~NewRuntime.wake /\ ~NewRuntime.inFlight
  BY Typed DEF WInv
<1>2. /\ task[t].pc = "refresh" /\ ~task[t].cancelled /\ Active(t)
      /\ UNCHANGED <<configured, yaml, current, worker, deleting, stopping>>
  BY DEF FinishRefresh, Active
<1>3. r \in Runtimes
  BY <1>2 DEF WInv, RuntimeKnown
<1>4. /\ Bumped(t) \in [Clients -> ClientRecords]
      /\ Waiting(Bumped(t)) = Waiting(client)
      /\ \A c \in Waiting(client) :
            /\ Bumped(t)[c].rt = client[c].rt
            /\ Bumped(t)[c].need <= client[c].need
            /\ client[c].rt = task[t].rt =>
                  Bumped(t)[c].need = IF client[c].need > 0 THEN client[c].need - 1 ELSE 0
  BY <1>1, BumpedFacts
<1>5. /\ cs \in [Clients -> ClientRecords]
      /\ Waiting(cs) = Waiting(Bumped(t))
      /\ \A c \in Clients : cs[c].rt = Bumped(t)[c].rt /\ cs[c].need = Bumped(t)[c].need
  BY <1>4, NotifiedFacts
<1> HIDE DEF cs
<1>6. ASSUME NEW c \in Waiting(client)
      PROVE  /\ c \in Clients /\ client[c].need \in 0..2 /\ cs[c].need \in 0..2
             /\ client[c].rt \in Runtimes
             /\ client[c].need = 2 => rt[client[c].rt].wake
             /\ cs[c].rt = client[c].rt /\ cs[c].need <= client[c].need
             /\ cs[c].rt = r => cs[c].need < 2
             /\ cs[c].rt = r /\ ~rt[r].wake => cs[c].need = 0
  <2>1. c \in Clients /\ client[c].need \in 0..2
    BY <1>1 DEF Waiting, ClientRecords
  <2>2. cs[c].need \in 0..2 /\ cs[c].rt = client[c].rt /\ cs[c].need <= client[c].need
    BY <1>4, <1>5, <2>1 DEF ClientRecords
  <2>3. client[c].rt \in Runtimes /\ (client[c].need = 2 => rt[client[c].rt].wake)
    BY DEF WInv, TwoOwed
  <2>4. client[c].rt = r => cs[c].need = IF client[c].need > 0 THEN client[c].need - 1 ELSE 0
    BY <1>4, <1>5, <2>1
  <2> QED  BY <2>1, <2>2, <2>3, <2>4
<1>7. CASE rt[r].wake
  <2>1. LoopTop(t, r, NewRuntime, cs)
    BY <1>7 DEF FinishRefresh, cs
  <2>2. current' \in Runtimes \union {NoRuntime} /\ Waiting(cs) = Waiting(client)
    BY <1>1, <1>2, <1>4, <1>5 DEF TypeOK
  <2>3. \A c \in Waiting(client) :
          /\ cs[c].rt = client[c].rt /\ cs[c].need <= client[c].need
          /\ cs[c].rt = r /\ cs[c].need = 2 => NewRuntime.wake
    BY <1>6
  <2> HIDE DEF r
  <2> QED  BY <1>1, <1>2, <1>3, <1>5, <2>1, <2>2, <2>3, LoopTopStep
<1>8. CASE ~rt[r].wake
  <2>1. /\ task' = [task EXCEPT ![t].pc = "waiting", ![t].saw = {}]
        /\ rt' = [rt EXCEPT ![r] = NewRuntime]
        /\ client' = cs
    BY <1>8 DEF FinishRefresh, cs
  <2>2. /\ task' \in [Tasks -> TaskRecords]
        /\ task'[t].pc = "waiting" /\ task'[t].rt = r /\ task'[t].cancelled = task[t].cancelled
        /\ \A u \in Tasks \ {t} : task'[u] = task[u]
    BY <1>1, <2>1 DEF TaskRecords
  <2>3. rt' \in [Runtimes -> RuntimeRecords] /\ rt'[r] = NewRuntime
        /\ \A q \in Runtimes \ {r} : rt'[q] = rt[q]
    BY <1>1, <1>3, <2>1
  <2>4. TypeOK'
    BY <1>1, <1>2, <1>5, <2>1, <2>2, <2>3 DEF TypeOK, TaskRecords, RuntimeRecords, ClientRecords
  <2>5. \A u \in Tasks : Active(u)' <=> Active(u)
    BY <1>2, <2>2 DEF Active
  <2>6. RuntimeKnown' /\ Ousted' /\ OneActive'
    BY <1>2, <1>3, <2>2, <2>5 DEF WInv, RuntimeKnown, Ousted, OneActive
  <2>7. \A u \in Tasks : task'[u].pc = "waiting" => u = t
    BY <1>2, <2>2 DEF WInv, OneActive, Active
  <2>8. Waiting(client') = Waiting(client)
    BY <1>4, <1>5, <2>1
  <2>9. WaitingIdle' /\ WakeKept'
    BY <1>1, <1>6, <1>8, <2>1, <2>2, <2>3, <2>7, <2>8 DEF WaitingIdle, WakeKept
  <2>10. ASSUME NEW c \in Waiting(client)
         PROVE  client'[c].rt \in Runtimes /\ (client'[c].need = 2 => rt'[client'[c].rt].wake)
    BY <1>6, <2>1, <2>3
  <2>11. TwoOwed'
    BY <2>8, <2>10 DEF TwoOwed
  <2> QED  BY <2>4, <2>6, <2>9, <2>11 DEF WInv
<1> QED  BY <1>7, <1>8

LEMMA WakeUpStep ==
    ASSUME WInv, NEW t \in Tasks, WakeUp(t)
    PROVE  WInv'
<1> DEFINE r == task[t].rt
           state == [rt[r] EXCEPT !.wake = FALSE]
<1>1. TypeOK /\ rt \in [Runtimes -> RuntimeRecords] /\ client \in [Clients -> ClientRecords]
  BY Typed DEF WInv
<1>2. /\ task[t].pc = "waiting" /\ ~task[t].cancelled /\ Active(t)
      /\ LoopTop(t, r, state, client)
      /\ UNCHANGED <<configured, yaml, current, worker, deleting, stopping>>
  BY DEF WakeUp, Active
<1>3. r \in Runtimes /\ state \in RuntimeRecords
  BY <1>1, <1>2 DEF WInv, RuntimeKnown, RuntimeRecords
<1>4. \A c \in Waiting(client) :
        /\ client[c].rt = client[c].rt /\ client[c].need <= client[c].need
        /\ client[c].rt = r /\ client[c].need = 2 => state.wake
  <2>1. \A c \in Waiting(client) : client[c].need \in 0..2
    BY <1>1 DEF Waiting, ClientRecords
  <2>2. \A c \in Waiting(client) : client[c].rt = r => client[c].need < 2
    BY <1>2 DEF WInv, WaitingIdle
  <2> QED  BY <2>1, <2>2
<1>5. current \in Runtimes \union {NoRuntime}
  BY <1>1 DEF TypeOK
<1> HIDE DEF state
<1> QED  BY <1>1, <1>2, <1>3, <1>4, <1>5, LoopTopStep

LEMMA DeliverCancelStep ==
    ASSUME WInv, NEW t \in Tasks, DeliverCancel(t)
    PROVE  WInv'
<1>1. /\ TypeOK /\ task \in [Tasks -> TaskRecords] /\ rt \in [Runtimes -> RuntimeRecords]
      /\ Done \in TaskRecords /\ Done.pc = "done"
  BY Typed DEF WInv, Done
<1>2. rt' = rt /\ UNCHANGED <<configured, yaml, current, worker, deleting, stopping>>
  BY DEF DeliverCancel
<1>3. CASE task[t].pc = "created" /\ task' = [task EXCEPT ![t] = Done] /\ UNCHANGED client
  BY <1>1, <1>2, <1>3, LeaveStep
<1>4. CASE task[t].pc = "waiting" /\ Unwind(t, task[t].rt)
  <2>1. task' = [task EXCEPT ![t] = Done] /\ client' = Notified(client, task[t].rt)
    BY <1>4 DEF Unwind
  <2> QED  BY <1>1, <1>2, <2>1, LeaveStep
<1>5. CASE /\ task[t].pc = "refresh"
           /\ task' = [task EXCEPT ![t].pc = "closing", ![t].cancelled = FALSE]
           /\ UNCHANGED client
  <2> DEFINE left == [task[t] EXCEPT !.pc = "closing", !.cancelled = FALSE]
  <2>1. left \in TaskRecords /\ left.pc = "closing" /\ left.rt = task[t].rt
    BY <1>1 DEF TaskRecords
  <2>2. task' = [task EXCEPT ![t] = left]
    BY <1>1, <1>5
  <2>3. task[t].rt \in Runtimes
    BY <1>5 DEF WInv, RuntimeKnown
  <2> HIDE DEF left
  <2> QED  BY <1>1, <1>2, <1>5, <2>1, <2>2, <2>3, LeaveStep
<1> QED  BY <1>3, <1>4, <1>5 DEF DeliverCancel

LEMMA ClosedStep ==
    ASSUME WInv, NEW t \in Tasks, Closed(t)
    PROVE  WInv'
<1>1. /\ TypeOK /\ task \in [Tasks -> TaskRecords] /\ rt \in [Runtimes -> RuntimeRecords]
      /\ Done \in TaskRecords /\ Done.pc = "done"
  BY Typed DEF WInv, Done
<1>2. /\ task' = [task EXCEPT ![t] = Done] /\ client' = Notified(client, task[t].rt)
      /\ UNCHANGED <<configured, yaml, current, worker, deleting, stopping>>
      /\ rt' = [rt EXCEPT ![task[t].rt].inFlight = FALSE]
  BY DEF Closed, Unwind
<1>3. /\ rt' \in [Runtimes -> RuntimeRecords]
      /\ \A q \in Runtimes : /\ rt'[q].wake = rt[q].wake
                             /\ rt'[q].inFlight => rt[q].inFlight
  BY <1>1, <1>2 DEF RuntimeRecords
<1> QED  BY <1>1, <1>2, <1>3, LeaveStep

\* The supervisor spawns t: nothing else is active, for what was ousted is
\* gone by then (Settled).
LEMMA SpawnStep ==
    ASSUME WInv, Settled, ~Alive(worker), NEW t \in Tasks,
           worker' = t, task' = [task EXCEPT ![t] = Created],
           configured' \in BOOLEAN,
           UNCHANGED <<yaml, current, rt, client, deleting, stopping>>
    PROVE  WInv'
<1>1. TypeOK /\ task \in [Tasks -> TaskRecords] /\ Created \in TaskRecords
      /\ Created.pc = "created"
  BY Typed DEF WInv, Created, Done
<1>2. \A u \in Tasks : ~Active(u)
  <2>1. SUFFICES ASSUME NEW u \in Tasks, Active(u) PROVE FALSE
    OBVIOUS
  <2>2. u = worker
    BY <2>1 DEF WInv, Ousted, Settled
  <2> QED  BY <2>1, <2>2, NamesAssumption DEF Alive, Active
<1>3. task' \in [Tasks -> TaskRecords] /\ task'[t].pc = "created"
      /\ \A u \in Tasks \ {t} : task'[u] = task[u]
  BY <1>1
<1>4. TypeOK'
  BY <1>1, <1>3 DEF TypeOK, TaskRecords
<1>5. \A u \in Tasks : Active(u)' => u = t
  BY <1>2, <1>3 DEF Active
<1>6. RuntimeKnown' /\ Ousted' /\ OneActive'
  BY <1>3, <1>5 DEF WInv, RuntimeKnown, Ousted, OneActive
<1>7. \A u \in Tasks : task'[u].pc # "waiting"
  BY <1>2, <1>3 DEF Active
<1>8. WaitingIdle' /\ WakeKept' /\ TwoOwed'
  BY <1>7 DEF WInv, WaitingIdle, WakeKept, TwoOwed
<1> QED  BY <1>4, <1>6, <1>8 DEF WInv

LEMMA SupervisorTickStep ==
    ASSUME WInv, SupervisorTick
    PROVE  WInv'
<1>1. /\ configured' \in BOOLEAN /\ yaml' \in BOOLEAN /\ stopping' \in BOOLEAN
      /\ current' \in Runtimes \union {NoRuntime} /\ deleting' \in Tasks \union {NoTask}
      /\ worker \in Tasks \union {NoTask}
  BY DEF WInv, TypeOK, SupervisorTick, ReloadConfig
<1>2. Settled /\ UNCHANGED <<yaml, current, rt, client, deleting, stopping>>
  BY DEF SupervisorTick
<1>3. CASE configured' /\ Alive(worker) /\ UNCHANGED <<worker, task>>
  BY <1>1, <1>2, <1>3, IdleStep
<1>4. CASE /\ configured' /\ ~Alive(worker)
           /\ \E t \in Tasks : worker' = t /\ task' = [task EXCEPT ![t] = Created]
  BY <1>1, <1>2, <1>4, SpawnStep
<1>5. CASE ~configured' /\ task' = Cancel(worker) /\ worker' = NoTask
  BY <1>1, <1>2, <1>5, CancelStep
<1> QED  BY <1>3, <1>4, <1>5 DEF SupervisorTick, SyncWorkers

LEMMA TriggerStep ==
    ASSUME WInv, NEW c \in Clients, Trigger(c)
    PROVE  WInv'
<1>1. /\ TypeOK /\ task \in [Tasks -> TaskRecords] /\ rt \in [Runtimes -> RuntimeRecords]
      /\ client \in [Clients -> ClientRecords] /\ ~NewRuntime.inFlight
  BY Typed DEF WInv
<1>2. PICK r \in Runtimes, state \in {NewRuntime} \union {rt[q] : q \in Runtimes} :
        /\ SetDefault(r, state)
        /\ rt' = [rt EXCEPT ![r] = [state EXCEPT !.wake = TRUE]]
        /\ client' = [client EXCEPT ![c] =
              [pc |-> "parked", rt |-> r, observed |-> FALSE, need |-> Target(state)]]
  BY DEF Trigger
<1>3. UNCHANGED <<configured, yaml, worker, task, deleting, stopping>>
  BY DEF Trigger
<1>4. /\ state \in RuntimeRecords /\ current' = r
      /\ state = rt[r] \/ (state = NewRuntime /\ Unreferenced(r))
  BY <1>1, <1>2, SetDefaultFacts
<1>5. Target(state) \in {1, 2} /\ (Target(state) = 2 => state.inFlight)
  BY <1>4 DEF Target, RuntimeRecords
<1>6. /\ rt' \in [Runtimes -> RuntimeRecords] /\ rt'[r].wake /\ rt'[r].inFlight = state.inFlight
      /\ \A q \in Runtimes \ {r} : rt'[q] = rt[q]
  BY <1>1, <1>2, <1>4 DEF RuntimeRecords
<1>7. /\ client' \in [Clients -> ClientRecords]
      /\ client'[c].rt = r /\ client'[c].need = Target(state)
      /\ \A d \in Clients \ {c} : client'[d] = client[d]
  BY <1>1, <1>2, <1>5 DEF ClientRecords
<1>8. \A d \in Waiting(client') : d \in Clients /\ (d # c => d \in Waiting(client) /\ client'[d] = client[d])
  BY <1>7 DEF Waiting
<1>9. TypeOK'
  BY <1>1, <1>3, <1>4, <1>6, <1>7 DEF TypeOK, RuntimeRecords, ClientRecords
<1>10. RuntimeKnown' /\ Ousted' /\ OneActive'
  BY <1>3 DEF WInv, RuntimeKnown, Ousted, OneActive, Active
<1>11. \A t \in Tasks : task[t].pc = "waiting" =>
         task[t].rt \in Runtimes /\ (task[t].rt = r => state = rt[r] /\ ~state.inFlight)
  BY <1>4 DEF WInv, RuntimeKnown, WaitingIdle, Unreferenced
<1>12. WaitingIdle'
  <2>1. SUFFICES ASSUME NEW t \in Tasks, task[t].pc = "waiting"
                 PROVE  /\ ~rt'[task[t].rt].inFlight
                        /\ \A d \in Waiting(client') :
                              client'[d].rt = task[t].rt => client'[d].need < 2
    BY <1>3 DEF WaitingIdle
  <2>2. ~rt'[task[t].rt].inFlight
    BY <1>6, <1>11, <2>1 DEF WInv, WaitingIdle
  <2>3. ASSUME NEW d \in Waiting(client'), client'[d].rt = task[t].rt
        PROVE  client'[d].need < 2
    BY <1>5, <1>7, <1>8, <1>11, <2>1, <2>3 DEF WInv, WaitingIdle
  <2> QED  BY <2>2, <2>3
<1>13. WakeKept'
  <2>1. SUFFICES ASSUME NEW t \in Tasks, task[t].pc = "waiting", task[t].rt # r,
                        NEW d \in Waiting(client'),
                        client'[d].rt = task[t].rt, client'[d].need > 0
                 PROVE  rt'[task[t].rt].wake
    BY <1>3, <1>6 DEF WakeKept
  <2> QED  BY <1>6, <1>7, <1>8, <1>11, <2>1 DEF WInv, WakeKept
<1>14. TwoOwed'
  <2>1. SUFFICES ASSUME NEW d \in Waiting(client')
                 PROVE  client'[d].rt \in Runtimes
                        /\ (client'[d].need = 2 => rt'[client'[d].rt].wake)
    BY DEF TwoOwed
  <2> QED  BY <1>6, <1>7, <1>8 DEF WInv, TwoOwed
<1> QED  BY <1>9, <1>10, <1>12, <1>13, <1>14 DEF WInv

\* A handler checks its condition again, or answers.
LEMMA HandlerStep ==
    ASSUME WInv, NEW c \in Clients, Resume(c) \/ Respond(c)
    PROVE  WInv'
<1>1. TypeOK /\ client \in [Clients -> ClientRecords] /\ IdleClient \in ClientRecords
  BY Typed DEF WInv
<1>2. UNCHANGED <<configured, yaml, current, worker, task, rt, deleting, stopping>>
  BY DEF Resume, Respond
<1>3. /\ client' \in [Clients -> ClientRecords]
      /\ \A d \in Waiting(client') : /\ d \in Waiting(client)
                                     /\ client'[d].rt = client[d].rt
                                     /\ client'[d].need = client[d].need
  <2>1. CASE Resume(c)
    <3> DEFINE pc == IF client[c].need = 0 THEN "ok" ELSE IF ~configured THEN "gone" ELSE "parked"
    <3>1. client' = [client EXCEPT ![c].pc = pc] /\ client[c].pc = "woken"
      BY <2>1 DEF Resume
    <3>2. pc \in {"ok", "gone", "parked"}
      OBVIOUS
    <3> HIDE DEF pc
    <3> QED  BY <1>1, <3>1, <3>2 DEF Waiting, ClientRecords
  <2>2. CASE Respond(c)
    <3>1. client' = [client EXCEPT ![c] = IdleClient] /\ IdleClient.pc = "idle"
      BY <2>2 DEF Respond, IdleClient
    <3> QED  BY <1>1, <3>1 DEF Waiting
  <2> QED  BY <2>1, <2>2
<1>4. TypeOK'
  BY <1>1, <1>2, <1>3 DEF TypeOK, ClientRecords
<1>5. RuntimeKnown' /\ Ousted' /\ OneActive'
  BY <1>2 DEF WInv, RuntimeKnown, Ousted, OneActive, Active
<1>6. WaitingIdle' /\ WakeKept' /\ TwoOwed'
  BY <1>2, <1>3 DEF WInv, WaitingIdle, WakeKept, TwoOwed
<1> QED  BY <1>4, <1>5, <1>6 DEF WInv

\* Stop, the other requests, and edits of views.yaml.
LEMMA OtherStep ==
    ASSUME WInv, Stop \/ StopWorkers \/ CreateView \/ DeleteView \/ DeleteEnds \/ EditYaml
    PROVE  WInv'
<1>1. /\ configured \in BOOLEAN /\ yaml \in BOOLEAN /\ stopping \in BOOLEAN
      /\ current \in Runtimes \union {NoRuntime} /\ deleting \in Tasks \union {NoTask}
      /\ worker \in Tasks \union {NoTask}
  BY DEF WInv, TypeOK
<1>2. CASE Stop \/ CreateView \/ DeleteEnds \/ EditYaml
  BY <1>1, <1>2, IdleStep DEF Stop, CreateView, DeleteEnds, EditYaml
<1>3. CASE StopWorkers
  BY <1>1, <1>3, CancelStep DEF StopWorkers
<1>4. CASE DeleteView
  <2>1. current' \in Runtimes \union {NoRuntime} /\ deleting' \in Tasks \union {NoTask}
    BY <1>1, <1>4 DEF DeleteView
  <2> QED  BY <1>1, <1>4, <2>1, CancelStep DEF DeleteView
<1> QED  BY <1>2, <1>3, <1>4

-----------------------------------------------------------------------------
(***************************************************************************)
(* The theorems.                                                           *)
(***************************************************************************)
LEMMA InitWInv == Init => WInv
<1> SUFFICES ASSUME Init PROVE WInv
  OBVIOUS
<1>1. TypeOK
  <2>1. /\ task \in [Tasks -> TaskRecords] /\ rt \in [Runtimes -> RuntimeRecords]
        /\ client \in [Clients -> ClientRecords]
    BY DEF Init, Done, NewRuntime, IdleClient, TaskRecords, RuntimeRecords, ClientRecords
  <2> QED  BY <2>1 DEF Init, TypeOK, TaskRecords, RuntimeRecords, ClientRecords
<1>2. \A t \in Tasks : task[t].pc = "done"
  BY DEF Init, Done
<1>3. Waiting(client) = {}
  BY DEF Init, Waiting, IdleClient
<1> QED  BY <1>1, <1>2, <1>3 DEF WInv, RuntimeKnown, Ousted, OneActive, Active,
                              WaitingIdle, WakeKept, TwoOwed

LEMMA NextWInv == WInv /\ [Next]_vars => WInv'
<1> SUFFICES ASSUME WInv, [Next]_vars PROVE WInv'
  OBVIOUS
<1>1. CASE \E t \in Tasks : TaskStep(t)
  BY <1>1, BeginStep, FinishRefreshStep, WakeUpStep, DeliverCancelStep, ClosedStep DEF TaskStep
<1>2. CASE SupervisorTick
  BY <1>2, SupervisorTickStep
<1>3. CASE \E c \in Clients : Trigger(c) \/ Resume(c) \/ Respond(c)
  BY <1>3, TriggerStep, HandlerStep
<1>4. CASE Stop \/ StopWorkers \/ CreateView \/ DeleteView \/ DeleteEnds \/ EditYaml
  BY <1>4, OtherStep
<1>5. CASE UNCHANGED vars
  <2>1. UNCHANGED <<task, rt, client, worker, configured, yaml, stopping, current, deleting>>
    BY <1>5 DEF vars
  <2> QED  BY <2>1, IdleStep DEF WInv, TypeOK
<1> QED  BY <1>1, <1>2, <1>3, <1>4, <1>5 DEF Next

\* The invariant holds in every state of the workers, fair or not.
THEOREM WorkerInvariance == Spec => []WInv
<1>1. Init => WInv
  BY InitWInv
<1>2. WInv /\ [Next]_vars => WInv'
  BY NextWInv
<1> QED  BY <1>1, <1>2, PTL DEF Spec

\* Every variable stays in its range (server.py's worker bookkeeping).
THEOREM WorkerTypeCorrect == Spec => []TypeOK
<1>1. WInv => TypeOK
  BY DEF WInv
<1> QED  BY <1>1, WorkerInvariance, PTL

\* No two refreshes of one view run at once, whatever deletes, creates and
\* reloads replaced its worker, and with any number of tasks.
THEOREM RefreshesAreSequential == Spec => []RefreshesSequential
<1>1. WInv => RefreshesSequential
  BY DEF WInv, OneActive, Active, RefreshesSequential
<1> QED  BY <1>1, WorkerInvariance, PTL

\* While a handler of POST /refresh is parked short of its target, the worker
\* of its runtime does not wait without a wake, with any number of handlers.
THEOREM NoWakeIsLost == Spec => []NoLostWake
<1>1. WInv => NoLostWake
  BY DEF WInv, WakeKept, Waiting, NoLostWake
<1> QED  BY <1>1, WorkerInvariance, PTL
=============================================================================
