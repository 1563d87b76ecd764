-------------------------- MODULE ViewStateProofs ---------------------------
(***************************************************************************)
(* Theorems about ViewState in steady use, for any number of operations,   *)
(* identities and configurations and any interval: the bookmark belongs to *)
(* the view, counters survive restarts, maintenance keeps its distance.    *)
(***************************************************************************)
EXTENDS ViewState, FiniteSetTheorems, WellFoundedInduction, TLAPS

-----------------------------------------------------------------------------
(***************************************************************************)
(* The inductive invariant.                                                *)
(***************************************************************************)
\* The service has loaded its views, runs with history, and never deletes a
\* view under a tick.
Served == conf # Unloaded /\ history /\ orphan = NoStatus

OneIdentity == file \in Config /\ conf \in Config => file.id = conf.id

\* BookmarkBelongs, for the entry in views.yaml as well.
BookmarkOwned ==
    row.bookmark # NoBookmark =>
        /\ row.bookmark.sound
        /\ file \in Config => row.bookmark.id = file.id
        /\ conf \in Config => row.bookmark.id = conf.id

\* A tick works for the view that is configured.
TickOwned ==
    ~Idle => /\ conf \in Config /\ tick.conf \in Config /\ tick.conf.id = conf.id
             /\ tick.bookmark # NoBookmark =>
                    tick.bookmark.sound /\ tick.bookmark.id = tick.conf.id

DeleteAlone == deleting => Idle /\ file \notin Config /\ conf \notin Config /\ ~forgotten

NothingLeft ==
    forgotten => /\ conf \notin Config /\ Idle
                 /\ status = NoStatus /\ row = NoRows /\ ran = Unrun

\* A name that has rows but no status stays unused until the next delete.
StatusKept == status = NoStatus => forgotten \/ (file \notin Config /\ conf \notin Config)

CountersKept == status # NoStatus => row.total <= status.total

\* Memory and state.db agree with the facts, but for unsaved successes.
LastKept ==
    \A i \in OpIds \ unsaved :
        row.last[i] = ran[i] /\ (status # NoStatus => status.last[i] = ran[i])

\* What is still to do was due when the tick read the clock, and is now.
TodoDue ==
    pc \in {"op", "save"} =>
        /\ tick.todo # {}
        /\ \A i \in tick.todo : Due(status.last[i]) \/ (pc = "save" /\ i = Op)

SInv ==
    /\ TypeOK
    /\ Served /\ OneIdentity /\ BookmarkOwned /\ TickOwned
    /\ DeleteAlone /\ NothingLeft /\ StatusKept
    /\ CountersKept /\ LastKept /\ TodoDue

-----------------------------------------------------------------------------
(***************************************************************************)
(* Operations in their order, ages and records.                            *)
(***************************************************************************)
\* The loop of maintain_view has a next operation while any is left.
LEMMA MinExists ==
    ASSUME NEW S, S \subseteq OpIds, S # {}
    PROVE  Min(S) \in S
<1> DEFINE R == StrictSubsetOrdering(OpIds)
           T == {1..x : x \in S}
<1>1. NumOps \in Nat /\ OpIds = 1..NumOps
  BY StateAssumption DEF OpIds
<1>2. IsWellFoundedOn(R, SUBSET OpIds)
  <2>1. IsFiniteSet(OpIds)
    BY <1>1, FS_Interval
  <2> QED  BY <2>1, FS_StrictSubsetOrderingWellFounded, FS_FiniteSubsetsOfFinite
<1>3. T \subseteq SUBSET OpIds /\ T # {}
  <2>1. \A x \in S : 1..x \subseteq OpIds
    BY <1>1
  <2> QED  BY <2>1
<1>4. PICK t \in T : \A u \in T : ~(<<u, t>> \in R)
  <2> HIDE DEF R, T
  <2> QED  BY <1>2, <1>3, WFMin
<1>5. PICK x \in S : t = 1..x
  OBVIOUS
<1>6. \A y \in S : x <= y
  <2>1. SUFFICES ASSUME NEW y \in S, y < x PROVE FALSE
    BY <1>1
  <2>2. 1..y \subseteq 1..x /\ x \in 1..x /\ x \notin 1..y
    BY <1>1, <2>1
  <2>3. <<1..y, 1..x>> \in R
    BY <1>1, <1>3, <2>2 DEF StrictSubsetOrdering
  <2> QED  BY <1>4, <1>5, <2>3
<1> QED  BY <1>6 DEF Min

LEMMA AgeFacts ==
    /\ Interval \in Nat \ {0}
    /\ 0 \in Ages /\ Never \in Ages /\ Ages \subseteq Nat
    /\ Older(Never) = Never
    /\ \A age \in Ages : Older(age) \in Ages /\ (Due(age) => Due(Older(age)))
BY StateAssumption DEF Ages, Never, Older, Due

LEMMA RecordFacts ==
    /\ Unrun \in [OpIds -> Ages] /\ OlderAll(Unrun) = Unrun
    /\ NoStatus \in Statuses /\ Fresh \in Statuses /\ Fresh # NoStatus
    /\ NoStatus.total = -1 /\ NoStatus.last = Unrun
    /\ Fresh.total = 0 /\ Fresh.last = Unrun
    /\ NoBookmark \in Bookmarks
    /\ NoRows.total = 0 /\ NoRows.bookmark = NoBookmark /\ NoRows.last = Unrun
<1>1. Unrun \in [OpIds -> Ages]
  BY AgeFacts DEF Unrun
<1>2. OlderAll(Unrun) = Unrun
  BY AgeFacts DEF Unrun, OlderAll
<1>3. MaxTotal \in Nat
  BY StateAssumption
<1>4. NoStatus \in Statuses /\ Fresh \in Statuses
  BY <1>1, <1>3 DEF NoStatus, Fresh, Statuses
<1>5. /\ NoStatus.total = -1 /\ NoStatus.last = Unrun
      /\ Fresh.total = 0 /\ Fresh.last = Unrun
  BY DEF NoStatus, Fresh
<1>6. Fresh # NoStatus
  BY <1>5
<1>7. /\ NoBookmark \in Bookmarks
      /\ NoRows.total = 0 /\ NoRows.bookmark = NoBookmark /\ NoRows.last = Unrun
  BY DEF Bookmarks, NoRows
<1> QED  BY <1>1, <1>2, <1>4, <1>5, <1>6, <1>7

\* The markers are no configurations of a view.
LEMMA ConfigFacts ==
    /\ NoView \notin Config /\ Broken \notin Config /\ Unloaded \notin Config
    /\ NoView # Unloaded
    /\ \A c \in Config : c.id \notin {NoView.id, Broken.id, Unloaded.id, NoBookmark.id}
BY IdentityAssumption DEF Config, NoView, Broken, Unloaded, NoBookmark

Rows == [total : 0..MaxTotal, bookmark : Bookmarks, last : [OpIds -> Ages]]
Ticks == [conf : Config \union {NoView}, bookmark : Bookmarks, todo : SUBSET OpIds]

\* What TypeOK says of the records, and what a served state looks like.
LEMMA StateFacts ==
    ASSUME SInv
    PROVE  /\ status \in Statuses /\ row \in Rows /\ tick \in Ticks
           /\ NoTick \in Ticks /\ NoRows \in Rows
           /\ ran \in [OpIds -> Ages] /\ unsaved \in SUBSET OpIds
           /\ history /\ orphan = NoStatus /\ Held = status
           /\ status # NoStatus => status.total \in 0..MaxTotal
           /\ \A vs : Hold(vs) <=> status' = vs /\ UNCHANGED orphan
<1>1. /\ status \in Statuses /\ row \in Rows /\ tick \in Ticks
      /\ ran \in [OpIds -> Ages] /\ unsaved \in SUBSET OpIds
  BY DEF SInv, TypeOK, Rows, Ticks
<1>2. NoRows \in Rows
  BY RecordFacts, StateAssumption DEF NoRows, Rows
<1>3. NoTick \in Ticks
  BY RecordFacts DEF NoTick, Ticks
<1>4. history /\ orphan = NoStatus
  BY DEF SInv, Served
<1>5. Held = status /\ \A vs : Hold(vs) <=> status' = vs /\ UNCHANGED orphan
  BY <1>4 DEF Held, Hold
<1>6. status # NoStatus => status.total \in 0..MaxTotal
  <2>1. row.total \in 0..MaxTotal /\ status.total \in -1..MaxTotal
    BY <1>1 DEF Rows, Statuses
  <2>2. status # NoStatus => row.total <= status.total
    BY DEF SInv, CountersKept
  <2> QED  BY <2>1, <2>2, StateAssumption
<1> QED  BY <1>1, <1>2, <1>3, <1>4, <1>5, <1>6

\* A configured view has a status, and rows of its own.
LEMMA ConfiguredFacts ==
    ASSUME SInv, conf \in Config
    PROVE  ~forgotten /\ ~deleting /\ status # NoStatus /\ SetDefault(status) = status
BY DEF SInv, NothingLeft, DeleteAlone, StatusKept, SetDefault

-----------------------------------------------------------------------------
(***************************************************************************)
(* The actions.                                                            *)
(***************************************************************************)
LEMMA StartTickStep ==
    ASSUME SInv, StartTick
    PROVE  SInv'
<1>1. /\ Idle /\ conf \in Config /\ UNCHANGED <<confVars, row, ghostVars>>
      /\ pc' = "run" /\ orphan' = NoStatus
  BY DEF StartTick
<1>2. /\ status \in Statuses /\ row \in Rows /\ history /\ status' = status
      /\ ~forgotten /\ ~deleting /\ status # NoStatus
  BY <1>1, StateFacts, ConfiguredFacts DEF StartTick
<1>3. tick' = [conf |-> conf, todo |-> {}, bookmark |-> row.bookmark]
  BY <1>2 DEF StartTick
<1>4. tick' \in Ticks
  BY <1>1, <1>2, <1>3 DEF Ticks, Rows
<1>5. TypeOK'
  BY <1>1, <1>2, <1>4, RecordFacts DEF SInv, TypeOK, Ticks, confVars, ghostVars
<1>6. Served' /\ OneIdentity' /\ BookmarkOwned' /\ StatusKept' /\ CountersKept' /\ LastKept'
  BY <1>1, <1>2 DEF SInv, Served, OneIdentity, BookmarkOwned, StatusKept, CountersKept, LastKept,
                    confVars, ghostVars
<1>7. TickOwned'
  BY <1>1, <1>2, <1>3 DEF SInv, BookmarkOwned, TickOwned, confVars
<1>8. DeleteAlone' /\ NothingLeft'
  BY <1>1, <1>2 DEF DeleteAlone, NothingLeft, confVars, ghostVars
<1>9. TodoDue'
  BY <1>1 DEF TodoDue
<1> QED  BY <1>5, <1>6, <1>7, <1>8, <1>9 DEF SInv

\* A step of the tick that leaves configuration, bookkeeping and maintenance
\* alone: the bookmark may move to the tick's own view, counters may grow.
LEMMA RunStep ==
    ASSUME SInv, ~Idle,
           NEW vs \in Statuses, NEW r \in Rows,
           status' = vs, vs # NoStatus, vs.last = status.last,
           row' = r, r.last = row.last, r.total <= vs.total,
           r.bookmark # row.bookmark => r.bookmark = Claim,
           orphan' = NoStatus,
           UNCHANGED <<confVars, tick, ghostVars>>,
           pc' \in {"count", "persist"}
    PROVE  SInv'
<1>1. /\ conf \in Config /\ tick.conf \in Config /\ tick.conf.id = conf.id
      /\ tick.bookmark # NoBookmark => tick.bookmark.sound /\ tick.bookmark.id = tick.conf.id
  BY DEF SInv, TickOwned
<1>2. ~forgotten /\ ~deleting /\ status # NoStatus
  BY <1>1, ConfiguredFacts
<1>3. Claim.sound /\ Claim.id = conf.id
  BY <1>1 DEF Claim
<1>4. TypeOK'
  BY RecordFacts DEF SInv, TypeOK, Rows, confVars, ghostVars
<1>5. Served' /\ OneIdentity' /\ DeleteAlone' /\ NothingLeft' /\ StatusKept' /\ CountersKept'
  BY <1>2 DEF SInv, Served, OneIdentity, DeleteAlone, NothingLeft, StatusKept, CountersKept,
              confVars, ghostVars
<1>6. BookmarkOwned'
  BY <1>1, <1>3 DEF SInv, OneIdentity, BookmarkOwned, confVars
<1>7. TickOwned'
  BY <1>1 DEF TickOwned, confVars
<1>8. LastKept'
  BY <1>2 DEF SInv, LastKept, ghostVars
<1>9. TodoDue'
  BY DEF TodoDue
<1> QED  BY <1>4, <1>5, <1>6, <1>7, <1>8, <1>9 DEF SInv

LEMMA ClaimTyped ==
    ASSUME SInv, ~Idle
    PROVE  Claim \in Bookmarks
BY StateFacts DEF SInv, TickOwned, Claim, Bookmarks, Config, Ticks

\* MoveBookmark, Skip and Count.
LEMMA BookmarkStep ==
    ASSUME SInv, MoveBookmark \/ Skip \/ Count
    PROVE  SInv'
<1>1. /\ ~Idle /\ pc' \in {"count", "persist"} /\ UNCHANGED <<confVars, tick, ghostVars>>
  BY DEF MoveBookmark, Skip, Count, Idle
<1>2. /\ status \in Statuses /\ row \in Rows /\ history /\ orphan = NoStatus /\ Held = status
      /\ status # NoStatus => status.total \in 0..MaxTotal
      /\ \A vs : Hold(vs) <=> status' = vs /\ UNCHANGED orphan
  BY StateFacts
<1>3. conf \in Config
  BY <1>1 DEF SInv, TickOwned
<1>4. status # NoStatus /\ row.total <= status.total
  BY <1>3, ConfiguredFacts DEF SInv, CountersKept
<1>5. CASE MoveBookmark
  <2>1. row' = [row EXCEPT !.bookmark = Claim] /\ UNCHANGED <<status, orphan>>
    BY <1>2, <1>5 DEF MoveBookmark
  <2>2. row' \in Rows /\ row'.last = row.last /\ row'.total = row.total /\ row'.bookmark = Claim
    BY <1>1, <1>2, <2>1, ClaimTyped DEF Rows
  <2> QED  BY <1>1, <1>2, <1>4, <2>1, <2>2, RunStep
<1>6. CASE Skip
  <2>1. UNCHANGED <<row, status, orphan>>
    BY <1>6 DEF Skip
  <2> QED  BY <1>1, <1>2, <1>4, <2>1, RunStep
<1>7. CASE Count
  <2> DEFINE total == IF status.total < MaxTotal THEN status.total + 1 ELSE status.total
             vs == [status EXCEPT !.total = total]
  <2>1. status' = vs /\ UNCHANGED <<row, orphan>>
    BY <1>2, <1>7 DEF Count
  <2>2. total \in 0..MaxTotal /\ status.total <= total
    BY <1>2, <1>4, StateAssumption
  <2> HIDE DEF total
  <2>3. vs \in Statuses /\ vs.total = total /\ vs.last = status.last
    BY <1>2, <2>2 DEF Statuses
  <2>4. vs # NoStatus
    <3>1. vs.total # NoStatus.total
      BY <2>2, <2>3, RecordFacts, StateAssumption
    <3> QED  BY <3>1
  <2>5. row.total <= vs.total
    BY <1>2, <1>4, <2>2, <2>3, StateAssumption DEF Rows
  <2> HIDE DEF vs
  <2> QED  BY <1>1, <1>2, <2>1, <2>3, <2>4, <2>5, RunStep
<1> QED  BY <1>5, <1>6, <1>7

\* A step of the tick at or after its save, which leaves the bookmark alone.
LEMMA MaintainStep ==
    ASSUME SInv, ~Idle,
           row' \in Rows, row'.bookmark = row.bookmark,
           status' \in Statuses, status' # NoStatus, row'.total <= status'.total,
           ran' \in [OpIds -> Ages], unsaved' \in SUBSET OpIds,
           LastKept', TodoDue',
           orphan' = NoStatus, UNCHANGED <<confVars, forgotten>>,
           \/ pc' \in {"idle", "cut"} /\ tick' = NoTick
           \/ /\ pc' \in {"op", "save"} /\ tick' \in Ticks
              /\ tick'.conf = tick.conf /\ tick'.bookmark = tick.bookmark
    PROVE  SInv'
<1>1. conf \in Config /\ ~forgotten /\ ~deleting
  BY ConfiguredFacts DEF SInv, TickOwned
<1>2. tick' \in Ticks
  BY StateFacts
<1>3. TypeOK'
  BY <1>2, RecordFacts DEF SInv, TypeOK, Rows, Ticks, confVars
<1>4. Served' /\ OneIdentity' /\ DeleteAlone' /\ NothingLeft' /\ StatusKept' /\ CountersKept'
  BY <1>1 DEF SInv, Served, OneIdentity, DeleteAlone, NothingLeft, StatusKept, CountersKept,
              confVars
<1>5. BookmarkOwned'
  BY DEF SInv, BookmarkOwned, confVars
<1>6. TickOwned'
  BY DEF SInv, TickOwned, Idle, confVars
<1> QED  BY <1>3, <1>4, <1>5, <1>6 DEF SInv

LEMMA NextOpFacts ==
    ASSUME SInv, NEW todo \in SUBSET OpIds, NextOp(todo)
    PROVE  \/ todo = {} /\ pc' = "idle" /\ tick' = NoTick
           \/ /\ todo # {} /\ pc' = "op" /\ tick' \in Ticks /\ tick'.todo = todo
              /\ tick'.conf = tick.conf /\ tick'.bookmark = tick.bookmark
<1>1. tick \in Ticks
  BY StateFacts
<1> QED  BY <1>1 DEF NextOp, Ticks

\* What holds while a tick is under way.
LEMMA TickFacts ==
    ASSUME SInv, ~Idle
    PROVE  /\ status \in Statuses /\ row \in Rows /\ tick \in Ticks
           /\ ran \in [OpIds -> Ages] /\ unsaved \in SUBSET OpIds
           /\ history /\ orphan = NoStatus /\ Held = status
           /\ status # NoStatus /\ SetDefault(status) = status
           /\ status.total \in 0..MaxTotal /\ row.total <= status.total
           /\ \A vs : Hold(vs) <=> status' = vs /\ UNCHANGED orphan
           /\ Mirrored(Held) \in Rows
           /\ Mirrored(Held) = [row EXCEPT !.total = status.total]
<1>1. conf \in Config
  BY DEF SInv, TickOwned
<1>2. /\ status \in Statuses /\ row \in Rows /\ tick \in Ticks
      /\ ran \in [OpIds -> Ages] /\ unsaved \in SUBSET OpIds
      /\ history /\ orphan = NoStatus /\ Held = status
      /\ status # NoStatus => status.total \in 0..MaxTotal
      /\ \A vs : Hold(vs) <=> status' = vs /\ UNCHANGED orphan
  BY StateFacts
<1>3. status # NoStatus /\ SetDefault(status) = status /\ row.total <= status.total
  BY <1>1, ConfiguredFacts DEF SInv, CountersKept
<1>4. Mirrored(Held) = [row EXCEPT !.total = status.total]
  BY <1>2 DEF Mirrored
<1>5. Mirrored(Held) \in Rows
  BY <1>2, <1>3, <1>4 DEF Rows
<1> QED  BY <1>2, <1>3, <1>4, <1>5

LEMMA PersistStep ==
    ASSUME SInv, Persist
    PROVE  SInv'
<1>1. ~Idle /\ UNCHANGED <<confVars, ghostVars>> /\ orphan' = NoStatus /\ row' = Mirrored(Held)
  BY DEF Persist, Idle
<1>2. /\ status \in Statuses /\ row \in Rows /\ tick \in Ticks
      /\ ran \in [OpIds -> Ages] /\ unsaved \in SUBSET OpIds
      /\ status # NoStatus /\ SetDefault(status) = status
      /\ status.total \in 0..MaxTotal
      /\ row' \in Rows /\ row' = [row EXCEPT !.total = status.total]
  BY <1>1, TickFacts
<1>3. status' = status /\ NextOp(DueOps(status))
  BY <1>2 DEF Persist
<1>4. DueOps(status) \in SUBSET OpIds /\ \A i \in DueOps(status) : Due(status.last[i])
  <2>1. tick.conf \in Config
    BY <1>1 DEF SInv, TickOwned
  <2>2. tick.conf.ops \in SUBSET OpIds
    BY <2>1, StateAssumption DEF Config, OpIds
  <2> QED  BY <2>2 DEF DueOps
<1>5. \/ DueOps(status) = {} /\ pc' = "idle" /\ tick' = NoTick
      \/ /\ DueOps(status) # {} /\ pc' = "op" /\ tick' \in Ticks /\ tick'.todo = DueOps(status)
         /\ tick'.conf = tick.conf /\ tick'.bookmark = tick.bookmark
  BY <1>3, <1>4, NextOpFacts
<1>6. TodoDue'
  BY <1>3, <1>4, <1>5 DEF TodoDue
<1>7. row'.bookmark = row.bookmark /\ row'.last = row.last /\ row'.total = status.total
  BY <1>2 DEF Rows
<1>8. LastKept'
  BY <1>1, <1>3, <1>7 DEF SInv, LastKept, ghostVars
<1>9. row'.total <= status'.total
  BY <1>2, <1>3, <1>7, StateAssumption
<1> QED  BY <1>1, <1>2, <1>3, <1>5, <1>6, <1>7, <1>8, <1>9, MaintainStep DEF ghostVars

LEMMA InterruptStep ==
    ASSUME SInv, Interrupt
    PROVE  SInv'
<1>1. /\ ~Idle /\ UNCHANGED <<confVars, status, ghostVars>> /\ row' = Mirrored(Held)
      /\ pc' = "cut" /\ tick' = NoTick /\ orphan' = NoStatus
  BY DEF Interrupt, Abandon
<1>2. /\ status \in Statuses /\ row \in Rows
      /\ ran \in [OpIds -> Ages] /\ unsaved \in SUBSET OpIds
      /\ status # NoStatus /\ status.total \in 0..MaxTotal
      /\ row' \in Rows /\ row' = [row EXCEPT !.total = status.total]
  BY <1>1, TickFacts
<1>3. row'.bookmark = row.bookmark /\ row'.last = row.last /\ row'.total = status.total
  BY <1>2 DEF Rows
<1>4. LastKept' /\ TodoDue' /\ row'.total <= status'.total
  BY <1>1, <1>2, <1>3, StateAssumption DEF SInv, LastKept, TodoDue, ghostVars
<1> QED  BY <1>1, <1>2, <1>3, <1>4, MaintainStep DEF ghostVars

\* The operation at hand is one of those to do.
LEMMA OpFacts ==
    ASSUME SInv, pc \in {"op", "save"}
    PROVE  /\ ~Idle /\ Op \in tick.todo /\ Op \in OpIds /\ tick.todo \in SUBSET OpIds
           /\ \A i \in tick.todo \ {Op} : Due(status.last[i])
           /\ pc = "op" => Due(status.last[Op])
<1>1. ~Idle /\ tick.todo \in SUBSET OpIds /\ tick.todo # {}
  BY StateFacts DEF SInv, TodoDue, Ticks, Idle
<1>2. Op \in tick.todo
  BY <1>1, MinExists DEF Op
<1> QED  BY <1>1, <1>2 DEF SInv, TodoDue

LEMMA OpSucceedsStep ==
    ASSUME SInv, OpSucceeds
    PROVE  SInv'
<1>1. /\ pc = "op" /\ pc' = "save" /\ UNCHANGED <<confVars, row, tick, forgotten>>
      /\ ran' = [ran EXCEPT ![Op] = 0] /\ unsaved' = unsaved \union {Op}
  BY DEF OpSucceeds
<1>2. /\ ~Idle /\ Op \in tick.todo /\ Op \in OpIds
      /\ \A i \in tick.todo \ {Op} : Due(status.last[i])
  BY <1>1, OpFacts
<1>3. /\ status \in Statuses /\ row \in Rows /\ tick \in Ticks
      /\ ran \in [OpIds -> Ages] /\ unsaved \in SUBSET OpIds
      /\ orphan = NoStatus /\ status # NoStatus
      /\ status.total \in 0..MaxTotal /\ row.total <= status.total
      /\ status' = [status EXCEPT !.last[Op] = 0] /\ UNCHANGED orphan
  <2>1. Held = status /\ \A vs : Hold(vs) <=> status' = vs /\ UNCHANGED orphan
    BY <1>2, TickFacts
  <2> QED  BY <1>2, <2>1, TickFacts DEF OpSucceeds
<1>4. /\ status' \in Statuses /\ status'.total = status.total
      /\ status'.last = [status.last EXCEPT ![Op] = 0]
  BY <1>2, <1>3, AgeFacts DEF Statuses
<1>5. status' # NoStatus
  <2>1. status'.total # NoStatus.total
    BY <1>3, <1>4, RecordFacts, StateAssumption
  <2> QED  BY <2>1
<1>6. ran' \in [OpIds -> Ages] /\ unsaved' \in SUBSET OpIds
  BY <1>1, <1>2, <1>3, AgeFacts
<1>7. LastKept'
  BY <1>1, <1>3, <1>4 DEF SInv, LastKept, Statuses
<1>8. TodoDue'
  <2>1. tick' = tick /\ Op' = Op
    BY <1>1 DEF Op
  <2>2. \A i \in tick.todo \ {Op} : status'.last[i] = status.last[i]
    BY <1>3, <1>4 DEF Statuses, Ticks
  <2> QED  BY <1>1, <1>2, <2>1, <2>2 DEF TodoDue
<1> QED  BY <1>1, <1>2, <1>3, <1>4, <1>5, <1>6, <1>7, <1>8, MaintainStep

\* The operation's row is written, or left, and the loop goes on.
LEMMA SavedStep ==
    ASSUME SInv, OpSaved \/ OpFails
    PROVE  SInv'
<1>1. /\ pc \in {"op", "save"} /\ UNCHANGED <<confVars, status, orphan, ran, forgotten>>
      /\ SaveOp(Held) \/ UNCHANGED <<row, unsaved>>
      /\ NextOp(tick.todo \ {Op})
  BY DEF OpSaved, OpFails
<1>2. /\ ~Idle /\ Op \in OpIds /\ tick.todo \in SUBSET OpIds
      /\ \A i \in tick.todo \ {Op} : Due(status.last[i])
  BY <1>1, OpFacts
<1>3. /\ status \in Statuses /\ row \in Rows /\ tick \in Ticks
      /\ ran \in [OpIds -> Ages] /\ unsaved \in SUBSET OpIds
      /\ history /\ orphan = NoStatus /\ Held = status
      /\ status # NoStatus /\ row.total <= status.total
  BY <1>2, TickFacts
<1>4. \/ tick.todo \ {Op} = {} /\ pc' = "idle" /\ tick' = NoTick
      \/ /\ tick.todo \ {Op} # {} /\ pc' = "op" /\ tick' \in Ticks
         /\ tick'.todo = tick.todo \ {Op}
         /\ tick'.conf = tick.conf /\ tick'.bookmark = tick.bookmark
  BY <1>1, <1>2, NextOpFacts
<1>5. TodoDue'
  BY <1>1, <1>2, <1>4 DEF TodoDue
<1>6. /\ row' \in Rows /\ row'.bookmark = row.bookmark /\ row'.total = row.total
      /\ unsaved' \in SUBSET OpIds /\ LastKept'
  <2>1. CASE UNCHANGED <<row, unsaved>>
    BY <1>1, <1>3, <2>1 DEF SInv, LastKept
  <2>2. CASE SaveOp(Held)
    <3>1. /\ row' = [row EXCEPT !.last[Op] = status.last[Op]]
          /\ unsaved' = IF status.last[Op] = ran[Op] THEN unsaved \ {Op} ELSE unsaved
      BY <1>3, <2>2 DEF SaveOp
    <3>2. /\ row' \in Rows /\ row'.bookmark = row.bookmark /\ row'.total = row.total
          /\ row'.last = [row.last EXCEPT ![Op] = status.last[Op]]
      BY <1>2, <1>3, <3>1 DEF Rows, Statuses
    <3>3. unsaved' \in SUBSET OpIds
      BY <1>3, <3>1
    <3>4. LastKept'
      BY <1>1, <1>3, <3>1, <3>2 DEF SInv, LastKept, Rows
    <3> QED  BY <3>2, <3>3, <3>4
  <2> QED  BY <1>1, <2>1, <2>2
<1> QED  BY <1>1, <1>2, <1>3, <1>4, <1>5, <1>6, MaintainStep

LEMMA ReloadStep ==
    ASSUME SInv, Reload
    PROVE  SInv'
<1>1. /\ file \in Config \union {NoView} /\ conf' = file
      /\ UNCHANGED <<file, history, row, deleting, ran, unsaved>>
      /\ forgotten' = (forgotten /\ file = NoView)
  BY DEF SInv, TypeOK, Reload
<1>2. /\ status \in Statuses /\ row \in Rows /\ tick \in Ticks /\ NoTick \in Ticks
      /\ history /\ orphan = NoStatus
  BY StateFacts
<1>3. CASE file = NoView
  <2>1. status' = status /\ pc' = "idle" /\ tick' = NoTick /\ orphan' = NoStatus
    BY <1>3 DEF Reload, CancelUnless, Abandon
  <2>2. conf' \notin Config /\ file' \notin Config
    BY <1>1, <1>3, ConfigFacts
  <2>3. TypeOK'
    BY <1>1, <1>2, <1>3, <2>1, RecordFacts DEF SInv, TypeOK, Ticks
  <2>4. Served' /\ OneIdentity' /\ TickOwned' /\ DeleteAlone' /\ TodoDue'
    BY <1>1, <2>1, <2>2, <1>3, ConfigFacts DEF SInv, Served, OneIdentity, TickOwned, DeleteAlone, TodoDue, Idle
  <2>5. BookmarkOwned' /\ NothingLeft' /\ StatusKept' /\ CountersKept' /\ LastKept'
    BY <1>1, <1>3, <2>1, <2>2
    DEF SInv, BookmarkOwned, NothingLeft, StatusKept, CountersKept, LastKept, Idle
  <2> QED  BY <2>3, <2>4, <2>5 DEF SInv
<1>4. CASE file \in Config
  <2>1. file # NoView /\ ~deleting
    BY <1>4, ConfigFacts DEF SInv, DeleteAlone
  <2>2. status' = SetDefault(status) /\ UNCHANGED <<pc, tick, orphan>> /\ ~forgotten'
    BY <1>1, <2>1 DEF Reload, CancelUnless
  <2>3. /\ status' \in Statuses /\ status' # NoStatus
        /\ status # NoStatus => status' = status
        /\ status = NoStatus => status' = Fresh
    BY <1>2, <2>2, RecordFacts DEF SetDefault
  <2>4. status = NoStatus => forgotten /\ row = NoRows /\ ran = Unrun /\ Idle
    BY <1>4 DEF SInv, StatusKept, NothingLeft
  <2>5. TypeOK'
    BY <1>1, <1>2, <1>4, <2>2, <2>3, RecordFacts DEF SInv, TypeOK
  <2>6. Served' /\ OneIdentity' /\ BookmarkOwned' /\ DeleteAlone' /\ NothingLeft' /\ StatusKept'
    BY <1>1, <2>1, <2>2, <2>3, ConfigFacts
    DEF SInv, Served, OneIdentity, BookmarkOwned, DeleteAlone, NothingLeft, StatusKept
  <2>7. TickOwned'
    BY <1>1, <1>4, <2>2 DEF SInv, OneIdentity, TickOwned, Idle
  <2>8. CountersKept' /\ LastKept'
    BY <1>1, <2>3, <2>4, RecordFacts DEF SInv, CountersKept, LastKept
  <2>9. TodoDue'
    <3>1. pc \in {"op", "save"} => status' = status
      BY <2>3, <2>4 DEF Idle
    <3>2. Op' = Op
      BY <2>2 DEF Op
    <3> QED  BY <2>2, <3>1, <3>2 DEF SInv, TodoDue
  <2> QED  BY <2>5, <2>6, <2>7, <2>8, <2>9 DEF SInv
<1> QED  BY <1>1, <1>3, <1>4

\* Only views.yaml and s.config change, and they keep the view's identity.
LEMMA ConfigStep ==
    ASSUME SInv, conf \in Config => conf' \in Config,
           file' \in Config \union {NoView, Broken},
           conf' \in Config \union {NoView},
           file' \in Config /\ conf' \in Config => file'.id = conf'.id,
           conf' \in Config => conf \in Config /\ conf'.id = conf.id,
           file' \in Config => ~deleting /\ (status = NoStatus => forgotten),
           row.bookmark # NoBookmark /\ file' \in Config => row.bookmark.id = file'.id,
           UNCHANGED <<history, status, orphan, row, pc, tick, deleting, ghostVars>>
    PROVE  SInv'
<1>1. TypeOK'
  BY DEF SInv, TypeOK, ghostVars
<1>2. Served' /\ OneIdentity' /\ CountersKept' /\ LastKept'
  BY ConfigFacts DEF SInv, Served, OneIdentity, CountersKept, LastKept, ghostVars
<1>3. BookmarkOwned' /\ TickOwned'
  BY DEF SInv, BookmarkOwned, TickOwned, Idle
<1>4. DeleteAlone' /\ NothingLeft' /\ StatusKept'
  BY DEF SInv, DeleteAlone, NothingLeft, StatusKept, Idle, ghostVars
<1>5. TodoDue'
  <2>1. Op' = Op
    BY DEF Op
  <2> QED  BY <2>1 DEF SInv, TodoDue
<1> QED  BY <1>1, <1>2, <1>3, <1>4, <1>5 DEF SInv

\* conf is a view or none while the service is started with files that load.
LEMMA ConfLoaded ==
    ASSUME SInv
    PROVE  conf \in Config \union {NoView}
BY DEF SInv, TypeOK, Served

LEMMA EditStep ==
    ASSUME SInv,
           NEW f \in Config \union {NoView, Broken}, SteadyEdit(f), EditFile(f)
    PROVE  SInv'
<1>1. /\ file' = f /\ conf' = conf
      /\ UNCHANGED <<history, status, orphan, row, pc, tick, deleting, ghostVars>>
  BY DEF EditFile
<1>2. conf \in Config \union {NoView} /\ file \in Config \union {NoView, Broken}
  BY ConfLoaded DEF SInv, TypeOK
<1>3. ASSUME f \in Config
      PROVE  /\ conf \in Config => f.id = conf.id
             /\ ~deleting /\ (status = NoStatus => forgotten)
             /\ row.bookmark # NoBookmark => row.bookmark.id = f.id
  <2>1. f \notin {NoView, Broken} /\ f.id \notin {NoView.id, Broken.id, NoBookmark.id}
    BY <1>3, ConfigFacts
  <2>2. CASE f.id \in {file.id, conf.id}
    <3>1. (file \in Config /\ f.id = file.id) \/ (conf \in Config /\ f.id = conf.id)
      BY <1>2, <2>1, <2>2
    <3> QED  BY <3>1 DEF SInv, OneIdentity, BookmarkOwned, DeleteAlone, StatusKept
  <2>3. CASE f.id = row.bookmark.id /\ status # NoStatus /\ ~deleting
    <3>1. row.bookmark # NoBookmark
      BY <2>1, <2>3
    <3> QED  BY <2>3, <3>1 DEF SInv, BookmarkOwned
  <2>4. CASE conf = NoView /\ file = NoView /\ forgotten
    <3>1. row = NoRows /\ ~deleting
      BY <2>4 DEF SInv, NothingLeft, DeleteAlone
    <3> QED  BY <2>4, <3>1, ConfigFacts, RecordFacts
  <2> QED  BY <2>1, <2>2, <2>3, <2>4 DEF SteadyEdit
<1> QED  BY <1>1, <1>2, <1>3, ConfigStep

LEMMA UpdateStep ==
    ASSUME SInv, NEW c \in Config, c.id = conf.id, UpdateView(c)
    PROVE  SInv'
<1>1. /\ conf \in Config /\ conf' = c /\ file' = c
      /\ UNCHANGED <<history, status, orphan, row, pc, tick, deleting, ghostVars>>
  BY DEF UpdateView
<1>2. ~deleting /\ status # NoStatus
  BY <1>1, ConfiguredFacts
<1>3. row.bookmark # NoBookmark => row.bookmark.id = c.id
  BY <1>1 DEF SInv, BookmarkOwned
<1> QED  BY <1>1, <1>2, <1>3, ConfigStep

LEMMA CreateStep ==
    ASSUME SInv, NEW c \in Config, forgotten, CreateView(c)
    PROVE  SInv'
<1>1. /\ conf' = c /\ file' = c /\ status' = Fresh /\ forgotten' = FALSE
      /\ UNCHANGED <<history, orphan, row, pc, tick, deleting, ran, unsaved>>
  BY DEF CreateView
<1>2. /\ Idle /\ row = NoRows /\ ran = Unrun /\ ~deleting
  BY DEF SInv, NothingLeft, DeleteAlone
<1>3. TypeOK'
  BY <1>1, RecordFacts DEF SInv, TypeOK
<1>4. Served' /\ OneIdentity' /\ TickOwned' /\ DeleteAlone' /\ NothingLeft' /\ StatusKept' /\ TodoDue'
  BY <1>1, <1>2, RecordFacts, ConfigFacts
  DEF SInv, Served, OneIdentity, TickOwned, DeleteAlone, NothingLeft, StatusKept, TodoDue, Idle
<1>5. BookmarkOwned' /\ CountersKept' /\ LastKept'
  BY <1>1, <1>2, RecordFacts DEF SInv, BookmarkOwned, CountersKept, LastKept
<1> QED  BY <1>3, <1>4, <1>5 DEF SInv

LEMMA DeleteViewStep ==
    ASSUME SInv, DeleteView
    PROVE  SInv'
<1>1. /\ conf' = NoView /\ file' = NoView /\ deleting' = TRUE
      /\ pc' = "idle" /\ tick' = NoTick /\ orphan' = NoStatus
      /\ UNCHANGED <<history, status, row, ghostVars>>
  BY DEF DeleteView, Abandon
<1>2. ~forgotten /\ NoTick \in Ticks /\ NoView \notin Config
  BY ConfiguredFacts, StateFacts, ConfigFacts DEF DeleteView
<1>3. TypeOK'
  BY <1>1, <1>2, RecordFacts DEF SInv, TypeOK, Ticks, ghostVars
<1>4. Served' /\ OneIdentity' /\ TickOwned' /\ DeleteAlone' /\ NothingLeft' /\ StatusKept' /\ TodoDue'
  BY <1>1, <1>2, ConfigFacts
  DEF SInv, Served, OneIdentity, TickOwned, DeleteAlone, NothingLeft, StatusKept, TodoDue, Idle,
      ghostVars
<1>5. BookmarkOwned' /\ CountersKept' /\ LastKept'
  BY <1>1, <1>2 DEF SInv, BookmarkOwned, CountersKept, LastKept, ghostVars
<1> QED  BY <1>3, <1>4, <1>5 DEF SInv

LEMMA DeleteEndsStep ==
    ASSUME SInv, DeleteEnds
    PROVE  SInv'
<1>1. /\ deleting /\ deleting' = FALSE /\ status' = NoStatus /\ row' = NoRows
      /\ ran' = Unrun /\ unsaved' = {} /\ forgotten' = TRUE
      /\ UNCHANGED <<file, conf, history, pc, tick>>
  BY StateFacts DEF DeleteEnds
<1>2. Idle /\ file \notin Config /\ conf \notin Config
  BY <1>1 DEF SInv, DeleteAlone
<1>3. orphan' = NoStatus
  BY <1>2 DEF DeleteEnds
<1>4. NoRows \in Rows
  BY StateFacts
<1>5. TypeOK'
  BY <1>1, <1>3, <1>4, RecordFacts DEF SInv, TypeOK, Rows
<1>6. Served' /\ OneIdentity' /\ TickOwned' /\ DeleteAlone' /\ NothingLeft' /\ StatusKept' /\ TodoDue'
  BY <1>1, <1>2, <1>3
  DEF SInv, Served, OneIdentity, TickOwned, DeleteAlone, NothingLeft, StatusKept, TodoDue, Idle
<1>7. BookmarkOwned' /\ CountersKept' /\ LastKept'
  BY <1>1, <1>2, RecordFacts DEF BookmarkOwned, CountersKept, LastKept
<1> QED  BY <1>5, <1>6, <1>7 DEF SInv

LEMMA RestartStep ==
    ASSUME SInv, file # Broken, Restart
    PROVE  SInv'
<1>1. /\ conf' = file /\ history' = TRUE /\ deleting' = FALSE
      /\ status' = IF file \in Config THEN Hydrated ELSE NoStatus
      /\ pc' = "cut" /\ tick' = NoTick /\ orphan' = NoStatus
      /\ forgotten' = (forgotten /\ file \notin Config)
      /\ UNCHANGED <<file, row, ran, unsaved>>
  BY DEF Restart, Abandon
<1>2. /\ row \in Rows /\ NoTick \in Ticks /\ file \in Config \union {NoView}
  BY StateFacts DEF SInv, TypeOK
<1>3. /\ Hydrated \in Statuses /\ Hydrated.total = row.total /\ Hydrated.last = row.last
      /\ Hydrated # NoStatus
  <2>1. Hydrated \in Statuses /\ Hydrated.total = row.total /\ Hydrated.last = row.last
    BY <1>2, StateAssumption DEF Hydrated, Statuses, Rows
  <2>2. Hydrated.total # NoStatus.total
    BY <1>2, <2>1, RecordFacts, StateAssumption DEF Rows
  <2> QED  BY <2>1, <2>2
<1>4. TypeOK'
  BY <1>1, <1>2, <1>3, RecordFacts DEF SInv, TypeOK, Ticks
<1>5. Served' /\ OneIdentity' /\ TickOwned' /\ DeleteAlone' /\ StatusKept' /\ TodoDue'
  BY <1>1, <1>2, <1>3, ConfigFacts DEF Served, OneIdentity, TickOwned, DeleteAlone, StatusKept, TodoDue, Idle
<1>6. NothingLeft'
  BY <1>1 DEF SInv, NothingLeft, Idle
<1>7. BookmarkOwned' /\ CountersKept' /\ LastKept'
  BY <1>1, <1>2, <1>3, StateAssumption DEF SInv, BookmarkOwned, CountersKept, LastKept, Rows
<1> QED  BY <1>4, <1>5, <1>6, <1>7 DEF SInv

\* Age of the records: all of them grow alike.
LEMMA AgeStep ==
    ASSUME SInv, Age
    PROVE  SInv'
<1>1. /\ status' = [status EXCEPT !.last = OlderAll(status.last)]
      /\ orphan' = [orphan EXCEPT !.last = OlderAll(orphan.last)]
      /\ row' = [row EXCEPT !.last = OlderAll(row.last)]
      /\ ran' = OlderAll(ran)
      /\ UNCHANGED <<confVars, pc, tick, unsaved, forgotten>>
  BY DEF Age
<1>2. /\ status \in Statuses /\ row \in Rows /\ ran \in [OpIds -> Ages]
      /\ orphan = NoStatus
      /\ status # NoStatus => status.total \in 0..MaxTotal
  BY StateFacts
<1>3. \A last \in [OpIds -> Ages] :
        /\ OlderAll(last) \in [OpIds -> Ages]
        /\ \A i \in OpIds : OlderAll(last)[i] = Older(last[i])
  BY AgeFacts DEF OlderAll
<1>4. /\ status' \in Statuses /\ status'.total = status.total
      /\ \A i \in OpIds : status'.last[i] = Older(status.last[i])
  BY <1>1, <1>2, <1>3 DEF Statuses
<1>5. /\ row' \in Rows /\ row'.total = row.total /\ row'.bookmark = row.bookmark
      /\ \A i \in OpIds : row'.last[i] = Older(row.last[i])
  BY <1>1, <1>2, <1>3 DEF Rows
<1>6. /\ ran' \in [OpIds -> Ages]
      /\ \A i \in OpIds : ran'[i] = Older(ran[i])
  BY <1>1, <1>2, <1>3
<1>7. status' = NoStatus <=> status = NoStatus
  <2>1. CASE status = NoStatus
    BY <1>1, <2>1, RecordFacts DEF NoStatus
  <2>2. CASE status # NoStatus
    <3>1. status'.total # NoStatus.total
      BY <1>2, <1>4, <2>2, RecordFacts, StateAssumption
    <3> QED  BY <2>2, <3>1
  <2> QED  BY <2>1, <2>2
<1>8. orphan' = NoStatus
  BY <1>1, <1>2, RecordFacts DEF NoStatus
<1>9. TypeOK'
  BY <1>1, <1>4, <1>5, <1>6, <1>8, RecordFacts DEF SInv, TypeOK, Rows, confVars
<1>10. Served' /\ OneIdentity' /\ BookmarkOwned' /\ TickOwned' /\ DeleteAlone' /\ StatusKept'
  BY <1>1, <1>5, <1>7, <1>8
  DEF SInv, Served, OneIdentity, BookmarkOwned, TickOwned, DeleteAlone, StatusKept, Idle, confVars
<1>11. NothingLeft'
  <2>1. row = NoRows => row' = NoRows
    BY <1>1, RecordFacts DEF NoRows
  <2>2. ran = Unrun => ran' = Unrun
    BY <1>1, RecordFacts
  <2> QED  BY <1>1, <1>7, <2>1, <2>2 DEF SInv, NothingLeft, Idle, confVars
<1>12. CountersKept' /\ LastKept'
  BY <1>1, <1>4, <1>5, <1>6, <1>7 DEF SInv, CountersKept, LastKept
<1>13. TodoDue'
  <2>1. ASSUME pc \in {"op", "save"}, NEW i \in tick.todo
        PROVE  Due(status'.last[i]) \/ (pc = "save" /\ i = Op)
    <3>1. i \in OpIds /\ status.last[i] \in Ages
      BY <1>2, StateFacts DEF Ticks, Statuses
    <3> QED  BY <1>4, <2>1, <3>1, AgeFacts DEF SInv, TodoDue
  <2>2. Op' = Op
    BY <1>1 DEF Op
  <2> QED  BY <1>1, <2>1, <2>2 DEF SInv, TodoDue
<1> QED  BY <1>9, <1>10, <1>11, <1>12, <1>13 DEF SInv

-----------------------------------------------------------------------------
(***************************************************************************)
(* The theorems.                                                           *)
(***************************************************************************)
LEMMA InitSInv == Init => SInv
<1> SUFFICES ASSUME Init PROVE SInv
  OBVIOUS
<1>1. /\ file = NoView /\ conf = NoView /\ history /\ status = NoStatus /\ orphan = NoStatus
      /\ row = NoRows /\ pc = "idle" /\ tick = NoTick /\ deleting = FALSE
      /\ ran = Unrun /\ unsaved = {} /\ forgotten = TRUE
  BY DEF Init
<1>2. NoRows \in Rows /\ NoTick \in Ticks
  BY RecordFacts, StateAssumption DEF NoRows, NoTick, Rows, Ticks
<1>3. TypeOK
  BY <1>1, <1>2, RecordFacts DEF Init, TypeOK, Rows, Ticks
<1>4. Served /\ OneIdentity /\ TickOwned /\ DeleteAlone /\ NothingLeft /\ StatusKept /\ TodoDue
  BY <1>1, ConfigFacts
  DEF Served, OneIdentity, TickOwned, DeleteAlone, NothingLeft, StatusKept, TodoDue, Idle
<1>5. BookmarkOwned /\ CountersKept /\ LastKept
  BY <1>1, RecordFacts DEF BookmarkOwned, CountersKept, LastKept
<1> QED  BY <1>3, <1>4, <1>5 DEF SInv

LEMMA NextSInv == SInv /\ [SteadyNext]_vars => SInv'
<1> SUFFICES ASSUME SInv, [SteadyNext]_vars PROVE SInv'
  OBVIOUS
<1>1. CASE WorkerStep \/ Interrupt
  BY <1>1, StartTickStep, BookmarkStep, PersistStep, OpSucceedsStep, SavedStep, InterruptStep
  DEF WorkerStep
<1>2. CASE Reload
  BY <1>2, ReloadStep
<1>3. CASE \E f \in Config \union {NoView, Broken} : SteadyEdit(f) /\ EditFile(f)
  BY <1>3, EditStep
<1>4. CASE \E c \in Config : \/ forgotten /\ file = NoView /\ CreateView(c)
                             \/ c.id = conf.id /\ UpdateView(c)
  BY <1>4, CreateStep, UpdateStep
<1>5. CASE DeleteView \/ DeleteEnds
  BY <1>5, DeleteViewStep, DeleteEndsStep
<1>6. CASE file # Broken /\ Restart
  BY <1>6, RestartStep
<1>7. CASE Age
  BY <1>7, AgeStep
<1>8. CASE UNCHANGED vars
  <2>1. UNCHANGED <<file, conf, history, status, orphan, row, pc, tick, deleting,
                    ran, unsaved, forgotten>>
    BY <1>8 DEF vars
  <2>2. conf \in Config => (row.bookmark # NoBookmark => row.bookmark.id = conf.id)
    BY DEF SInv, BookmarkOwned
  <2>3. file \in Config \union {NoView, Broken} /\ conf \in Config \union {NoView}
    BY ConfLoaded DEF SInv, TypeOK
  <2>4. /\ file \in Config /\ conf \in Config => file.id = conf.id
        /\ file \in Config => ~deleting /\ (status = NoStatus => forgotten)
        /\ row.bookmark # NoBookmark /\ file \in Config => row.bookmark.id = file.id
    BY DEF SInv, OneIdentity, DeleteAlone, StatusKept, BookmarkOwned
  <2> QED  BY <2>1, <2>3, <2>4, ConfigStep DEF ghostVars
<1> QED  BY <1>1, <1>2, <1>3, <1>4, <1>5, <1>6, <1>7, <1>8 DEF SteadyNext

\* The invariant holds in every state of a steadily used name.
THEOREM StateInvariance == SteadySpec => []SInv
BY InitSInv, NextSInv, PTL DEF SteadySpec

\* Every variable stays in its range (ViewStatus and the rows of state.db).
THEOREM StateTypeCorrect == SteadySpec => []TypeOK
<1>1. SInv => TypeOK
  BY DEF SInv
<1> QED  BY <1>1, StateInvariance, PTL

\* The persisted bookmark belongs to the configured query and target: through
\* any number of restarts, reloads, deletes and new creations of the name.
THEOREM BookmarkIsOwn == SteadySpec => []BookmarkBelongs
<1>1. SInv => BookmarkBelongs
  BY DEF SInv, BookmarkOwned, BookmarkBelongs
<1> QED  BY <1>1, StateInvariance, PTL

\* The persisted counters of a view go back only when the view is deleted:
\* hydrate_view_state and upsert_view_status lose no refresh.
THEOREM CountersAreKept == SteadySpec => CountersSurvive
<1>1. SInv /\ [SteadyNext]_vars => [row'.total < row.total => row' = NoRows]_vars
  <2> SUFFICES ASSUME SInv, SteadyNext, row'.total < row.total
               PROVE  row' = NoRows
    BY DEF vars
  <2>1. row \in Rows /\ row.total \in 0..MaxTotal /\ MaxTotal \in Nat
    BY StateFacts, StateAssumption DEF Rows
  <2>2. row'.total # row.total
    BY <2>1
  <2>3. CASE MoveBookmark
    BY <2>1, <2>2, <2>3 DEF MoveBookmark, Rows
  <2>4. CASE Persist \/ Interrupt
    <3>1. ~Idle /\ row' = Mirrored(Held)
      BY <2>4 DEF Persist, Interrupt, Idle
    <3>2. row'.total = status.total /\ row.total <= status.total /\ status.total \in 0..MaxTotal
      BY <2>1, <3>1, TickFacts DEF Rows
    <3> QED  BY <2>1, <3>2
  <2>5. CASE OpSaved \/ OpFails
    BY <2>1, <2>2, <2>5, StateFacts DEF OpSaved, OpFails, SaveOp, Rows
  <2>6. CASE DeleteEnds
    BY <2>6, StateFacts DEF DeleteEnds
  <2>7. CASE Age
    BY <2>1, <2>2, <2>7 DEF Age, Rows
  <2> QED  BY <2>2, <2>3, <2>4, <2>5, <2>6, <2>7
           DEF SteadyNext, WorkerStep, StartTick, Skip, Count, OpSucceeds, Reload, EditFile,
               CreateView, UpdateView, DeleteView, Restart
<1> QED  BY <1>1, StateInvariance, PTL DEF SteadySpec, CountersSurvive

\* An operation of maintain_view that succeeded is not run again before its
\* interval, across restarts and hydration, unless its success was never
\* saved; whatever the interval and the number of operations.
THEOREM MaintenanceIsSpaced == SteadySpec => MaintenanceSpaced
<1>1. SInv /\ [SteadyNext]_vars =>
        [\A i \in OpIds : Starts(i) => Due(ran[i]) \/ i \in unsaved]_vars
  <2> SUFFICES ASSUME SInv, SteadyNext, NEW i \in OpIds, Starts(i), i \notin unsaved
               PROVE  Due(ran[i])
    BY DEF vars
  <2>1. pc' = "op" /\ i = Min(tick'.todo) /\ ~(pc = "op" /\ i = Op)
    BY DEF Starts
  <2>2. SInv'
    BY NextSInv
  <2>3. i \in tick'.todo
    <3>1. tick'.todo # {} /\ tick'.todo \in SUBSET OpIds
      BY <2>1, <2>2, StateFacts DEF SInv, TodoDue, TypeOK
    <3> QED  BY <2>1, <3>1, MinExists
  <2>4. ~(pc = "op" /\ UNCHANGED tick)
    BY <2>1 DEF Op
  <2>5. (status # NoStatus => status.last[i] = ran[i])
    BY DEF SInv, LastKept
  <2>6. CASE Persist
    <3>1. ~Idle
      BY <2>6 DEF Persist, Idle
    <3>2. status # NoStatus /\ SetDefault(status) = status /\ tick \in Ticks
      BY <3>1, TickFacts
    <3>3. NextOp(DueOps(status))
      BY <2>6, <3>2 DEF Persist
    <3>4. tick'.todo = DueOps(status)
      BY <2>1, <3>2, <3>3 DEF NextOp, Ticks
    <3> QED  BY <2>3, <2>5, <3>2, <3>4 DEF DueOps
  <2>7. CASE OpSaved \/ OpFails
    <3>1. pc \in {"op", "save"} /\ NextOp(tick.todo \ {Op})
      BY <2>7 DEF OpSaved, OpFails
    <3>2. ~Idle /\ \A j \in tick.todo \ {Op} : Due(status.last[j])
      BY <3>1, OpFacts
    <3>3. status # NoStatus /\ tick \in Ticks
      BY <3>2, TickFacts
    <3>4. tick'.todo = tick.todo \ {Op}
      BY <2>1, <3>1, <3>3 DEF NextOp, Ticks
    <3> QED  BY <2>3, <2>5, <3>2, <3>3, <3>4
  <2>8. CASE StartTick \/ MoveBookmark \/ Skip \/ Count \/ OpSucceeds \/ Interrupt \/ DeleteView
             \/ (file # Broken /\ Restart)
    BY <2>1, <2>8
    DEF StartTick, MoveBookmark, Skip, Count, OpSucceeds, Interrupt, DeleteView, Restart, Abandon
  <2>9. CASE Reload
    BY <2>1, <2>4, <2>9 DEF Reload, CancelUnless, Abandon
  <2>10. CASE \/ \E f \in Config \union {NoView, Broken} : SteadyEdit(f) /\ EditFile(f)
              \/ \E c \in Config : CreateView(c) \/ UpdateView(c)
              \/ DeleteEnds \/ Age
    BY <2>1, <2>4, <2>10 DEF EditFile, CreateView, UpdateView, DeleteEnds, Age
  <2> QED  BY <2>6, <2>7, <2>8, <2>9, <2>10 DEF SteadyNext, WorkerStep
<1> QED  BY <1>1, StateInvariance, PTL DEF SteadySpec, MaintenanceSpaced
=============================================================================
