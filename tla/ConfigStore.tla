---------------------------- MODULE ConfigStore ----------------------------
(***************************************************************************)
(* views.yaml and the list of views that the service serves: reload_config *)
(* on the event loop, the API's create and update in the thread pool and   *)
(* its delete on the loop (server.py), load_views and save_views           *)
(* (config.py), editors of the file, and crashes.                          *)
(*                                                                         *)
(* A request is split where another thread can run: it checks s.config,    *)
(* reads it again, truncates and writes the file, assigns s.config, and    *)
(* records the file's mtime.  A reload takes the mtime first, then loads,  *)
(* assigns and records.  Of the times only their order matters: newer says *)
(* that the file's mtime is past the recorded one.                         *)
(***************************************************************************)
EXTENDS Integers

CONSTANTS
    Names,      \* view names
    Settings,   \* everything else of a view's definition
    Valid,      \* the settings that load_views takes
    ApiValid,   \* the settings that the API takes
    Threads,    \* requests that the thread pool runs at once
    Loop,       \* the event loop
    MaxViews    \* bound: positions of a list

ASSUME SettingsAssumption == Valid \subseteq ApiValid /\ ApiValid \subseteq Settings
ASSUME LoopAssumption == Loop \notin Threads
ASSUME BoundAssumption == MaxViews \in Nat

Actors == Threads \union {Loop}

Entry == [name : Names, set : Settings]

\* A list of views keeps a removed view's position empty: only the order of
\* views would tell, and nothing depends on it.
Positions == 1..MaxViews
Lists == UNION {[ps -> Entry] : ps \in SUBSET Positions}
Written == {[i \in 1..n |-> f[i]] : n \in 0..MaxViews, f \in [Positions -> Entry]}

NoView == [name |-> "none", set |-> "none"]
Empty == [i \in {} |-> NoView]
Broken == <<[NoView EXCEPT !.name = "broken"]>>      \* no list of views
Unloaded == <<[NoView EXCEPT !.name = "unloaded"]>>  \* s.config is None

ASSUME NoViewAssumption == Names \cap {"none", "broken", "unloaded"} = {}

VARIABLES
    file,     \* content of views.yaml; a truncated file loads as no views
    newer,    \* the mtime of views.yaml is past s.views_mtime
    since,    \* views.yaml was written since the reload took its mtime
    config,   \* s.config.views
    handler,  \* request or reload of each actor
    raced     \* history variable: a request met another request, a reload
              \* or an edit, and the file was not loaded since

vars == <<file, newer, since, config, handler, raced>>

Idle == [pc |-> "idle", op |-> "none", view |-> NoView, list |-> Empty]

Init ==
    /\ file \in Written
    /\ newer = TRUE /\ since = FALSE
    /\ config = Unloaded
    /\ handler = [a \in Actors |-> Idle]
    /\ raced = FALSE

(***************************************************************************)
(* Lists of views.                                                         *)
(***************************************************************************)
NamesOf(list) == {list[i].name : i \in DOMAIN list}

UniqueNames(list) == \A i, j \in DOMAIN list : list[i].name = list[j].name => i = j

\* load_views accepts the content.
Loads(content) ==
    /\ content # Broken
    /\ \A i \in DOMAIN content : content[i].set \in Valid
    /\ UniqueNames(content)

Full(list) == Positions \subseteq DOMAIN list

NewPosition(list) == CHOOSE i \in Positions : i \notin DOMAIN list

\* The list a request makes of the list it read.
Edited(list, op, view) ==
    CASE op = "create" -> [i \in DOMAIN list \union {NewPosition(list)} |->
                              IF i \in DOMAIN list THEN list[i] ELSE view]
      [] op = "update" -> [i \in DOMAIN list |-> IF list[i].name = view.name THEN view ELSE list[i]]
      [] op = "delete" -> [i \in {j \in DOMAIN list : list[j].name # view.name} |-> list[i]]

(***************************************************************************)
(* Requests.                                                               *)
(***************************************************************************)
At(a, pc) == handler[a].pc = pc

GoTo(a, pc) == handler' = [handler EXCEPT ![a].pc = pc]

Others(a) == {b \in Actors \ {a} : ~At(b, "idle")}

\* Fault: create_view does not look for the name.
AdmitsTwice(op, view) == op = "create" \/ view.name \in NamesOf(config)

\* The name is free for a create, and known for an update or a delete.
Admits(op, view) == (op = "create") <=> view.name \notin NamesOf(config)

Request(a, op, view) ==
    /\ At(a, "idle")
    /\ (op = "delete") <=> (a = Loop)
    /\ config # Unloaded
    /\ Admits(op, view)
    /\ op # "delete" => view.set \in ApiValid
    /\ handler' = [handler EXCEPT ![a] = [pc |-> "read", op |-> op, view |-> view, list |-> Empty]]
    /\ raced' = (raced \/ Others(a) # {})
    /\ UNCHANGED <<file, newer, since, config>>

Read(a) ==
    LET list == Edited(config, handler[a].op, handler[a].view)
    IN  /\ At(a, "read")
        /\ handler[a].op = "create" => ~Full(config)
        /\ handler' = [handler EXCEPT ![a] = [Idle EXCEPT !.pc = "truncate", !.list = list]]
        /\ UNCHANGED <<file, newer, since, config, raced>>

Reloading == handler[Loop].pc \in {"load", "serve", "record"}

\* views.yaml now holds content.
Stored(content) ==
    /\ file' = content
    /\ newer' = TRUE
    /\ since' = Reloading

Truncate(a) ==
    /\ At(a, "truncate")
    /\ Stored(Empty)
    /\ GoTo(a, "write")
    /\ UNCHANGED <<config, raced>>

\* A file that another handler has filled meanwhile is written over from its
\* start, and keeps the rest of a longer content.
Write(a) ==
    /\ At(a, "write")
    /\ \/ Stored(handler[a].list)
       \/ file # Empty /\ Stored(Broken)
    /\ GoTo(a, "assign")
    /\ UNCHANGED <<config, raced>>

Assign(a) ==
    /\ At(a, "assign")
    /\ config' = handler[a].list
    /\ handler' = [handler EXCEPT ![a] = [Idle EXCEPT !.pc = "stat"]]
    /\ UNCHANGED <<file, newer, since, raced>>

\* s.views_mtime becomes the mtime that the file has by now.
Stat(a) ==
    /\ At(a, "stat")
    /\ newer' = FALSE
    /\ handler' = [handler EXCEPT ![a] = Idle]
    /\ UNCHANGED <<file, since, config, raced>>

RequestStep(a) == Read(a) \/ Truncate(a) \/ Write(a) \/ Assign(a) \/ Stat(a)

(***************************************************************************)
(* reload_config.                                                          *)
(***************************************************************************)
\* Fault: a configuration that was loaded is kept.
ReloadOnce ==
    /\ At(Loop, "idle") /\ newer /\ config = Unloaded
    /\ GoTo(Loop, "load")
    /\ raced' = (raced \/ Others(Loop) # {})
    /\ UNCHANGED <<file, newer, since, config>>

ReloadStat ==
    /\ At(Loop, "idle") /\ newer
    /\ GoTo(Loop, "load")
    /\ raced' = (raced \/ Others(Loop) # {})
    /\ UNCHANGED <<file, newer, since, config>>

\* Fault: what the file holds is served unchecked.
ReloadUnchecked ==
    /\ At(Loop, "load")
    /\ handler' = [handler EXCEPT ![Loop].pc = "serve", ![Loop].list = file]
    /\ UNCHANGED <<file, newer, since, config, raced>>

ReloadLoad ==
    /\ At(Loop, "load")
    /\ handler' = IF Loads(file)
                  THEN [handler EXCEPT ![Loop].pc = "serve", ![Loop].list = file]
                  ELSE [handler EXCEPT ![Loop].pc = "record"]
    /\ UNCHANGED <<file, newer, since, config, raced>>

ReloadAssign ==
    /\ At(Loop, "serve")
    /\ config' = handler[Loop].list
    /\ handler' = [handler EXCEPT ![Loop] = [Idle EXCEPT !.pc = "record"]]
    /\ UNCHANGED <<file, newer, since, raced>>

\* Fault: the mtime is taken after loading.
ReloadRecordLate ==
    /\ At(Loop, "record")
    /\ newer' = FALSE
    /\ handler' = [handler EXCEPT ![Loop] = Idle]
    /\ since' = FALSE
    /\ raced' = (raced /\ ~(Others(Loop) = {} /\ config = file /\ Loads(file)))
    /\ UNCHANGED <<file, config>>

\* The mtime from before the load is recorded, loaded or not.
ReloadRecord ==
    /\ At(Loop, "record")
    /\ newer' = since
    /\ handler' = [handler EXCEPT ![Loop] = Idle]
    /\ since' = FALSE
    /\ raced' = (raced /\ ~(Others(Loop) = {} /\ config = file /\ Loads(file)))
    /\ UNCHANGED <<file, config>>

ReloadStep == ReloadStat \/ ReloadLoad \/ ReloadAssign \/ ReloadRecord

(***************************************************************************)
(* Editors of the file, and the process.                                   *)
(***************************************************************************)
Saving(a) == handler[a].pc \in {"write", "assign", "stat"}

EditFile(content) ==
    /\ Stored(content)
    /\ raced' = (raced \/ \E a \in Actors : Saving(a))
    /\ UNCHANGED <<config, handler>>

\* A crash or a shutdown, and the first reload of a new process.  A write
\* that was cut leaves part of the list.
Restart ==
    /\ \/ UNCHANGED file
       \/ (\E a \in Actors : At(a, "write")) /\ file' = Broken
    /\ config' = IF Loads(file') THEN file' ELSE Unloaded
    /\ newer' = FALSE /\ since' = FALSE
    /\ handler' = [a \in Actors |-> Idle]
    /\ raced' = FALSE

Next ==
    \/ \E a \in Actors, op \in {"create", "update", "delete"}, view \in Entry : Request(a, op, view)
    \/ \E a \in Actors : RequestStep(a)
    \/ ReloadStep
    \/ \E content \in Written \union {Broken} : EditFile(content)
    \/ Restart

\* Threads run on, and config_reload_interval_seconds brings the next reload.
Fairness ==
    /\ WF_vars(ReloadStep)
    /\ \A a \in Actors : WF_vars(RequestStep(a))

Spec == Init /\ [][Next]_vars /\ Fairness

-----------------------------------------------------------------------------
(***************************************************************************)
(* Properties.                                                             *)
(***************************************************************************)
\* Every variable stays in its range.
TypeOK ==
    /\ file \in Lists \union {Broken}
    /\ config \in Lists \union {Unloaded}
    /\ newer \in BOOLEAN /\ since \in BOOLEAN /\ raced \in BOOLEAN
    /\ handler \in [Actors ->
          {Idle}
          \union [pc : {"read"}, op : {"create", "update", "delete"}, view : Entry, list : {Empty}]
          \union [pc : {"truncate", "write", "assign", "stat", "load", "serve", "record"},
                  op : {"none"}, view : {NoView}, list : Lists]]

Quiet == \A a \in Actors : At(a, "idle")

\* Unless a request met another writer or reader, a file whose mtime is
\* recorded and that loads is the list that is served: no reload is owed.
ServedIsSaved == Quiet /\ ~raced /\ ~newer /\ Loads(file) => config = file

\* The answer to a request promises a restart that serves the same: the file
\* holds what is served and loads, unless the request met another one, or a
\* setting only the API accepts is among the views.
AnsweredIsDurable ==
    [][\A a \in Actors :
          /\ Stat(a) /\ ~raced
          /\ \A i \in DOMAIN config : config[i].set \in Valid
          => file = config /\ Loads(file)]_vars

\* An edit that loads is served at last, unless the file changes again or a
\* request runs into the edit.
HotReload ==
    \A content \in {c \in Written : Loads(c)} :
        file = content /\ newer /\ ~raced
            ~> config = content \/ file # content \/ raced
=============================================================================
