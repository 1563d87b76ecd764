------------------------- MODULE ConfigStoreProofs -------------------------
(***************************************************************************)
(* Theorems about ConfigStore: for any number of request threads, names,   *)
(* settings and views, requests, reloads, edits and crashes in any order   *)
(* leave a list in s.config that views.yaml or a request supplied, and     *)
(* where no request met another writer the file and the served list agree. *)
(***************************************************************************)
EXTENDS ConfigStore, TLAPS

-----------------------------------------------------------------------------
(***************************************************************************)
(* The inductive invariant.                                                *)
(***************************************************************************)
InRequest(a) == handler[a].pc \in {"read", "truncate", "write", "assign", "stat"}

\* A request goes on only where a configuration was loaded.
ConfigKnown == \A a \in Actors : InRequest(a) => config \in Lists

\* What a reload is about to serve was checked, and is the file's content
\* unless the file was written since.
ServeChecked ==
    At(Loop, "serve") =>
        /\ Loads(handler[Loop].list)
        /\ since \/ file = handler[Loop].list

\* The parts below speak of requests and reloads that met no other one.
Alone == ~raced => \A a, b \in Actors : ~At(a, "idle") /\ ~At(b, "idle") => a = b

ConfigUnique == ~raced => UniqueNames(config)

\* What a request has checked, computed and written still stands.
SoundAt(a) ==
    /\ At(a, "read") => Admits(handler[a].op, handler[a].view)
    /\ handler[a].pc \in {"truncate", "write", "assign"} => UniqueNames(handler[a].list)
    /\ At(a, "write") => file = Empty
    /\ At(a, "assign") => file = handler[a].list
    /\ At(a, "stat") => file = config

RequestSound == ~raced => \A a \in Actors : SoundAt(a)

\* A reload that is about to record the mtime has served the file.
RecordSound == ~raced /\ At(Loop, "record") /\ ~since /\ Loads(file) => config = file

CInv ==
    /\ TypeOK
    /\ ConfigKnown /\ ServeChecked
    /\ Alone /\ ConfigUnique /\ RequestSound /\ RecordSound
    /\ ServedIsSaved

-----------------------------------------------------------------------------
(***************************************************************************)
(* Contents of the file and of handlers.                                   *)
(***************************************************************************)
Reads == [pc : {"read"}, op : {"create", "update", "delete"}, view : Entry, list : {Empty}]
Works == [pc : {"truncate", "write", "assign", "stat", "load", "serve", "record"},
          op : {"none"}, view : {NoView}, list : Lists]
Handlers == {Idle} \union Reads \union Works

\* Neither placeholder is a list of views, and the empty list is one.
LEMMA Placeholders ==
    /\ Broken \notin Lists /\ Unloaded \notin Lists
    /\ Empty \in Lists /\ UniqueNames(Empty)
    /\ UniqueNames(Unloaded)
<1>1. ASSUME NEW n, n \notin Names, <<[NoView EXCEPT !.name = n]>> \in Lists
      PROVE  FALSE
  <2> DEFINE content == <<[NoView EXCEPT !.name = n]>>
  <2>1. PICK ps \in SUBSET Positions : content \in [ps -> Entry]
    BY <1>1 DEF Lists
  <2>2. 1 \in DOMAIN content /\ content[1].name = n
    BY DEF NoView
  <2> HIDE DEF content
  <2>3. content[1] \in Entry
    BY <2>1, <2>2
  <2> QED  BY <1>1, <2>2, <2>3 DEF Entry
<1>2. Broken \notin Lists /\ Unloaded \notin Lists
  BY <1>1, NoViewAssumption DEF Broken, Unloaded
<1>3. Empty \in [{} -> Entry]
  BY DEF Empty
<1>4. Empty \in Lists
  BY <1>3 DEF Lists
<1>5. UniqueNames(Empty)
  BY DEF UniqueNames, Empty
<1>6. UniqueNames(Unloaded)
  BY DEF UniqueNames, Unloaded
<1> QED  BY <1>2, <1>4, <1>5, <1>6

\* What the operator writes are lists.
LEMMA WrittenAreLists == Written \subseteq Lists
<1>1. SUFFICES ASSUME NEW n \in 0..MaxViews, NEW f \in [Positions -> Entry]
               PROVE  [i \in 1..n |-> f[i]] \in Lists
  BY DEF Written
<1>2. 1..n \in SUBSET Positions
  BY BoundAssumption DEF Positions
<1>3. [i \in 1..n |-> f[i]] \in [1..n -> Entry]
  BY <1>2
<1> QED  BY <1>2, <1>3 DEF Lists

\* What TypeOK says of the handlers.
LEMMA HandlerTypes ==
    ASSUME TypeOK
    PROVE  /\ handler \in [Actors -> Handlers]
           /\ \A a \in Actors :
                 /\ At(a, "read") => handler[a] \in Reads
                 /\ ~At(a, "read") /\ ~At(a, "idle") => handler[a] \in Works
<1>1. handler \in [Actors -> Handlers]
  BY DEF TypeOK, Handlers, Reads, Works
<1>2. ASSUME NEW a \in Actors
      PROVE  /\ At(a, "read") => handler[a] \in Reads
             /\ ~At(a, "read") /\ ~At(a, "idle") => handler[a] \in Works
  BY <1>1 DEF Handlers, Reads, Works, At, Idle
<1> QED  BY <1>1, <1>2

\* One actor moves on: its handler has a type again, all others are as before.
LEMMA Moved ==
    ASSUME TypeOK, NEW a \in Actors, NEW h \in Handlers,
           handler' = [handler EXCEPT ![a] = h]
    PROVE  /\ handler' \in [Actors -> Handlers]
           /\ handler'[a] = h
           /\ \A b \in Actors \ {a} : handler'[b] = handler[b]
BY HandlerTypes

\* The steps of a request and of a reload that only change pc.
LEMMA WentTo ==
    ASSUME TypeOK, NEW a \in Actors, NEW pc \in {"write", "assign", "load", "record"},
           GoTo(a, pc),
           handler[a] \in Works \/ (handler[a] = Idle /\ pc = "load")
    PROVE  /\ [handler[a] EXCEPT !.pc = pc] \in Works
           /\ [handler[a] EXCEPT !.pc = pc].list = handler[a].list
           /\ [handler[a] EXCEPT !.pc = pc].pc = pc
           /\ handler' = [handler EXCEPT ![a] = [handler[a] EXCEPT !.pc = pc]]
<1>1. [handler[a] EXCEPT !.pc = pc] \in Works
  BY Placeholders DEF Works, Idle
<1> QED  BY <1>1, HandlerTypes DEF GoTo, Works, Idle

\* A request's list: its entries are views, and it names each once where the
\* list it was made of did and the request was admitted.
LEMMA EditedList ==
    ASSUME config \in Lists, NEW op \in {"create", "update", "delete"}, NEW view \in Entry,
           op = "create" => ~Full(config)
    PROVE  /\ Edited(config, op, view) \in Lists
           /\ Admits(op, view) /\ UniqueNames(config) => UniqueNames(Edited(config, op, view))
<1>1. PICK ps \in SUBSET Positions : config \in [ps -> Entry]
  BY DEF Lists
<1>2. CASE op = "create"
  <2> DEFINE new == NewPosition(config)
  <2>1. new \in Positions /\ new \notin ps
    BY <1>1, <1>2 DEF NewPosition, Full
  <2> HIDE DEF new
  <2>2. Edited(config, op, view) = [i \in ps \union {new} |-> IF i \in ps THEN config[i] ELSE view]
    BY <1>1, <1>2 DEF Edited, new
  <2>3. Edited(config, op, view) \in [ps \union {new} -> Entry]
    BY <1>1, <2>2
  <2>4. ASSUME Admits(op, view), UniqueNames(config)
        PROVE  UniqueNames(Edited(config, op, view))
    BY <1>1, <1>2, <2>1, <2>2, <2>4 DEF Admits, NamesOf, UniqueNames
  <2> QED  BY <2>1, <2>3, <2>4 DEF Lists
<1>3. CASE op = "update"
  <2>1. Edited(config, op, view) = [i \in ps |-> IF config[i].name = view.name THEN view ELSE config[i]]
    BY <1>1, <1>3 DEF Edited
  <2>2. Edited(config, op, view) \in [ps -> Entry]
    BY <1>1, <2>1
  <2>3. \A i \in ps : Edited(config, op, view)[i].name = config[i].name
    BY <2>1
  <2>4. UniqueNames(config) => UniqueNames(Edited(config, op, view))
    BY <1>1, <2>2, <2>3 DEF UniqueNames
  <2> QED  BY <2>2, <2>4 DEF Lists
<1>4. CASE op = "delete"
  <2> DEFINE kept == {i \in ps : config[i].name # view.name}
  <2>1. Edited(config, op, view) = [i \in kept |-> config[i]]
    BY <1>1, <1>4 DEF Edited
  <2>2. Edited(config, op, view) \in [kept -> Entry] /\ kept \in SUBSET Positions
    BY <1>1, <2>1
  <2>3. UniqueNames(config) => UniqueNames(Edited(config, op, view))
    BY <1>1, <2>1 DEF UniqueNames
  <2> QED  BY <2>2, <2>3 DEF Lists
<1> QED  BY <1>2, <1>3, <1>4

-----------------------------------------------------------------------------
(***************************************************************************)
(* Every action preserves the invariant.                                   *)
(***************************************************************************)
\* A step of one actor: where the others are has not changed, so that it is
\* still alone if it was or if it noticed that it is not.
LEMMA StillAlone ==
    ASSUME CInv, NEW a \in Actors,
           \A b \in Actors \ {a} : handler'[b] = handler[b],
           ~At(a, "idle") \/ Others(a) = {} \/ raced' \/ handler'[a].pc = "idle",
           ~raced' => ~raced
    PROVE  Alone'
BY DEF CInv, Alone, At, Others

LEMMA TypesKept ==
    ASSUME handler' \in [Actors -> Handlers],
           file' \in Lists \union {Broken}, config' \in Lists \union {Unloaded},
           newer' \in BOOLEAN, since' \in BOOLEAN, raced' \in BOOLEAN
    PROVE  TypeOK'
BY DEF TypeOK, Handlers, Reads, Works

LEMMA RequestKeeps ==
    ASSUME CInv, NEW a \in Actors, NEW op \in {"create", "update", "delete"}, NEW view \in Entry,
           Request(a, op, view)
    PROVE  CInv'
<1> DEFINE h == [pc |-> "read", op |-> op, view |-> view, list |-> Empty]
<1>1. TypeOK /\ config \in Lists
  BY DEF CInv, TypeOK, Request
<1>2. h \in Handlers
  BY DEF Handlers, Reads
<1>3. /\ handler' = [handler EXCEPT ![a] = h]
      /\ At(a, "idle") /\ Admits(op, view)
      /\ raced' = (raced \/ Others(a) # {})
      /\ UNCHANGED <<file, newer, since, config>>
  BY DEF Request
<1>4. h.pc = "read" /\ h.op = op /\ h.view = view
  OBVIOUS
<1> HIDE DEF h
<1>5. /\ handler' \in [Actors -> Handlers]
      /\ handler'[a] = h
      /\ \A b \in Actors \ {a} : handler'[b] = handler[b]
  BY <1>1, <1>2, <1>3, Moved
<1>6. TypeOK'
  BY <1>1, <1>3, <1>5, TypesKept DEF TypeOK
<1>7. ConfigKnown'
  BY <1>1, <1>3 DEF ConfigKnown
<1>8. ServeChecked'
  BY <1>3, <1>4, <1>5 DEF CInv, ServeChecked, At, Actors
<1>9. Alone'
  BY <1>3, <1>5, StillAlone
<1>10. ConfigUnique'
  BY <1>3 DEF CInv, ConfigUnique
<1>11. RequestSound'
  <2>1. SoundAt(a)'
    BY <1>3, <1>4, <1>5 DEF SoundAt, At, Admits, NamesOf
  <2>2. ASSUME ~raced', NEW b \in Actors \ {a}
        PROVE  SoundAt(b)'
    <3>1. SoundAt(b) /\ handler'[b] = handler[b]
      BY <1>3, <1>5, <2>2 DEF CInv, RequestSound
    <3> QED  BY <1>3, <3>1 DEF SoundAt, At, Admits, NamesOf
  <2> QED  BY <2>1, <2>2 DEF RequestSound
<1>12. RecordSound' /\ ServedIsSaved'
  BY <1>3, <1>4, <1>5 DEF CInv, RecordSound, ServedIsSaved, Quiet, At, Actors
<1> QED  BY <1>6, <1>7, <1>8, <1>9, <1>10, <1>11, <1>12 DEF CInv

LEMMA ReadKeeps ==
    ASSUME CInv, NEW a \in Actors, Read(a)
    PROVE  CInv'
<1> DEFINE list == Edited(config, handler[a].op, handler[a].view)
           h == [Idle EXCEPT !.pc = "truncate", !.list = list]
<1>1. TypeOK /\ config \in Lists
  BY DEF CInv, ConfigKnown, InRequest, Read, At
<1>2. /\ At(a, "read")
      /\ handler[a].op = "create" => ~Full(config)
      /\ handler' = [handler EXCEPT ![a] = h]
      /\ UNCHANGED <<file, newer, since, config, raced>>
  BY DEF Read
<1>3. handler[a].op \in {"create", "update", "delete"} /\ handler[a].view \in Entry
  BY <1>1, <1>2, HandlerTypes DEF Reads
<1>4. /\ list \in Lists
      /\ Admits(handler[a].op, handler[a].view) /\ UniqueNames(config) => UniqueNames(list)
  BY <1>1, <1>2, <1>3, EditedList
<1> HIDE DEF list
<1>5. h \in Handlers /\ h.pc = "truncate" /\ h.list = list
  BY <1>4 DEF Handlers, Works, Idle
<1> HIDE DEF h
<1>6. /\ handler' \in [Actors -> Handlers]
      /\ handler'[a] = h
      /\ \A b \in Actors \ {a} : handler'[b] = handler[b]
  BY <1>1, <1>2, <1>5, Moved
<1>7. TypeOK'
  BY <1>1, <1>2, <1>6, TypesKept DEF TypeOK
<1>8. ConfigKnown' /\ ConfigUnique'
  BY <1>1, <1>2 DEF CInv, ConfigKnown, ConfigUnique
<1>9. ServeChecked'
  BY <1>2, <1>5, <1>6 DEF CInv, ServeChecked, At, Actors
<1>10. Alone'
  BY <1>2, <1>6, StillAlone DEF At
<1>11. RequestSound'
  <2>1. ASSUME ~raced'
        PROVE  SoundAt(a)'
    <3>1. UniqueNames(list)
      BY <1>2, <1>4, <2>1 DEF CInv, ConfigUnique, RequestSound, SoundAt
    <3> QED  BY <1>5, <1>6, <3>1 DEF SoundAt, At, UniqueNames
  <2>2. ASSUME ~raced', NEW b \in Actors \ {a}
        PROVE  SoundAt(b)'
    <3>1. SoundAt(b) /\ handler'[b] = handler[b]
      BY <1>2, <1>6, <2>2 DEF CInv, RequestSound
    <3> QED  BY <1>2, <3>1 DEF SoundAt, At, Admits, NamesOf
  <2> QED  BY <2>1, <2>2 DEF RequestSound
<1>12. RecordSound' /\ ServedIsSaved'
  BY <1>2, <1>5, <1>6 DEF CInv, RecordSound, ServedIsSaved, Quiet, At, Actors
<1> QED  BY <1>7, <1>8, <1>9, <1>10, <1>11, <1>12 DEF CInv

\* Who is alone stays sound when it is sound itself: the others are idle.
LEMMA SoundAlone ==
    ASSUME CInv, NEW a \in Actors, ~At(a, "idle"),
           \A b \in Actors \ {a} : handler'[b] = handler[b],
           raced' \/ (~raced /\ SoundAt(a)')
    PROVE  RequestSound'
<1>1. SUFFICES ASSUME ~raced', NEW b \in Actors \ {a}
               PROVE  SoundAt(b)'
  BY DEF RequestSound
<1>2. handler'[b].pc = "idle"
  BY <1>1 DEF CInv, Alone, At
<1> QED  BY <1>2 DEF SoundAt, At

LEMMA TruncateKeeps ==
    ASSUME CInv, NEW a \in Actors, Truncate(a)
    PROVE  CInv'
<1> DEFINE h == [handler[a] EXCEPT !.pc = "write"]
<1>1. /\ TypeOK /\ At(a, "truncate") /\ GoTo(a, "write")
      /\ file' = Empty /\ newer' = TRUE /\ since' = Reloading
      /\ UNCHANGED <<config, raced>>
  BY DEF CInv, Truncate, Stored
<1>2. handler[a] \in Works
  BY <1>1, HandlerTypes DEF At
<1>3. /\ h \in Handlers /\ h.pc = "write" /\ h.list = handler[a].list
      /\ handler' = [handler EXCEPT ![a] = h]
  BY <1>1, <1>2, WentTo DEF Handlers
<1> HIDE DEF h
<1>4. /\ handler' \in [Actors -> Handlers]
      /\ handler'[a] = h
      /\ \A b \in Actors \ {a} : handler'[b] = handler[b]
  BY <1>1, <1>3, Moved
<1>5. TypeOK'
  BY <1>1, <1>4, TypesKept, Placeholders DEF TypeOK, Reloading
<1>6. ConfigKnown' /\ ConfigUnique'
  BY <1>1, <1>3, <1>4 DEF CInv, ConfigKnown, InRequest, ConfigUnique, At
<1>7. ServeChecked'
  BY <1>1, <1>3, <1>4 DEF CInv, ServeChecked, At, Actors, Reloading, Loads, UniqueNames
<1>8. Alone'
  BY <1>1, <1>4, StillAlone DEF At
<1>9. RequestSound'
  <2>1. ~raced => SoundAt(a)'
    BY <1>1, <1>3, <1>4 DEF CInv, RequestSound, SoundAt, At, UniqueNames
  <2> QED  BY <1>1, <1>4, <2>1, SoundAlone DEF At
<1>10. RecordSound' /\ ServedIsSaved'
  BY <1>1, <1>3, <1>4 DEF RecordSound, ServedIsSaved, Quiet, At, Reloading, Actors
<1> QED  BY <1>5, <1>6, <1>7, <1>8, <1>9, <1>10 DEF CInv

LEMMA WriteKeeps ==
    ASSUME CInv, NEW a \in Actors, Write(a)
    PROVE  CInv'
<1> DEFINE h == [handler[a] EXCEPT !.pc = "assign"]
<1>1. /\ TypeOK /\ At(a, "write") /\ GoTo(a, "assign")
      /\ file' = handler[a].list \/ (file # Empty /\ file' = Broken)
      /\ newer' = TRUE /\ since' = Reloading
      /\ UNCHANGED <<config, raced>>
  BY DEF CInv, Write, Stored
<1>2. handler[a] \in Works
  BY <1>1, HandlerTypes DEF At
<1>3. /\ h \in Handlers /\ h.pc = "assign" /\ h.list = handler[a].list
      /\ handler' = [handler EXCEPT ![a] = h]
  BY <1>1, <1>2, WentTo DEF Handlers
<1> HIDE DEF h
<1>4. /\ handler' \in [Actors -> Handlers]
      /\ handler'[a] = h
      /\ \A b \in Actors \ {a} : handler'[b] = handler[b]
  BY <1>1, <1>3, Moved
<1>5. file' \in Lists \union {Broken}
  BY <1>1, <1>2 DEF Works
<1>6. TypeOK'
  BY <1>1, <1>4, <1>5, TypesKept DEF TypeOK, Reloading
<1>7. ConfigKnown' /\ ConfigUnique'
  BY <1>1, <1>3, <1>4 DEF CInv, ConfigKnown, InRequest, ConfigUnique, At
<1>8. ServeChecked'
  BY <1>1, <1>3, <1>4 DEF CInv, ServeChecked, At, Actors, Reloading, Loads, UniqueNames
<1>9. Alone'
  BY <1>1, <1>4, StillAlone DEF At
<1>10. RequestSound'
  <2>1. ~raced => SoundAt(a)'
    BY <1>1, <1>3, <1>4 DEF CInv, RequestSound, SoundAt, At, UniqueNames
  <2> QED  BY <1>1, <1>4, <2>1, SoundAlone DEF At
<1>11. RecordSound' /\ ServedIsSaved'
  BY <1>1, <1>3, <1>4 DEF RecordSound, ServedIsSaved, Quiet, At, Reloading, Actors
<1> QED  BY <1>6, <1>7, <1>8, <1>9, <1>10, <1>11 DEF CInv

LEMMA AssignKeeps ==
    ASSUME CInv, NEW a \in Actors, Assign(a)
    PROVE  CInv'
<1> DEFINE h == [Idle EXCEPT !.pc = "stat"]
<1>1. /\ TypeOK /\ At(a, "assign")
      /\ config' = handler[a].list
      /\ handler' = [handler EXCEPT ![a] = h]
      /\ UNCHANGED <<file, newer, since, raced>>
  BY DEF CInv, Assign
<1>2. config' \in Lists
  BY <1>1, HandlerTypes DEF At, Works
<1>3. h \in Handlers /\ h.pc = "stat"
  BY Placeholders DEF Handlers, Works, Idle
<1> HIDE DEF h
<1>4. /\ handler' \in [Actors -> Handlers]
      /\ handler'[a] = h
      /\ \A b \in Actors \ {a} : handler'[b] = handler[b]
  BY <1>1, <1>3, Moved
<1>5. TypeOK'
  BY <1>1, <1>2, <1>4, TypesKept DEF TypeOK
<1>6. ConfigKnown'
  BY <1>2 DEF ConfigKnown
<1>7. ~raced => SoundAt(a) /\ UniqueNames(handler[a].list)
  BY <1>1 DEF CInv, RequestSound, SoundAt, At
<1>8. ConfigUnique'
  BY <1>1, <1>7 DEF ConfigUnique, UniqueNames
<1>9. ServeChecked'
  BY <1>1, <1>3, <1>4 DEF CInv, ServeChecked, At, Actors, Loads, UniqueNames
<1>10. Alone'
  BY <1>1, <1>4, StillAlone DEF At
<1>11. RequestSound'
  <2>1. ~raced => SoundAt(a)'
    BY <1>1, <1>3, <1>4, <1>7 DEF SoundAt, At
  <2> QED  BY <1>1, <1>4, <2>1, SoundAlone DEF At
<1>12. RecordSound' /\ ServedIsSaved'
  <2>1. RecordSound'
    <3>1. CASE a = Loop
      BY <1>3, <1>4, <3>1 DEF RecordSound, At
    <3>2. CASE a # Loop
      BY <1>1, <1>4, <3>2 DEF CInv, Alone, RecordSound, At, Actors
    <3> QED  BY <3>1, <3>2
  <2>2. ServedIsSaved'
    BY <1>3, <1>4 DEF ServedIsSaved, Quiet, At
  <2> QED  BY <2>1, <2>2
<1> QED  BY <1>5, <1>6, <1>8, <1>9, <1>10, <1>11, <1>12 DEF CInv

LEMMA StatKeeps ==
    ASSUME CInv, NEW a \in Actors, Stat(a)
    PROVE  CInv'
<1>1. /\ TypeOK /\ At(a, "stat")
      /\ newer' = FALSE
      /\ handler' = [handler EXCEPT ![a] = Idle]
      /\ UNCHANGED <<file, since, config, raced>>
  BY DEF CInv, Stat
<1>2. Idle \in Handlers /\ Idle.pc = "idle"
  BY DEF Handlers, Idle
<1>3. /\ handler' \in [Actors -> Handlers]
      /\ handler'[a] = Idle
      /\ \A b \in Actors \ {a} : handler'[b] = handler[b]
  BY <1>1, <1>2, Moved
<1>4. TypeOK'
  BY <1>1, <1>3, TypesKept DEF TypeOK
<1>5. ConfigKnown' /\ ConfigUnique'
  BY <1>1, <1>2, <1>3 DEF CInv, ConfigKnown, InRequest, ConfigUnique
<1>6. ServeChecked'
  BY <1>1, <1>2, <1>3 DEF CInv, ServeChecked, At, Actors
<1>7. Alone'
  BY <1>1, <1>3, StillAlone DEF At
<1>8. RequestSound'
  <2>1. SoundAt(a)'
    BY <1>2, <1>3 DEF SoundAt, At
  <2> QED  BY <1>1, <1>3, <2>1, SoundAlone DEF At
<1>9. RecordSound'
  BY <1>1, <1>2, <1>3 DEF CInv, RecordSound, At, Actors
<1>10. ServedIsSaved'
  <2>1. ~raced => file = config
    BY <1>1 DEF CInv, RequestSound, SoundAt
  <2> QED  BY <1>1, <2>1 DEF ServedIsSaved
<1> QED  BY <1>4, <1>5, <1>6, <1>7, <1>8, <1>9, <1>10 DEF CInv

LEMMA ReloadStatKeeps ==
    ASSUME CInv, ReloadStat
    PROVE  CInv'
<1> DEFINE h == [handler[Loop] EXCEPT !.pc = "load"]
<1>1. /\ TypeOK /\ Loop \in Actors /\ At(Loop, "idle") /\ GoTo(Loop, "load")
      /\ raced' = (raced \/ Others(Loop) # {})
      /\ UNCHANGED <<file, newer, since, config>>
  BY DEF CInv, ReloadStat, Actors
<1>2. handler[Loop] = Idle
  BY <1>1, HandlerTypes DEF At, Handlers, Reads, Works
<1>3. /\ h \in Handlers /\ h.pc = "load" /\ h.list = handler[Loop].list
      /\ handler' = [handler EXCEPT ![Loop] = h]
  BY <1>1, <1>2, WentTo DEF Handlers
<1> HIDE DEF h
<1>4. /\ handler' \in [Actors -> Handlers]
      /\ handler'[Loop] = h
      /\ \A b \in Actors \ {Loop} : handler'[b] = handler[b]
  BY <1>1, <1>3, Moved
<1>5. TypeOK'
  BY <1>1, <1>4, TypesKept DEF TypeOK
<1>6. ConfigKnown' /\ ConfigUnique'
  BY <1>1, <1>3, <1>4 DEF CInv, ConfigKnown, InRequest, ConfigUnique
<1>7. ServeChecked'
  BY <1>3, <1>4 DEF ServeChecked, At
<1>8. Alone'
  BY <1>1, <1>4, StillAlone
<1>9. RequestSound'
  <2>1. SUFFICES ASSUME ~raced', NEW b \in Actors
                 PROVE  SoundAt(b)'
    BY DEF RequestSound
  <2>2. CASE b = Loop
    BY <1>3, <1>4, <2>2 DEF SoundAt, At
  <2>3. CASE b # Loop
    <3>1. handler'[b] = handler[b] /\ handler[b].pc = "idle"
      BY <1>1, <1>4, <2>1, <2>3 DEF Others, At
    <3> QED  BY <3>1 DEF SoundAt, At
  <2> QED  BY <2>2, <2>3
<1>10. RecordSound' /\ ServedIsSaved'
  BY <1>1, <1>3, <1>4 DEF RecordSound, ServedIsSaved, Quiet, At
<1> QED  BY <1>5, <1>6, <1>7, <1>8, <1>9, <1>10 DEF CInv

LEMMA ReloadLoadKeeps ==
    ASSUME CInv, ReloadLoad
    PROVE  CInv'
<1> DEFINE h == IF Loads(file) THEN [handler[Loop] EXCEPT !.pc = "serve", !.list = file]
                               ELSE [handler[Loop] EXCEPT !.pc = "record"]
<1>1. /\ TypeOK /\ Loop \in Actors /\ At(Loop, "load")
      /\ UNCHANGED <<file, newer, since, config, raced>>
  BY DEF CInv, ReloadLoad, Actors
<1>2. handler[Loop] \in Works /\ handler \in [Actors -> Handlers]
  BY <1>1, HandlerTypes DEF At
<1>3. handler' = [handler EXCEPT ![Loop] = h]
  BY <1>2 DEF ReloadLoad
<1>4. Loads(file) => file \in Lists
  BY <1>1 DEF TypeOK, Loads
<1>5. h \in Works
  BY <1>2, <1>4 DEF Works
<1>6. /\ Loads(file) => h.pc = "serve" /\ h.list = file
      /\ ~Loads(file) => h.pc = "record"
  BY <1>2 DEF Works
<1> HIDE DEF h
<1>7. /\ handler' \in [Actors -> Handlers]
      /\ handler'[Loop] = h
      /\ \A b \in Actors \ {Loop} : handler'[b] = handler[b]
  BY <1>1, <1>3, <1>5, Moved DEF Handlers
<1>8. TypeOK'
  BY <1>1, <1>7, TypesKept DEF TypeOK
<1>9. ConfigKnown' /\ ConfigUnique'
  BY <1>1, <1>6, <1>7 DEF CInv, ConfigKnown, InRequest, ConfigUnique
<1>10. ServeChecked'
  <2>1. CASE Loads(file)
    BY <1>1, <1>6, <1>7, <2>1 DEF ServeChecked, Loads, UniqueNames
  <2>2. CASE ~Loads(file)
    BY <1>6, <1>7, <2>2 DEF ServeChecked, At
  <2> QED  BY <2>1, <2>2
<1>11. Alone'
  BY <1>1, <1>7, StillAlone DEF At
<1>12. RequestSound'
  <2>1. SoundAt(Loop)'
    BY <1>6, <1>7 DEF SoundAt, At
  <2> QED  BY <1>1, <1>7, <2>1, SoundAlone DEF At
<1>13. RecordSound' /\ ServedIsSaved'
  <2>1. ~At(Loop, "idle")'
    BY <1>6, <1>7 DEF At
  <2>2. RecordSound'
    BY <1>1, <1>6, <1>7 DEF RecordSound, At, Loads, UniqueNames
  <2> QED  BY <1>1, <2>1, <2>2 DEF ServedIsSaved, Quiet
<1> QED  BY <1>8, <1>9, <1>10, <1>11, <1>12, <1>13 DEF CInv

LEMMA ReloadAssignKeeps ==
    ASSUME CInv, ReloadAssign
    PROVE  CInv'
<1> DEFINE h == [Idle EXCEPT !.pc = "record"]
<1>1. /\ TypeOK /\ Loop \in Actors /\ At(Loop, "serve")
      /\ config' = handler[Loop].list
      /\ handler' = [handler EXCEPT ![Loop] = h]
      /\ UNCHANGED <<file, newer, since, raced>>
  BY DEF CInv, ReloadAssign, Actors
<1>2. config' \in Lists
  BY <1>1, HandlerTypes DEF At, Works
<1>3. Loads(handler[Loop].list) /\ (since \/ file = handler[Loop].list)
  BY <1>1 DEF CInv, ServeChecked
<1>4. h \in Handlers /\ h.pc = "record"
  BY Placeholders DEF Handlers, Works, Idle
<1> HIDE DEF h
<1>5. /\ handler' \in [Actors -> Handlers]
      /\ handler'[Loop] = h
      /\ \A b \in Actors \ {Loop} : handler'[b] = handler[b]
  BY <1>1, <1>4, Moved
<1>6. TypeOK'
  BY <1>1, <1>2, <1>5, TypesKept DEF TypeOK
<1>7. ConfigKnown'
  BY <1>2 DEF ConfigKnown
<1>8. ConfigUnique'
  BY <1>1, <1>3 DEF ConfigUnique, Loads, UniqueNames
<1>9. ServeChecked'
  BY <1>4, <1>5 DEF ServeChecked, At
<1>10. Alone'
  BY <1>1, <1>5, StillAlone DEF At
<1>11. RequestSound'
  <2>1. SoundAt(Loop)'
    BY <1>4, <1>5 DEF SoundAt, At
  <2> QED  BY <1>1, <1>5, <2>1, SoundAlone DEF At
<1>12. RecordSound' /\ ServedIsSaved'
  BY <1>1, <1>3, <1>4, <1>5 DEF RecordSound, ServedIsSaved, Quiet, At
<1> QED  BY <1>6, <1>7, <1>8, <1>9, <1>10, <1>11, <1>12 DEF CInv

LEMMA ReloadRecordKeeps ==
    ASSUME CInv, ReloadRecord
    PROVE  CInv'
<1>1. /\ TypeOK /\ Loop \in Actors /\ At(Loop, "record")
      /\ newer' = since /\ since' = FALSE
      /\ handler' = [handler EXCEPT ![Loop] = Idle]
      /\ raced' = (raced /\ ~(Others(Loop) = {} /\ config = file /\ Loads(file)))
      /\ UNCHANGED <<file, config>>
  BY DEF CInv, ReloadRecord, Actors
<1>2. Idle \in Handlers /\ Idle.pc = "idle"
  BY DEF Handlers, Idle
<1>3. /\ handler' \in [Actors -> Handlers]
      /\ handler'[Loop] = Idle
      /\ \A b \in Actors \ {Loop} : handler'[b] = handler[b]
  BY <1>1, <1>2, Moved
<1>4. TypeOK'
  BY <1>1, <1>3, TypesKept DEF TypeOK
<1>5. ConfigKnown'
  BY <1>1, <1>2, <1>3 DEF CInv, ConfigKnown, InRequest
<1>6. ServeChecked'
  BY <1>2, <1>3 DEF ServeChecked, At
\* Where raced ends, everyone is idle: either nobody else was at work, or the
\* reload was alone before.
<1>7. ~raced' => \A a \in Actors : handler'[a].pc = "idle"
  BY <1>1, <1>2, <1>3 DEF CInv, Alone, Others, At
<1>8. Alone' /\ RequestSound' /\ RecordSound'
  BY <1>1, <1>7 DEF Alone, RequestSound, SoundAt, RecordSound, At
<1>9. CASE raced
  <2>1. ~raced' => config = file /\ Loads(file)
    BY <1>1, <1>9
  <2> QED  BY <1>1, <1>4, <1>5, <1>6, <1>8, <2>1
           DEF CInv, ConfigUnique, ServedIsSaved, Loads, UniqueNames
<1>10. CASE ~raced
  <2>1. ConfigUnique'
    BY <1>1, <1>10 DEF CInv, ConfigUnique
  <2>2. ServedIsSaved'
    BY <1>1, <1>10 DEF CInv, RecordSound, ServedIsSaved, Loads, UniqueNames
  <2> QED  BY <1>4, <1>5, <1>6, <1>8, <2>1, <2>2 DEF CInv
<1> QED  BY <1>9, <1>10

LEMMA EditFileKeeps ==
    ASSUME CInv, NEW content \in Written \union {Broken}, EditFile(content)
    PROVE  CInv'
<1>1. /\ TypeOK
      /\ file' = content /\ newer' = TRUE /\ since' = Reloading
      /\ raced' = (raced \/ \E a \in Actors : Saving(a))
      /\ UNCHANGED <<config, handler>>
  BY DEF CInv, EditFile, Stored
<1>2. TypeOK'
  <2>1. file' \in Lists \union {Broken}
    BY <1>1, WrittenAreLists
  <2> QED  BY <1>1, <2>1, HandlerTypes, TypesKept DEF TypeOK, Reloading
<1>3. ConfigKnown' /\ ConfigUnique' /\ Alone'
  BY <1>1 DEF CInv, ConfigKnown, InRequest, ConfigUnique, Alone, At
<1>4. ServeChecked'
  BY <1>1 DEF CInv, ServeChecked, At, Reloading, Loads, UniqueNames
<1>5. RequestSound'
  <2>1. SUFFICES ASSUME ~raced', NEW a \in Actors
                 PROVE  SoundAt(a)'
    BY DEF RequestSound
  <2>2. SoundAt(a) /\ handler[a].pc \notin {"write", "assign", "stat"}
    BY <1>1, <2>1 DEF CInv, RequestSound, Saving
  <2> QED  BY <1>1, <2>2 DEF SoundAt, At, Admits, NamesOf, UniqueNames
<1>6. RecordSound' /\ ServedIsSaved'
  BY <1>1 DEF RecordSound, ServedIsSaved, At, Reloading
<1> QED  BY <1>2, <1>3, <1>4, <1>5, <1>6 DEF CInv

LEMMA RestartKeeps ==
    ASSUME CInv, Restart
    PROVE  CInv'
<1>1. /\ TypeOK
      /\ file' = file \/ file' = Broken
      /\ config' = IF Loads(file') THEN file' ELSE Unloaded
      /\ newer' = FALSE /\ since' = FALSE /\ raced' = FALSE
      /\ handler' = [a \in Actors |-> Idle]
  BY DEF CInv, Restart
<1>2. /\ \A a \in Actors : handler'[a].pc = "idle"
      /\ handler' \in [Actors -> Handlers]
  BY <1>1 DEF Idle, Handlers
<1>3. file' \in Lists \union {Broken} /\ config' \in Lists \union {Unloaded}
  BY <1>1 DEF TypeOK, Loads
<1>4. TypeOK'
  BY <1>1, <1>2, <1>3, TypesKept
<1>5. UniqueNames(config')
  BY <1>1, Placeholders DEF Loads
<1>6. ConfigUnique'
  BY <1>5 DEF ConfigUnique, UniqueNames
<1>7. ServedIsSaved'
  BY <1>1 DEF ServedIsSaved, Loads, UniqueNames
<1>8. Loop \in Actors
  BY DEF Actors
<1>9. ConfigKnown' /\ ServeChecked' /\ Alone' /\ RequestSound' /\ RecordSound'
  BY <1>2, <1>8 DEF ConfigKnown, InRequest, ServeChecked, Alone, RequestSound, SoundAt, RecordSound, At
<1> QED  BY <1>4, <1>6, <1>7, <1>9 DEF CInv

LEMMA StutterKeeps ==
    ASSUME CInv, UNCHANGED vars
    PROVE  CInv'
<1>1. UNCHANGED <<file, newer, since, config, handler, raced>>
  BY DEF vars
<1>2. TypeOK'
  BY <1>1, HandlerTypes, TypesKept DEF CInv, TypeOK
<1>3. ConfigKnown' /\ ServeChecked' /\ Alone' /\ ConfigUnique' /\ RecordSound' /\ ServedIsSaved'
  BY <1>1 DEF CInv, ConfigKnown, InRequest, ServeChecked, Alone, ConfigUnique, RecordSound,
              ServedIsSaved, Quiet, At, Loads, UniqueNames
<1>4. RequestSound'
  BY <1>1 DEF CInv, RequestSound, SoundAt, At, Admits, NamesOf, UniqueNames
<1> QED  BY <1>2, <1>3, <1>4 DEF CInv

-----------------------------------------------------------------------------
(***************************************************************************)
(* The theorems.                                                           *)
(***************************************************************************)
LEMMA Initially ==
    ASSUME Init
    PROVE  CInv
<1>1. /\ file \in Lists
      /\ config = Unloaded /\ newer = TRUE /\ since = FALSE /\ raced = FALSE
      /\ handler = [a \in Actors |-> Idle]
  BY WrittenAreLists DEF Init
<1>2. TypeOK
  BY <1>1 DEF TypeOK
<1>3. Loop \in Actors /\ \A a \in Actors : handler[a].pc = "idle"
  BY <1>1 DEF Actors, Idle
<1>4. ConfigUnique
  BY <1>1, Placeholders DEF ConfigUnique
<1>5. ConfigKnown /\ ServeChecked /\ Alone /\ RequestSound /\ RecordSound /\ ServedIsSaved
  BY <1>1, <1>3 DEF ConfigKnown, InRequest, ServeChecked, Alone, RequestSound, SoundAt, RecordSound,
                    ServedIsSaved, At
<1> QED  BY <1>2, <1>4, <1>5 DEF CInv

LEMMA EveryStepKeeps ==
    ASSUME CInv, [Next]_vars
    PROVE  CInv'
<1>1. CASE \E a \in Actors, op \in {"create", "update", "delete"}, view \in Entry : Request(a, op, view)
  BY <1>1, RequestKeeps
<1>2. CASE \E a \in Actors : RequestStep(a)
  BY <1>2, ReadKeeps, TruncateKeeps, WriteKeeps, AssignKeeps, StatKeeps DEF RequestStep
<1>3. CASE ReloadStep
  BY <1>3, ReloadStatKeeps, ReloadLoadKeeps, ReloadAssignKeeps, ReloadRecordKeeps DEF ReloadStep
<1>4. CASE \E content \in Written \union {Broken} : EditFile(content)
  BY <1>4, EditFileKeeps
<1>5. CASE Restart
  BY <1>5, RestartKeeps
<1>6. CASE UNCHANGED vars
  BY <1>6, StutterKeeps
<1> QED  BY <1>1, <1>2, <1>3, <1>4, <1>5, <1>6 DEF Next

\* Whatever requests, reloads, edits and crashes do, and in whatever order,
\* the invariant holds.
THEOREM StoreInvariance == Spec => []CInv
<1>1. Init => CInv
  BY Initially
<1>2. CInv /\ [Next]_vars => CInv'
  BY EveryStepKeeps
<1> QED  BY <1>1, <1>2, PTL DEF Spec

\* Every variable stays in its range: above all, a handler never holds and
\* the service never serves what is no list of views.
THEOREM StoreTypeCorrect == Spec => []TypeOK
<1>1. CInv => TypeOK
  BY DEF CInv
<1> QED  BY <1>1, StoreInvariance, PTL

\* reload_config never owes a reload of a file whose mtime it recorded.
THEOREM NoReloadOwed == Spec => []ServedIsSaved
<1>1. CInv => ServedIsSaved
  BY DEF CInv
<1> QED  BY <1>1, StoreInvariance, PTL

\* A request that answers leaves a file that the next process loads as the
\* list that is served.
THEOREM AnswersAreDurable == Spec => AnsweredIsDurable
<1> DEFINE Durable == \A a \in Actors :
                         /\ Stat(a) /\ ~raced
                         /\ \A i \in DOMAIN config : config[i].set \in Valid
                         => file = config /\ Loads(file)
<1>1. CInv => Durable
  <2>1. SUFFICES ASSUME CInv, NEW a \in Actors, Stat(a), ~raced,
                        \A i \in DOMAIN config : config[i].set \in Valid
                 PROVE  file = config /\ Loads(file)
    OBVIOUS
  <2>2. file = config /\ config \in Lists /\ UniqueNames(config)
    BY <2>1 DEF CInv, RequestSound, SoundAt, ConfigKnown, InRequest, ConfigUnique, Stat, At
  <2> QED  BY <2>1, <2>2, Placeholders DEF Loads
<1>2. CInv /\ [Next]_vars => [Durable]_vars
  BY <1>1
<1> QED  BY <1>2, StoreInvariance, PTL DEF Spec, AnsweredIsDurable

=============================================================================
