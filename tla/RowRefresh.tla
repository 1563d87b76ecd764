----------------------------- MODULE RowRefresh -----------------------------
(***************************************************************************)
(* One view down to its rows: files and their column statistics, the       *)
(* window the detector reads off them, and MERGE on the keys the parser    *)
(* derived (detector.py, executor.py).  RefreshView models the same tick   *)
(* over whole buckets; here the window is one MERGE and a cut-off tick     *)
(* starts over.                                                            *)
(***************************************************************************)
EXTENDS ViewQuery

CONSTANTS
    Queries,   \* the queries of views
    Batches,   \* the sets of rows that a writer appends as one file
    Stats,     \* bounds of a new file: "full", "null", or "absent"
    MaxRows,   \* bound: rows of the source
    MaxAdded   \* bound: commits between two moves of the bookmark

File == [rows : SUBSET Row, stats : {"full", "null", "absent"}]

ASSUME RowAssumption ==
    /\ Horizon \in Nat /\ Horizon % Width("coarse") = 0
    /\ Queries \subseteq Query
    /\ \A rows \in Batches : rows \subseteq Row /\ IsFiniteSet(rows)
    /\ Stats \subseteq {"full", "null", "absent"}

VARIABLES
    query,    \* the view's query
    parsed,   \* what parse_view_query derived from it
    live,     \* the files of the source
    added,    \* the files added since the bookmark, oldest first
    marked,   \* there is a bookmark
    target,   \* the target's rows, in the order they were inserted
    tick,     \* the running refresh
    blind     \* history variable: a bookmark passed a file without bounds

vars == <<query, parsed, live, added, marked, target, tick, blind>>

NoTick == [pc |-> "idle", rows |-> {}, seen |-> 0, lo |-> 0, hi |-> 0, blind |-> FALSE]

Init ==
    /\ query \in {q \in Queries : Accepted(q) /\ Analysed(q)}
    /\ parsed = ParsedView(query)
    /\ live = {} /\ added = <<>>
    /\ marked = FALSE
    /\ target = <<>>
    /\ tick = NoTick
    /\ blind = FALSE

RowsOf(files) == UNION {f.rows : f \in files}

(***************************************************************************)
(* Writers of the source.  No row disappears without a replacement in its  *)
(* bucket and with its key (README.md: "Assumptions").                     *)
(***************************************************************************)
AppendFile(rows, stats) ==
    LET f == [rows |-> rows, stats |-> stats]
    IN  /\ Len(added) < MaxAdded
        /\ rows \cap RowsOf(live) = {}
        /\ Cardinality(rows \union RowsOf(live)) <= MaxRows
        /\ live' = live \union {f}
        /\ added' = Append(added, f)
        /\ UNCHANGED <<query, parsed, marked, target, tick, blind>>

\* MERGE INTO the source rewrites file f with row r replaced by s; the new
\* file has the kind of statistics that f had.
Overwrite(f, r, s) ==
    LET g == [f EXCEPT !.rows = (@ \ {r}) \union {s}]
    IN  /\ Len(added) < MaxAdded
        /\ s \notin RowsOf(live)
        /\ s.k = r.k /\ s.ts \div Width("fine") = r.ts \div Width("fine")
        /\ live' = (live \ {f}) \union {g}
        /\ added' = Append(added, g)
        /\ UNCHANGED <<query, parsed, marked, target, tick, blind>>

\* A "replace" snapshot: OPTIMIZE rewrites the files.
Compact ==
    /\ Cardinality(live) > 1
    /\ live' = {[rows |-> RowsOf(live), stats |-> "full"]}
    /\ UNCHANGED <<query, parsed, added, marked, target, tick, blind>>

(***************************************************************************)
(* A tick.                                                                 *)
(***************************************************************************)
\* The files whose statistics the detector reads.
Read == IF marked THEN Range(added) ELSE live

Bounded(files) == {f \in files : f.stats = "full"}

SawColumn(files) == \E f \in files : f.stats # "absent"

Stamps(files) == {r.ts : r \in RowsOf(files)}

\* Fault: the start of the next bucket.
CeilTo(t) == (t \div parsed.width + 1) * parsed.width

\* The start of t's bucket.
FloorTo(t) == (t \div parsed.width) * parsed.width

\* The window spans the files that have bounds.  With none of them there is
\* nothing to merge; with no trace of the column the tick fails.
Detect ==
    /\ tick.pc = "idle" /\ Read # {}
    /\ SawColumn(Read)
    /\ LET stamps == Stamps(Bounded(Read))
       IN  tick' = [pc |-> IF stamps = {} THEN "publish" ELSE "merge",
                    rows |-> RowsOf(live), seen |-> Len(added),
                    lo |-> IF stamps = {} THEN 0 ELSE FloorTo(Min(stamps)),
                    hi |-> IF stamps = {} THEN 0 ELSE FloorTo(Max(stamps)) + parsed.width,
                    blind |-> Bounded(Read) # Read]
    /\ UNCHANGED <<query, parsed, live, added, marked, target, blind>>

\* ON t.key = s.key, for every merge key: never true of a NULL.
Matches(t, s) == \A i \in parsed.keys : t[i] = s[i] /\ t[i] # Null

\* The source of the MERGE: the pinned rows through the ranged query.
MergeSource ==
    Result([query EXCEPT !.where = Ranged(@, tick.lo, tick.hi)], tick.rows)

Matched(t) == {s \in MergeSource : Matches(t, s)}

\* Fault: rows are inserted whether or not they match.
UnmatchedAll == MergeSource

Unmatched == {s \in MergeSource : \A n \in DOMAIN target : ~Matches(target[n], s)}

\* Trino refuses a column named twice, an empty SET, and a row that matches
\* more than one row of the source.
Executes ==
    /\ parsed.once
    /\ parsed.keys # DOMAIN query.proj
    /\ \A n \in DOMAIN target : Cardinality(Matched(target[n])) <= 1

Updated(t) == IF Matched(t) = {} THEN t ELSE CHOOSE s \in Matched(t) : TRUE

Merge ==
    /\ tick.pc = "merge"
    /\ IF Executes
       THEN /\ target' = [n \in DOMAIN target |-> Updated(target[n])] \o SetToSeq(Unmatched)
            /\ tick' = [tick EXCEPT !.pc = "publish"]
       ELSE /\ tick' = NoTick
            /\ UNCHANGED target
    /\ UNCHANGED <<query, parsed, live, added, marked, blind>>

\* The bookmark moves to the pinned snapshot.
Publish ==
    /\ tick.pc = "publish"
    /\ marked' = TRUE
    /\ added' = SubSeq(added, tick.seen + 1, Len(added))
    /\ blind' = (blind \/ tick.blind)
    /\ tick' = NoTick
    /\ UNCHANGED <<query, parsed, live, target>>

\* query_timeout_seconds or a crash.
Interrupt ==
    /\ tick.pc # "idle"
    /\ tick' = NoTick
    /\ UNCHANGED <<query, parsed, live, added, marked, target, blind>>

Next ==
    \/ \E rows \in Batches, stats \in Stats : AppendFile(rows, stats)
    \/ \E f \in live, s \in Row : \E r \in f.rows : Overwrite(f, r, s)
    \/ Compact
    \/ Detect \/ Merge \/ Publish \/ Interrupt

Spec == Init /\ [][Next]_vars

-----------------------------------------------------------------------------
(***************************************************************************)
(* Properties.                                                             *)
(***************************************************************************)
\* A query whose groups lie within one bucket each, and stay once they are.
Incremental(q) == ("fine" \in Grouped(q) \/ "coarse" \in Grouped(q)) /\ ~q.having

\* A GROUP BY expression that reads like an output column is that column's
\* expression: no alias hides a column of the source that GROUP BY names.
HonestNames(q) ==
    \A j \in DOMAIN q.group, i \in DOMAIN q.proj :
        q.group[j].pos = 0 /\ Names(q)[i] = Canonical(q.group[j].expr)
            => Bare(q.proj[i].expr) = Bare(q.group[j].expr)

\* No column is selected twice.
SelectsOnce(q) ==
    \A i, j \in DOMAIN q.proj :
        q.proj[i].expr \in Columns /\ Bare(q.proj[i].expr) = Bare(q.proj[j].expr) => i = j

\* What the properties of the target need of a query, and the parser does not
\* check.
Plain(q) == Incremental(q) /\ HonestNames(q) /\ SelectsOnce(q)

IsOutRow(t) ==
    /\ DOMAIN t = DOMAIN query.proj
    /\ \A i \in DOMAIN t :
          IF query.proj[i].expr = "agg" THEN t[i] \subseteq Times ELSE t[i] \in Times \union Keys

\* Every variable stays in its range, and so does every column of the target.
TypeOK ==
    /\ live \subseteq File /\ added \in Seq(File)
    /\ target \in Seq(Range(target)) /\ \A n \in DOMAIN target : IsOutRow(target[n])
    /\ marked \in BOOLEAN /\ blind \in BOOLEAN
    /\ tick.pc \in {"idle", "merge", "publish"}
    /\ tick.rows \subseteq Row
    /\ tick.lo \in 0..Horizon /\ tick.hi \in 0..Horizon
    /\ tick.seen \in 0..Len(added)

\* r and s alone would become rows of the target that MERGE takes for one.
SameKeys(r, s) == \A i \in parsed.keys : OutRow(query, {r})[i] = OutRow(query, {s})[i]

\* Columns that GROUP BY names and no merge key selects.
Hidden ==
    {c \in Grouped(query) \intersect {"ts", "k"} :
        \A i \in parsed.keys : Bare(query.proj[i].expr) \notin {c, "agg"}}

\* Two rows of one bucket that differ in the column c alone.
DifferIn(c, r, s) ==
    /\ Value("fine", r) = Value("fine", s)
    /\ \A d \in {"ts", "k"} : Value(d, r) = Value(d, s) <=> d # c

\* Of every query that the parser accepts: if no alias hides a column that
\* GROUP BY names, no column is selected twice and no merge key named twice,
\* the merge keys tell rows apart exactly as GROUP BY does.  If no merge key
\* selects a column that GROUP BY names, since an alias hides it, as in SELECT
\* date_trunc('day', ts) AS ts ... GROUP BY ts, or a qualified name is taken for
\* another, then rows of different groups have the same merge keys.
MergeKeysGroup ==
    live = {} =>
        /\ parsed.once /\ HonestNames(query) /\ SelectsOnce(query) =>
              \A r, s \in Row : SameKeys(r, s) <=> Together(query, r, s)
        /\ \A c \in Hidden, r, s \in Row :
              DifferIn(c, r, s) => SameKeys(r, s) /\ ~Together(query, r, s)

\* However often a window is merged again, a group has one row in the target.
OneRowPerGroup ==
    Plain(query) =>
        \A m, n \in DOMAIN target :
            (\A i \in parsed.keys : target[m][i] = target[n][i]) => m = n

\* When the bookmark moves, the target is the query's result at the pinned
\* snapshot, unless a bookmark passed a file without bounds.
PublishedResult ==
    [][Publish /\ ~blind' /\ Plain(query) =>
          IsInjective(target) /\ Range(target) = Result(query, tick.rows)]_vars

-----------------------------------------------------------------------------
(***************************************************************************)
(* What the theorems about the target assume, beyond what the parser       *)
(* checks.                                                                 *)
(***************************************************************************)
\* The key columns hold no NULL.
NoNulls == Null \notin Keys /\ Null \notin Int

\* A row that is overwritten stays in its group: GROUP BY has no bare
\* timestamp, and WHERE no time range of its own.
SteadyQueries ==
    \A q \in Queries :
        Accepted(q) /\ Analysed(q) /\ Plain(q) =>
            /\ ParsedView(q).once => "ts" \notin Grouped(q)
            /\ \A i \in DOMAIN q.where : q.where[i].lo <= 0 /\ Horizon <= q.where[i].hi
=============================================================================
