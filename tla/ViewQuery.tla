----------------------------- MODULE ViewQuery -----------------------------
(***************************************************************************)
(* A view's query as query_parser.py reads it and as Trino evaluates it:   *)
(* what is accepted, the merge keys derived from GROUP BY, the injected    *)
(* time range, and the result.  SQL text is abstracted to its parts, and   *)
(* an expression to one of these:                                          *)
(*   "fine", "coarse"          date_trunc at two granularities             *)
(*   "nested"                  a function of date_trunc at the fine one    *)
(*   "shifted"                 date_trunc inside arithmetic                *)
(*   "ts", "t.ts", "k", "t.k"  columns, bare or qualified                  *)
(*   "agg"                     an aggregate of the group                   *)
(* An aggregate is represented by the set of timestamps it is made of, so  *)
(* that two groups agree on it only if they hold the same rows.            *)
(***************************************************************************)
EXTENDS Integers, FiniteSets, SequencesExt

CONSTANTS
    Horizon,  \* timestamps are 0..Horizon-1
    Keys,     \* values of the column k
    Null      \* SQL NULL, which k may hold as well

Times == 0..Horizon - 1
Row == [ts : Times, k : Keys]

Columns == {"ts", "t.ts", "k", "t.k"}
Truncs == {"fine", "coarse", "nested", "shifted"}
Exprs == Columns \union Truncs \union {"agg"}

\* The granularity of a date_trunc, and the width of its buckets.
Granularity(e) == IF e = "coarse" THEN "coarse" ELSE "fine"
Width(g) == IF g = "coarse" THEN 4 ELSE 2

\* A column without its qualifier.
Bare(e) == CASE e = "t.ts" -> "ts" [] e = "t.k" -> "k" [] OTHER -> e

\* A query is [proj, group, where, having]: SELECT items [expr, alias], GROUP
\* BY items [pos, expr] by position or (pos = 0) expression, the disjuncts
\* [keys, lo, hi] of WHERE (k in keys and ts in lo..hi-1), and whether HAVING
\* keeps only the groups of one row.
NoAlias == ""

Query ==
    [proj : Seq([expr : Exprs, alias : STRING]),
     group : Seq([pos : Nat, expr : STRING]),
     where : Seq([keys : SUBSET Keys, lo : Int, hi : Int]),
     having : BOOLEAN]

\* A disjunct that filters nothing.
AnyRow == [keys |-> Keys, lo |-> 0, hi |-> Horizon]

(***************************************************************************)
(* parse_view_query.                                                       *)
(***************************************************************************)
\* The column name a SELECT item becomes; a computed one needs an alias.
OutputName(item) == IF item.alias # NoAlias THEN item.alias ELSE Bare(item.expr)

Named(item) == item.alias # NoAlias \/ item.expr \in Columns

\* The first token of an item, all that _canonical keeps.
Canonical(e) == IF e \in {"t.ts", "t.k"} THEN "t" ELSE e

Names(q) == [i \in DOMAIN q.proj |-> OutputName(q.proj[i])]

\* The SELECT items whose canonical form is c.
Alike(q, c) == {i \in DOMAIN q.proj : Canonical(q.proj[i].expr) = c}

Resolves(q, g) ==
    IF g.pos > 0 THEN g.pos \in DOMAIN q.proj
    ELSE Canonical(g.expr) \in Range(Names(q)) \/ Alike(q, Canonical(g.expr)) # {}

\* Fault: positions are counted from zero.
ResolvedFromZero(q, g) ==
    IF g.pos > 0 THEN Names(q)[IF g.pos < Len(q.proj) THEN g.pos + 1 ELSE g.pos]
    ELSE IF Canonical(g.expr) \in Range(Names(q)) THEN Canonical(g.expr)
    ELSE Names(q)[Min(Alike(q, Canonical(g.expr)))]

\* A position, else an alias, else the first SELECT item alike.
Resolved(q, g) ==
    IF g.pos > 0 THEN Names(q)[g.pos]
    ELSE IF Canonical(g.expr) \in Range(Names(q)) THEN Canonical(g.expr)
    ELSE Names(q)[Min(Alike(q, Canonical(g.expr)))]

MergeKeys(q) == [i \in DOMAIN q.group |-> Resolved(q, q.group[i])]

DateTruncs(q) ==
    Truncs \intersect ({q.proj[i].expr : i \in DOMAIN q.proj}
                        \union {q.group[i].expr : i \in DOMAIN q.group})

\* One granularity, never in arithmetic; every item named, every key found.
Accepted(q) ==
    /\ DateTruncs(q) # {} /\ "shifted" \notin DateTruncs(q)
    /\ \A e, f \in DateTruncs(q) : Granularity(e) = Granularity(f)
    /\ q.group # <<>>
    /\ \A i \in DOMAIN q.proj : Named(q.proj[i])
    /\ \A i \in DOMAIN q.group : Resolves(q, q.group[i])

\* The merge keys as columns of the target, whether GROUP BY named each of
\* them once, and the width of the view's buckets.
ParsedView(q) ==
    LET names == Range(MergeKeys(q))
    IN  [keys |-> {i \in DOMAIN q.proj : Names(q)[i] \in names},
         once |-> Cardinality(names) = Len(q.group),
         width |-> Width(Granularity(CHOOSE e \in DateTruncs(q) : TRUE))]

\* Fault: AND binds tighter than the OR of the query's own WHERE.
RangedLast(where, lo, hi) ==
    IF where = <<>> THEN <<[AnyRow EXCEPT !.lo = lo, !.hi = hi]>>
    ELSE [where EXCEPT ![Len(where)].lo = lo, ![Len(where)].hi = hi]

\* inject_range_filter: (body) AND ts >= lo AND ts < hi.
Ranged(where, lo, hi) ==
    IF where = <<>> THEN <<[AnyRow EXCEPT !.lo = lo, !.hi = hi]>>
    ELSE [i \in DOMAIN where |-> [where[i] EXCEPT !.lo = lo, !.hi = hi]]

(***************************************************************************)
(* Trino.                                                                  *)
(***************************************************************************)
\* What a GROUP BY item groups by: a position's expression or a column, but
\* never an alias.
GroupExpr(q, g) == Bare(IF g.pos > 0 THEN q.proj[g.pos].expr ELSE g.expr)

Grouped(q) == {GroupExpr(q, q.group[i]) : i \in DOMAIN q.group}

\* e is a function of the expressions es.
Determined(e, es) ==
    \/ Bare(e) \in es
    \/ e \in {"fine", "coarse", "nested"} /\ "ts" \in es
    \/ e = "nested" /\ "fine" \in es

\* Trino takes the query: names differ, and all but aggregates is grouped.
Analysed(q) ==
    /\ \A i, j \in DOMAIN q.proj : Names(q)[i] = Names(q)[j] => i = j
    /\ \A i \in DOMAIN q.group : q.group[i].pos = 0 => q.group[i].expr \in Exprs \ {"agg"}
    /\ "agg" \notin Grouped(q)
    /\ \A i \in DOMAIN q.proj : q.proj[i].expr = "agg" \/ Determined(q.proj[i].expr, Grouped(q))

Value(e, row) ==
    CASE Bare(e) = "ts" -> row.ts
      [] Bare(e) = "k" -> row.k
      [] e = "fine" -> row.ts \div Width("fine")
      [] e = "coarse" -> row.ts \div Width("coarse")
      [] e = "nested" -> 0

Passes(where, row) ==
    where = <<>> \/ \E i \in DOMAIN where :
        row.k \in where[i].keys /\ where[i].lo <= row.ts /\ row.ts < where[i].hi

Together(q, r, s) == \A e \in Grouped(q) : Value(e, r) = Value(e, s)

\* The groups of the query over rows, each a set of rows.  NULL is a group.
Groups(q, rows) ==
    LET passing == {r \in rows : Passes(q.where, r)}
        groups == {{s \in passing : Together(q, r, s)} : r \in passing}
    IN  {g \in groups : q.having => Cardinality(g) < 2}

\* The row that a group becomes, column by column.
OutRow(q, g) ==
    [i \in DOMAIN q.proj |->
        IF q.proj[i].expr = "agg" THEN {r.ts : r \in g}
        ELSE Value(q.proj[i].expr, CHOOSE r \in g : TRUE)]

Result(q, rows) == {OutRow(q, g) : g \in Groups(q, rows)}
=============================================================================
