---------------------------- MODULE MCRowRefresh ----------------------------
(***************************************************************************)
(* Bounded instances of RowRefresh for TLC.                                *)
(***************************************************************************)
EXTENDS RowRefresh

Col(e) == [expr |-> e, alias |-> NoAlias]
As(e, a) == [expr |-> e, alias |-> a]
Aggregate == As("agg", "c")

ByPosition(n) == [pos |-> n, expr |-> ""]
By(e) == [pos |-> 0, expr |-> e]

\* SELECT lists and GROUP BY lists in every spelling the parser tells apart.
Selects ==
    {<<b, k, Aggregate>> : b \in {As("fine", "d"), As("fine", "ts"), As("coarse", "d"),
                                  As("nested", "d"), As("shifted", "d"), Col("fine")},
                           k \in {Col("k"), Col("t.k")}}
    \union {<<As("fine", "d"), Col("t.k"), Col("t.ts"), Aggregate>>,
            <<As("fine", "d"), As("nested", "k"), Aggregate>>,
            <<As("fine", "d"), Aggregate>>, <<As("coarse", "d"), Aggregate>>, <<As("fine", "d")>>}

Groupings ==
    {<<ByPosition(1), ByPosition(2)>>, <<By("fine"), By("k")>>, <<ByPosition(1), By("t.k")>>,
     <<By("ts"), By("k")>>, <<By("d"), By("k")>>, <<ByPosition(1)>>, <<By("coarse")>>,
     <<By("fine"), By("coarse")>>, <<ByPosition(1), By("t.k"), By("t.ts")>>, <<ByPosition(5)>>}

\* No WHERE, or k = a OR k = b.
AOrB == LET real == {c \in Keys : c # Null}
            a == CHOOSE c \in real : TRUE
        IN  <<[AnyRow EXCEPT !.keys = {a}], [AnyRow EXCEPT !.keys = real \ {a}]>>

MCQueries ==
    {q \in [proj : Selects, group : Groupings, where : {<<>>, AOrB}, having : BOOLEAN] :
        q.having \/ q.where # <<>> =>
            q.group \in {<<ByPosition(1)>>, <<ByPosition(1), ByPosition(2)>>}}

\* Files of one row, at the start of a bucket, or of one row for each key;
\* Overwrite reaches the other timestamps.
MCBatches ==
    {{[ts |-> 0, k |-> c] : c \in Keys}}
    \union {{[ts |-> 0, k |-> c]} : c \in Keys}
    \union {{[ts |-> 2, k |-> CHOOSE c \in Keys : TRUE]}}

\* Every query is parsed; those that differ in what they group or filter are
\* run: by a bucket and a column, by a bucket alone under an OR, and by keys
\* whose names collapse into one.
ByFineAndK == [proj |-> <<As("fine", "d"), Col("k"), Aggregate>>,
               group |-> <<ByPosition(1), ByPosition(2)>>, where |-> <<>>, having |-> FALSE]

RunQueries ==
    {ByFineAndK,
     [ByFineAndK EXCEPT !.proj = <<As("fine", "d"), Aggregate>>,
                        !.group = <<ByPosition(1)>>, !.where = AOrB],
     [ByFineAndK EXCEPT !.proj = <<As("fine", "d"), Col("t.k"), Col("t.ts"), Aggregate>>,
                        !.group = <<ByPosition(1), By("t.k"), By("t.ts")>>]}

\* The queries that are run are those the theorems are about.
ASSUME SteadyQueries /\ \A q \in RunQueries : Plain(q)

MCNext == query \in RunQueries /\ Next

MCSpec == Init /\ [][MCNext]_vars
=============================================================================
