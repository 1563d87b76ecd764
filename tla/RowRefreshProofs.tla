-------------------------- MODULE RowRefreshProofs --------------------------
(***************************************************************************)
(* The rows of a view, for queries and tables of any size.                 *)
(***************************************************************************)
EXTENDS RowRefresh, FunctionTheorems, FiniteSetTheorems, SequenceTheorems, TLAPS

-----------------------------------------------------------------------------
(***************************************************************************)
(* Least and greatest elements.                                            *)
(***************************************************************************)
\* A set of naturals has a least element.
LEMMA MinOf ==
    ASSUME NEW S \in SUBSET Nat, S # {}
    PROVE  Min(S) \in S /\ \A y \in S : Min(S) <= y
<1>1. \E x \in S : \A y \in S : ~(<<y, x>> \in OpToRel(<, Nat))
  BY WFMin, NatLessThanWellFounded, Zenon
<1>2. PICK x \in S : \A y \in S : ~(<<y, x>> \in OpToRel(<, Nat))
  BY <1>1, Zenon
<1>3. \A y \in S : ~(y < x)
  BY <1>2, Zenon DEF OpToRel
<1>4. \A y \in S : x <= y
  BY <1>3
<1> QED
  BY <1>4 DEF Min

\* A bounded one has a greatest.
LEMMA MaxOf ==
    ASSUME NEW n \in Nat, NEW S \in SUBSET (0..n), S # {}
    PROVE  Max(S) \in S /\ \A y \in S : y <= Max(S)
<1> DEFINE T == {n - x : x \in S}
<1>1. T \in SUBSET Nat /\ T # {}
  <2>1. \A x \in S : x \in Nat /\ x <= n
    OBVIOUS
  <2>2. \A x \in S : n - x \in Nat
    BY <2>1
  <2> QED
    BY <2>2
<1>2. Min(T) \in T /\ \A y \in T : Min(T) <= y
  BY <1>1, MinOf
<1>3. PICK x \in S : Min(T) = n - x
  BY <1>2
<1>4. \A y \in S : n - x <= n - y
  BY <1>2, <1>3
<1>5. \A y \in S : x >= y
  BY <1>4
<1> QED
  BY <1>5 DEF Max

-----------------------------------------------------------------------------
(***************************************************************************)
(* Values of expressions.                                                  *)
(***************************************************************************)
\* A qualifier does not change what an expression is or means.
LEMMA BareValue ==
    ASSUME NEW e \in Exprs, NEW r
    PROVE  /\ Bare(e) \in Exprs /\ Bare(Bare(e)) = Bare(e)
           /\ Value(Bare(e), r) = Value(e, r)
  BY DEF Exprs, Columns, Truncs, Bare, Value

\* A column or a date_trunc of a row is a timestamp or a key.
LEMMA ValueType ==
    ASSUME NEW e \in Exprs \ {"agg", "shifted"}, NEW r \in Row
    PROVE  Value(e, r) \in Times \union Keys
<1>1. r.ts \in Times /\ r.k \in Keys /\ Horizon \in Nat
  BY RowAssumption DEF Row
<1>2. r.ts \div 2 \in Times /\ r.ts \div 4 \in Times /\ 0 \in Times
  BY <1>1 DEF Times
<1> QED
  BY <1>1, <1>2 DEF Exprs, Columns, Truncs, Value, Bare, Width

\* Expressions that es determines agree on rows that agree on es.
LEMMA DeterminedValue ==
    ASSUME NEW e \in Exprs, NEW es, Determined(e, es), NEW r \in Row, NEW s \in Row,
           \A f \in es : Value(f, r) = Value(f, s)
    PROVE  Value(e, r) = Value(e, s)
<1>1. CASE Bare(e) \in es
  BY <1>1, BareValue
<1>2. CASE e \in {"fine", "coarse", "nested"} /\ "ts" \in es
  <2>1. r.ts = s.ts
    BY <1>2 DEF Value, Bare
  <2> QED
    BY <1>2, <2>1 DEF Value, Bare
<1>3. CASE e = "nested" /\ "fine" \in es
  BY <1>3 DEF Value, Bare
<1> QED
  BY <1>1, <1>2, <1>3 DEF Determined

-----------------------------------------------------------------------------
(***************************************************************************)
(* Merge keys.                                                             *)
(***************************************************************************)
\* The SELECT item that a GROUP BY item resolves to.
Item(q, g) ==
    IF g.pos > 0 THEN g.pos
    ELSE IF Canonical(g.expr) \in Range(Names(q))
         THEN CHOOSE i \in DOMAIN q.proj : Names(q)[i] = Canonical(g.expr)
    ELSE Min(Alike(q, Canonical(g.expr)))

\* The parts of a query.
LEMMA QueryParts ==
    ASSUME NEW q \in Query
    PROVE  /\ Len(q.proj) \in Nat /\ DOMAIN q.proj = 1..Len(q.proj)
           /\ Len(q.group) \in Nat /\ DOMAIN q.group = 1..Len(q.group)
           /\ \A i \in DOMAIN q.proj : q.proj[i].expr \in Exprs
           /\ \A j \in DOMAIN q.group : q.group[j].pos \in Nat
           /\ q.having \in BOOLEAN
<1>1. /\ q.proj \in Seq([expr : Exprs, alias : STRING])
      /\ q.group \in Seq([pos : Nat, expr : STRING])
      /\ q.having \in BOOLEAN
  BY DEF Query
<1>2. /\ \A i \in 1..Len(q.proj) : q.proj[i] \in [expr : Exprs, alias : STRING]
      /\ \A j \in 1..Len(q.group) : q.group[j] \in [pos : Nat, expr : STRING]
  BY <1>1, ElementOfSeq
<1> QED
  BY <1>1, <1>2, LenProperties

\* Every GROUP BY item of an accepted query is one of its SELECT items.
LEMMA ItemResolves ==
    ASSUME NEW q \in Query, Accepted(q), NEW j \in DOMAIN q.group
    PROVE  /\ Item(q, q.group[j]) \in DOMAIN q.proj
           /\ Names(q)[Item(q, q.group[j])] = Resolved(q, q.group[j])
           /\ q.group[j].pos = 0 /\ Canonical(q.group[j].expr) \notin Range(Names(q))
                => Item(q, q.group[j]) \in Alike(q, Canonical(q.group[j].expr))
<1> DEFINE g == q.group[j]
           c == Canonical(g.expr)
<1>1. Resolves(q, g) /\ g.pos \in Nat
  BY QueryParts DEF Accepted
<1>2. DOMAIN q.proj \in SUBSET Nat /\ DOMAIN Names(q) = DOMAIN q.proj
  BY QueryParts DEF Names
<1>3. CASE g.pos > 0
  BY <1>1, <1>3 DEF Resolves, Item, Resolved
<1>4. CASE g.pos = 0 /\ c \in Range(Names(q))
  <2>1. \E i \in DOMAIN q.proj : Names(q)[i] = c
    BY <1>2, <1>4 DEF Range
  <2> QED
    BY <1>4, <2>1 DEF Item, Resolved
<1>5. CASE g.pos = 0 /\ c \notin Range(Names(q))
  <2>1. Alike(q, c) # {} /\ Alike(q, c) \in SUBSET Nat /\ Alike(q, c) \subseteq DOMAIN q.proj
    BY <1>1, <1>2, <1>5 DEF Resolves, Alike
  <2>2. Min(Alike(q, c)) \in Alike(q, c)
    BY <2>1, MinOf
  <2> QED
    BY <1>5, <2>1, <2>2 DEF Item, Resolved
<1> QED
  BY <1>1, <1>3, <1>4, <1>5

\* What the SELECT items and GROUP BY items of a query that Trino takes are.
LEMMA AnalysedItems ==
    ASSUME NEW q \in Query, Accepted(q), Analysed(q)
    PROVE  /\ \A i \in DOMAIN q.proj : q.proj[i].expr \in Exprs \ {"shifted"}
           /\ \A j \in DOMAIN q.group : q.group[j].pos = 0 => q.group[j].expr \in Exprs \ {"agg"}
           /\ \A i \in DOMAIN q.proj :
                 q.proj[i].expr = "agg" \/ Determined(q.proj[i].expr, Grouped(q))
<1>1. \A i \in DOMAIN q.proj : q.proj[i].expr \in Exprs
  BY QueryParts
<1>2. \A i \in DOMAIN q.proj : q.proj[i].expr # "shifted"
  BY DEF Accepted, DateTruncs, Truncs
<1> QED
  BY <1>1, <1>2 DEF Analysed

\* Resolving finds the expression grouped by, unless the item is qualified
\* and taken for the first qualified column of the SELECT list.
LEMMA ItemExpr ==
    ASSUME NEW q \in Query, Accepted(q), Analysed(q), HonestNames(q), NEW j \in DOMAIN q.group
    PROVE  LET g == q.group[j]
               i == Item(q, g)
           IN  \/ Bare(q.proj[i].expr) = GroupExpr(q, g)
               \/ /\ g.pos = 0 /\ g.expr \in {"t.ts", "t.k"}
                  /\ q.proj[i].expr \in {"t.ts", "t.k"}
                  /\ "t" \notin Range(Names(q)) /\ i = Min(Alike(q, "t"))
<1> DEFINE g == q.group[j]
           i == Item(q, g)
<1>1. g.pos \in Nat
  BY QueryParts
<1>2. i \in DOMAIN q.proj /\ q.proj[i].expr \in Exprs
  BY ItemResolves, AnalysedItems
<1>3. CASE g.pos > 0
  BY <1>3 DEF Item, GroupExpr
<1>4. CASE g.pos = 0 /\ Canonical(g.expr) \in Range(Names(q))
  <2>1. \E m \in DOMAIN q.proj : Names(q)[m] = Canonical(g.expr)
    BY <1>4 DEF Range, Names
  <2>2. Names(q)[i] = Canonical(g.expr)
    BY <1>4, <2>1 DEF Item
  <2> QED
    BY <1>2, <1>4, <2>2 DEF HonestNames, GroupExpr
<1>5. CASE g.pos = 0 /\ Canonical(g.expr) \notin Range(Names(q))
  <2>1. i \in Alike(q, Canonical(g.expr)) /\ i = Min(Alike(q, Canonical(g.expr)))
    BY <1>5, ItemResolves DEF Item
  <2>2. Canonical(q.proj[i].expr) = Canonical(g.expr)
    BY <2>1 DEF Alike
  <2>3. g.expr \in Exprs
    BY <1>5, AnalysedItems
  <2>4. CASE g.expr \in {"t.ts", "t.k"}
    <3>1. Canonical(g.expr) = "t"
      BY <2>4 DEF Canonical
    <3>2. q.proj[i].expr \in {"t.ts", "t.k"}
      BY <1>2, <2>2, <3>1 DEF Canonical, Exprs, Columns, Truncs
    <3> QED
      BY <1>5, <2>1, <2>4, <3>1, <3>2
  <2>5. CASE g.expr \notin {"t.ts", "t.k"}
    <3>1. Canonical(g.expr) = g.expr /\ g.expr # "t"
      BY <2>3, <2>5 DEF Canonical, Exprs, Columns, Truncs
    <3>2. q.proj[i].expr = g.expr
      BY <2>2, <3>1 DEF Canonical
    <3> QED
      BY <1>5, <3>2 DEF GroupExpr
  <2> QED
    BY <2>4, <2>5
<1> QED
  BY <1>1, <1>3, <1>4, <1>5

\* Named once each, the GROUP BY items are different merge keys.
LEMMA KeysDiffer ==
    ASSUME NEW q \in Query, ParsedView(q).once,
           NEW i \in DOMAIN q.group, NEW j \in DOMAIN q.group,
           Resolved(q, q.group[i]) = Resolved(q, q.group[j])
    PROVE  i = j
<1> DEFINE f == MergeKeys(q)
           S == DOMAIN q.group
<1>1. S = 1..Len(q.group) /\ Len(q.group) \in Nat
  BY QueryParts
<1>2. IsFiniteSet(S) /\ Cardinality(S) = Len(q.group)
  <2>1. Cardinality(1..Len(q.group)) = IF 1 > Len(q.group) THEN 0 ELSE Len(q.group) - 1 + 1
    BY <1>1, FS_Interval, 1 \in Int, Len(q.group) \in Int
  <2>2. IsFiniteSet(1..Len(q.group))
    BY <1>1, FS_Interval, 1 \in Int, Len(q.group) \in Int
  <2> QED
    BY <1>1, <2>1, <2>2
<1>3. f \in [S -> Range(f)] /\ DOMAIN f = S
  BY DEF MergeKeys, Range
<1>4. f \in Surjection(S, Range(f))
  BY <1>3, Fun_RangeProperties
<1>5. Cardinality(Range(f)) = Len(q.group)
  BY DEF ParsedView
<1>6. f \in Injection(S, Range(f))
  BY <1>2, <1>4, <1>5, FS_SurjSameCardinalityImpliesInj
<1>7. f[i] = f[j]
  BY DEF MergeKeys
<1> HIDE DEF f
<1>8. \A a, b \in S : f[a] = f[b] => a = b
  BY <1>6 DEF Injection, IsInjective
<1> QED
  BY <1>7, <1>8

\* The merge keys are the items that GROUP BY resolves to, none an aggregate.
LEMMA KeyItems ==
    ASSUME NEW q \in Query, Accepted(q), Analysed(q), HonestNames(q)
    PROVE  /\ \A j \in DOMAIN q.group : Item(q, q.group[j]) \in ParsedView(q).keys
           /\ \A i \in ParsedView(q).keys : \E j \in DOMAIN q.group : i = Item(q, q.group[j])
           /\ \A i \in ParsedView(q).keys :
                 i \in DOMAIN q.proj /\ q.proj[i].expr \in Exprs \ {"agg", "shifted"}
<1>1. Range(MergeKeys(q)) = {Resolved(q, q.group[j]) : j \in DOMAIN q.group}
  BY DEF MergeKeys, Range
<1>2. ParsedView(q).keys = {i \in DOMAIN q.proj : Names(q)[i] \in Range(MergeKeys(q))}
  BY DEF ParsedView
<1>3. ASSUME NEW j \in DOMAIN q.group
      PROVE  /\ Item(q, q.group[j]) \in DOMAIN q.proj
             /\ Names(q)[Item(q, q.group[j])] = Resolved(q, q.group[j])
  BY ItemResolves
<1>4. \A j \in DOMAIN q.group : Item(q, q.group[j]) \in ParsedView(q).keys
  BY <1>1, <1>2, <1>3
<1>5. ASSUME NEW i \in ParsedView(q).keys
      PROVE  \E j \in DOMAIN q.group : i = Item(q, q.group[j])
  <2>1. PICK j \in DOMAIN q.group : Names(q)[i] = Resolved(q, q.group[j])
    BY <1>1, <1>2
  <2> QED
    BY <1>2, <1>3, <2>1 DEF Analysed
<1>6. ASSUME NEW i \in ParsedView(q).keys
      PROVE  i \in DOMAIN q.proj /\ q.proj[i].expr \in Exprs \ {"agg", "shifted"}
  <2>1. PICK j \in DOMAIN q.group : i = Item(q, q.group[j])
    BY <1>5
  <2>2. GroupExpr(q, q.group[j]) # "agg"
    BY DEF Analysed, Grouped
  <2>3. q.proj[i].expr # "agg"
    BY <2>1, <2>2, ItemExpr DEF Bare
  <2> QED
    BY <1>2, <2>3, AnalysedItems
<1> QED
  BY <1>4, <1>5, <1>6

\* Rows of one group agree on the merge keys.
LEMMA TogetherSameKeys ==
    ASSUME NEW q \in Query, Accepted(q), Analysed(q), HonestNames(q),
           NEW r \in Row, NEW s \in Row, Together(q, r, s), NEW i \in ParsedView(q).keys
    PROVE  Value(q.proj[i].expr, r) = Value(q.proj[i].expr, s)
<1>1. q.proj[i].expr \in Exprs /\ Determined(q.proj[i].expr, Grouped(q))
  BY KeyItems, AnalysedItems
<1> QED
  BY <1>1, DeterminedValue DEF Together

\* Each merge key is the expression that its GROUP BY item groups by.
LEMMA KeyIsGrouped ==
    ASSUME NEW q \in Query, Accepted(q), Analysed(q), HonestNames(q), SelectsOnce(q),
           ParsedView(q).once, NEW j \in DOMAIN q.group
    PROVE  Bare(q.proj[Item(q, q.group[j])].expr) = GroupExpr(q, q.group[j])
<1> DEFINE g == q.group[j]
           i == Item(q, g)
           e == q.proj[i].expr
<1>1. SUFFICES ASSUME Bare(e) # GroupExpr(q, g) PROVE FALSE
  OBVIOUS
<1>2. /\ e \in {"t.ts", "t.k"} /\ i = Min(Alike(q, "t")) /\ i \in DOMAIN q.proj
  BY <1>1, ItemExpr, ItemResolves
<1>3. Bare(e) \in Grouped(q)
  BY <1>2, AnalysedItems DEF Determined
<1>4. PICK m \in DOMAIN q.group : GroupExpr(q, q.group[m]) = Bare(e)
  BY <1>3 DEF Grouped
<1> DEFINE h == Item(q, q.group[m])
<1>5. h \in DOMAIN q.proj
  BY ItemResolves
<1>6. h = i
  <2>1. CASE Bare(q.proj[h].expr) = Bare(e)
    BY <1>2, <1>5, <2>1 DEF SelectsOnce, Columns
  <2>2. CASE h = Min(Alike(q, "t"))
    BY <1>2, <2>2
  <2> QED
    BY <1>4, <2>1, <2>2, ItemExpr
<1>7. Resolved(q, q.group[m]) = Resolved(q, q.group[j])
  BY <1>6, ItemResolves
<1>8. m = j
  BY <1>7, KeysDiffer
<1> QED
  BY <1>1, <1>4, <1>8

\* Merge keys tell rows apart exactly as GROUP BY does.
LEMMA KeysTellGroups ==
    ASSUME NEW q \in Query, Accepted(q), Analysed(q), HonestNames(q), SelectsOnce(q),
           ParsedView(q).once, NEW r \in Row, NEW s \in Row
    PROVE  Together(q, r, s)
             <=> \A i \in ParsedView(q).keys :
                    Value(q.proj[i].expr, r) = Value(q.proj[i].expr, s)
<1>1. SUFFICES ASSUME \A i \in ParsedView(q).keys :
                         Value(q.proj[i].expr, r) = Value(q.proj[i].expr, s),
                      NEW e \in Grouped(q)
               PROVE  Value(e, r) = Value(e, s)
  BY TogetherSameKeys DEF Together
<1>2. PICK j \in DOMAIN q.group : e = GroupExpr(q, q.group[j])
  BY DEF Grouped
<1> DEFINE i == Item(q, q.group[j])
<1>3. i \in ParsedView(q).keys /\ q.proj[i].expr \in Exprs
  BY KeyItems
<1>4. e = Bare(q.proj[i].expr)
  BY <1>2, KeyIsGrouped
<1> QED
  BY <1>1, <1>3, <1>4, BareValue

-----------------------------------------------------------------------------
\* The group of r among rows R under the filter w, and the row it becomes.
GroupOf(q, w, r, R) == {s \in R : Passes(w, s) /\ Together(q, r, s)}

Out(q, w, r, R) == OutRow(q, GroupOf(q, w, r, R))

Passing(R) == {r \in R : Passes(query.where, r)}

\* t carries the key of r's group.
Keyed(t, r) == \A i \in parsed.keys : t[i] = Value(query.proj[i].expr, r)

Bucket(r) == r.ts \div parsed.width

\* One of the files after the first k has a row in the bucket of r.
Touched(files, k, r) == \E m \in (k + 1)..Len(files) : \E u \in files[m].rows : Bucket(u) = Bucket(r)

\* The group of r, over R, is in the target.
Fresh(r, R) == \E n \in DOMAIN target : target[n] = Out(query, query.where, r, R)

InWindow(r) == tick.lo <= r.ts /\ r.ts < tick.hi

QueryOK ==
    /\ query \in Queries /\ Accepted(query) /\ Analysed(query)
    /\ parsed = ParsedView(query)

TickOK ==
    /\ DOMAIN tick = DOMAIN NoTick
    /\ tick.blind \in BOOLEAN
    /\ tick.lo % parsed.width = 0 /\ tick.hi % parsed.width = 0
    /\ IsFiniteSet(tick.rows) /\ IsFiniteSet(RowsOf(live))
    /\ tick.pc = "idle" => tick = NoTick

\* Every row of the target is the row of a group that the source has, and
\* that the pinned snapshot of a running tick has.
NoOrphan ==
    /\ ~parsed.once => target = <<>>
    /\ \A n \in DOMAIN target : \E r \in Passing(RowsOf(live)) : Keyed(target[n], r)
    /\ tick.pc # "idle" =>
          \A n \in DOMAIN target : \E r \in Passing(tick.rows) : Keyed(target[n], r)

\* Overwrite may put s in the place of r.
Replaces(s, r) == s.k = r.k /\ s.ts \div Width("fine") = r.ts \div Width("fine")

\* The live rows differ from the pinned ones only in the buckets of files
\* that were added since, and a pinned row still has a like in its group.
PinOK ==
    tick.pc # "idle" =>
        /\ \A r \in tick.rows : \E s \in RowsOf(live) : Replaces(s, r)
        /\ \A r \in tick.rows \union RowsOf(live) :
              ~Touched(added, tick.seen, r) => (r \in tick.rows <=> r \in RowsOf(live))

\* Behind the bookmark, the target is up to date but for the buckets of the
\* files added since; so it is, during a tick, but for the tick's window.
FreshOK ==
    /\ marked /\ ~blind =>
          \A r \in Passing(RowsOf(live)) :
              ~Touched(added, 0, r) => Fresh(r, RowsOf(live))
    /\ tick.pc # "idle" /\ ~blind /\ ~tick.blind =>
          \A r \in Passing(tick.rows) :
              tick.pc = "publish" \/ ~InWindow(r) => Fresh(r, tick.rows)

-----------------------------------------------------------------------------
(***************************************************************************)
(* Groups and the rows they become.                                        *)
(***************************************************************************)
\* The filter of a query does not change what it groups by and selects.
LEMMA Refiltered ==
    ASSUME NEW q \in Query, NEW w, NEW R
    PROVE  /\ Groups([q EXCEPT !.where = w], R)
                = {g \in {GroupOf(q, w, r, R) : r \in {r \in R : Passes(w, r)}} :
                      q.having => Cardinality(g) < 2}
           /\ \A g : OutRow([q EXCEPT !.where = w], g) = OutRow(q, g)
<1> DEFINE p == [q EXCEPT !.where = w]
<1>1. p.where = w /\ p.proj = q.proj /\ p.group = q.group /\ p.having = q.having
  BY DEF Query
<1> HIDE DEF p
<1>2. Grouped(p) = Grouped(q)
  BY <1>1 DEF Grouped, GroupExpr
<1>3. \A r, s : Together(p, r, s) <=> Together(q, r, s)
  BY <1>2 DEF Together
<1>4. \A r : {s \in {r_1 \in R : Passes(w, r_1)} : Together(p, r, s)} = GroupOf(q, w, r, R)
  BY <1>3 DEF GroupOf
<1>5. Groups(p, R)
        = {g \in {GroupOf(q, w, r, R) : r \in {r \in R : Passes(w, r)}} :
              q.having => Cardinality(g) < 2}
  BY <1>1, <1>4 DEF Groups
<1>6. \A g : OutRow(p, g) = OutRow(q, g)
  BY <1>1 DEF OutRow
<1> QED
  BY <1>5, <1>6 DEF p

\* The result has a row for each group: only such, and without HAVING all.
LEMMA ResultRows ==
    ASSUME NEW q \in Query, NEW w, NEW R
    PROVE  LET res == Result([q EXCEPT !.where = w], R)
               all == {Out(q, w, r, R) : r \in {r \in R : Passes(w, r)}}
           IN  res \subseteq all /\ (~q.having => res = all)
<1> DEFINE p == [q EXCEPT !.where = w]
           groups == {GroupOf(q, w, r, R) : r \in {r \in R : Passes(w, r)}}
<1>1. Groups(p, R) = {g \in groups : q.having => Cardinality(g) < 2}
  BY Refiltered
<1>2. \A g : OutRow(p, g) = OutRow(q, g)
  BY Refiltered
<1> HIDE DEF p
<1>3. Result(p, R) = {OutRow(q, g) : g \in {g \in groups : q.having => Cardinality(g) < 2}}
  BY <1>1, <1>2 DEF Result
<1>4. {OutRow(q, g) : g \in groups} = {Out(q, w, r, R) : r \in {r \in R : Passes(w, r)}}
  BY DEF Out
<1> QED
  BY <1>3, <1>4 DEF p

\* A group holds the row it is the group of, and rows of R together with it.
LEMMA GroupRows ==
    ASSUME NEW q, NEW w, NEW R, NEW r \in R, Passes(w, r)
    PROVE  /\ r \in GroupOf(q, w, r, R)
           /\ (CHOOSE s \in GroupOf(q, w, r, R) : TRUE) \in GroupOf(q, w, r, R)
           /\ GroupOf(q, w, r, R) \subseteq R
           /\ \A s \in GroupOf(q, w, r, R) : Together(q, r, s)
<1>1. r \in GroupOf(q, w, r, R)
  BY DEF GroupOf, Together
<1> QED
  BY <1>1 DEF GroupOf

\* Every column of a result row is in its range.
LEMMA OutType ==
    ASSUME NEW q \in Query, Accepted(q), Analysed(q), NEW w,
           NEW R \in SUBSET Row, NEW r \in R, Passes(w, r)
    PROVE  LET t == Out(q, w, r, R)
           IN  /\ DOMAIN t = DOMAIN q.proj
               /\ \A i \in DOMAIN t : IF q.proj[i].expr = "agg" THEN t[i] \subseteq Times
                                      ELSE t[i] \in Times \union Keys
<1> DEFINE g == GroupOf(q, w, r, R)
           one == CHOOSE s \in g : TRUE
<1>1. g \subseteq Row /\ one \in Row
  BY GroupRows
<1>2. ASSUME NEW s \in Row PROVE s.ts \in Times
  BY DEF Row
<1>3. {s.ts : s \in g} \subseteq Times
  BY <1>1, <1>2
<1>4. ASSUME NEW i \in DOMAIN q.proj, q.proj[i].expr # "agg"
      PROVE  Value(q.proj[i].expr, one) \in Times \union Keys
  BY <1>1, <1>4, AnalysedItems, ValueType
<1> HIDE DEF g, one
<1>5. Out(q, w, r, R) = [i \in DOMAIN q.proj |->
                            IF q.proj[i].expr = "agg" THEN {s.ts : s \in g}
                            ELSE Value(q.proj[i].expr, one)]
  BY DEF Out, OutRow, g, one
<1> QED
  BY <1>3, <1>4, <1>5

\* A result row carries the key of every row of its group.
LEMMA OutKey ==
    ASSUME NEW q \in Query, Accepted(q), Analysed(q), HonestNames(q), NEW w,
           NEW R \in SUBSET Row, NEW r \in R, Passes(w, r), NEW i \in ParsedView(q).keys
    PROVE  Out(q, w, r, R)[i] = Value(q.proj[i].expr, r)
<1> DEFINE g == GroupOf(q, w, r, R)
           one == CHOOSE s \in g : TRUE
<1>1. one \in Row /\ r \in Row /\ Together(q, r, one)
  BY GroupRows
<1>2. i \in DOMAIN q.proj /\ q.proj[i].expr # "agg"
  BY KeyItems
<1>3. Value(q.proj[i].expr, r) = Value(q.proj[i].expr, one)
  BY <1>1, TogetherSameKeys
<1> HIDE DEF one
<1>4. Out(q, w, r, R)[i] = Value(q.proj[i].expr, one)
  BY <1>2 DEF Out, OutRow, one
<1> QED
  BY <1>3, <1>4

\* Rows of one group have the same group, and become the same result row.
LEMMA SameOut ==
    ASSUME NEW q, NEW w, NEW R, NEW r, NEW s, Together(q, r, s)
    PROVE  Out(q, w, r, R) = Out(q, w, s, R)
<1>1. GroupOf(q, w, r, R) = GroupOf(q, w, s, R)
  BY DEF GroupOf, Together
<1> QED
  BY <1>1 DEF Out

\* The result of finitely many rows is finite.
LEMMA ResultFinite ==
    ASSUME NEW q \in Query, NEW w, NEW R, IsFiniteSet(R)
    PROVE  IsFiniteSet(Result([q EXCEPT !.where = w], R))
<1> DEFINE P == {r \in R : Passes(w, r)}
           f == [r \in P |-> Out(q, w, r, R)]
<1>1. IsFiniteSet(P)
  BY FS_Subset
<1>2. f \in [P -> Range(f)] /\ Range(f) = {Out(q, w, r, R) : r \in P}
  BY DEF Range
<1> HIDE DEF f
<1>3. f \in Surjection(P, Range(f))
  BY <1>2, Fun_RangeProperties
<1>4. IsFiniteSet(Range(f))
  BY <1>1, <1>3, FS_Surjection
<1>5. Result([q EXCEPT !.where = w], R) \subseteq Range(f)
  BY <1>2, ResultRows
<1> QED
  BY <1>4, <1>5, FS_Subset

-----------------------------------------------------------------------------
(***************************************************************************)
(* Sequences that list a set.                                              *)
(***************************************************************************)
\* SetToSeq lists each element of a finite set once.
LEMMA SetToSeqLists ==
    ASSUME NEW S, IsFiniteSet(S)
    PROVE  /\ SetToSeq(S) \in Seq(S) /\ IsInjective(SetToSeq(S))
           /\ \A s \in S : \E n \in DOMAIN SetToSeq(S) : SetToSeq(S)[n] = s
<1> DEFINE k == Cardinality(S)
           f == SetToSeq(S)
<1>1. k \in Nat /\ \E b : b \in Bijection(1..k, S)
  BY FS_CardinalityType DEF ExistsBijection
<1>2. \E b \in [1..k -> S] : IsInjective(b)
  BY <1>1 DEF Bijection, Injection
<1>3. f \in [1..k -> S] /\ IsInjective(f)
  BY <1>2 DEF SetToSeq
<1> HIDE DEF f
<1>4. f \in Seq(S)
  BY <1>1, <1>3, IsASeq
<1>5. f \in Injection(1..k, S)
  BY <1>3 DEF Injection
<1>6. Cardinality(1..k) = k
  <2>1. Cardinality(1..k) = IF 1 > k THEN 0 ELSE k - 1 + 1
    BY <1>1, FS_Interval, 1 \in Int, k \in Int
  <2> HIDE DEF k
  <2> QED
    BY <1>1, <2>1
<1>7. f \in Surjection(1..k, S)
  BY <1>5, <1>6, FS_Injection
<1>8. \A s \in S : \E n \in 1..k : f[n] = s
  BY <1>7 DEF Surjection
<1>9. \A s \in S : \E n \in DOMAIN f : f[n] = s
  BY <1>3, <1>8
<1> QED
  BY <1>3, <1>4, <1>9 DEF f

-----------------------------------------------------------------------------
(***************************************************************************)
(* Type correctness.                                                       *)
(***************************************************************************)
\* The view's buckets are two or four timestamps wide.
LEMMA WidthType ==
    ASSUME QueryOK
    PROVE  query \in Query /\ parsed.width \in {2, 4}
  BY RowAssumption DEF QueryOK, ParsedView, Width

\* The source of a MERGE is a finite set of result rows of pinned rows.
LEMMA MergeSourceRows ==
    ASSUME QueryOK, TickOK
    PROVE  LET w == Ranged(query.where, tick.lo, tick.hi)
           IN  /\ IsFiniteSet(MergeSource)
               /\ MergeSource = Result([query EXCEPT !.where = w], tick.rows)
               /\ \A s \in MergeSource : \E r \in tick.rows :
                     Passes(w, r) /\ s = Out(query, w, r, tick.rows)
<1> DEFINE w == Ranged(query.where, tick.lo, tick.hi)
<1>1. query \in Query
  BY WidthType
<1>2. MergeSource = Result([query EXCEPT !.where = w], tick.rows)
  BY DEF MergeSource
<1> HIDE DEF w
<1>3. IsFiniteSet(MergeSource)
  BY <1>1, <1>2, ResultFinite DEF TickOK
<1>4. \A s \in MergeSource : \E r \in tick.rows :
         Passes(w, r) /\ s = Out(query, w, r, tick.rows)
  <2>1. MergeSource \subseteq {Out(query, w, r, tick.rows) : r \in {r \in tick.rows : Passes(w, r)}}
    BY <1>1, <1>2, ResultRows
  <2> QED
    BY <2>1
<1> QED
  BY <1>2, <1>3, <1>4 DEF w

\* A row of the target is kept, or replaced by a row that matches it.
LEMMA UpdatedRow ==
    ASSUME NEW t
    PROVE  (Matched(t) = {} /\ Updated(t) = t) \/ Updated(t) \in Matched(t)
  BY DEF Updated

\* The target after a MERGE: its rows updated in place, then the unmatched
\* rows of the source, each once.
LEMMA MergedTarget ==
    ASSUME TypeOK, QueryOK, TickOK, Merge, Executes
    PROVE  /\ target' \in Seq(Range(target)')
           /\ DOMAIN target \subseteq DOMAIN target'
           /\ \A n \in DOMAIN target : target'[n] = Updated(target[n])
           /\ \A n \in DOMAIN target' \ DOMAIN target : target'[n] \in Unmatched
           /\ \A s \in Unmatched : \E n \in DOMAIN target' \ DOMAIN target : target'[n] = s
           /\ \A m, n \in DOMAIN target' \ DOMAIN target : target'[m] = target'[n] => m = n
<1> DEFINE old == [n \in DOMAIN target |-> Updated(target[n])]
           new == SetToSeq(Unmatched)
           rows == Range(old) \union Unmatched
           k == Len(target)
<1>1. IsFiniteSet(Unmatched)
  BY MergeSourceRows, FS_Subset DEF Unmatched
<1>2. /\ new \in Seq(Unmatched) /\ IsInjective(new)
      /\ \A s \in Unmatched : \E m \in DOMAIN new : new[m] = s
  BY <1>1, SetToSeqLists
<1>3. k \in Nat /\ DOMAIN target = 1..k
  BY LenProperties DEF TypeOK
<1>4. target' = old \o new
  BY DEF Merge
<1>5. old \in Seq(rows) /\ Len(old) = k /\ \A n \in 1..k : old[n] = Updated(target[n])
  <2>1. old \in [1..k -> rows]
    BY <1>3 DEF Range
  <2>2. old \in Seq(rows)
    BY <1>3, <2>1, IsASeq
  <2> QED
    BY <1>3, <2>1, <2>2, LenProperties
<1>6. new \in Seq(rows)
  BY <1>2, SeqMonotonic
<1> HIDE DEF old, new, rows
<1> DEFINE l == Len(new)
<1>7. /\ l \in Nat /\ DOMAIN new = 1..l
      /\ \A m \in 1..l : new[m] \in Unmatched
  BY <1>2, LenProperties, ElementOfSeq
<1>8. /\ target' \in Seq(rows) /\ Len(target') = k + l
      /\ \A n \in 1..(k + l) : target'[n] = IF n <= k THEN old[n] ELSE new[n - k]
  <2>1. /\ old \o new \in Seq(rows) /\ Len(old \o new) = Len(old) + Len(new)
        /\ \A n \in 1..(Len(old) + Len(new)) :
              (old \o new)[n] = IF n <= Len(old) THEN old[n] ELSE new[n - Len(old)]
    BY <1>5, <1>6, ConcatProperties
  <2> QED
    BY <1>4, <1>5, <2>1
<1> HIDE DEF l, k
<1>9. DOMAIN target' = 1..(k + l)
  BY <1>8, LenProperties
<1>10. \A n \in 1..(k + l) : n \in DOMAIN target \/ (n - k \in 1..l /\ target'[n] = new[n - k])
  BY <1>3, <1>7, <1>8
<1>11. \A m \in 1..l : m + k \in DOMAIN target' \ DOMAIN target /\ target'[m + k] = new[m]
  BY <1>3, <1>7, <1>8, <1>9
<1>12. target' \in Seq(Range(target)')
  <2>1. target' \in [1..(k + l) -> Range(target)']
    BY <1>8, <1>9 DEF Range
  <2> QED
    BY <1>3, <1>7, <2>1, IsASeq
<1>13. DOMAIN target \subseteq DOMAIN target' /\ \A n \in DOMAIN target : target'[n] = Updated(target[n])
  BY <1>3, <1>5, <1>7, <1>8, <1>9
<1>14. \A n \in DOMAIN target' \ DOMAIN target : target'[n] \in Unmatched
  BY <1>7, <1>9, <1>10
<1>15. \A s \in Unmatched : \E n \in DOMAIN target' \ DOMAIN target : target'[n] = s
  BY <1>2, <1>7, <1>11
<1>16. \A m, n \in DOMAIN target' \ DOMAIN target : target'[m] = target'[n] => m = n
  <2>1. SUFFICES ASSUME NEW m \in DOMAIN target' \ DOMAIN target,
                        NEW n \in DOMAIN target' \ DOMAIN target,
                        target'[m] = target'[n]
                 PROVE  m = n
    OBVIOUS
  <2>2. m - k \in DOMAIN new /\ n - k \in DOMAIN new /\ new[m - k] = new[n - k]
    BY <1>7, <1>9, <1>10, <2>1
  <2>3. m - k = n - k
    BY <1>2, <2>2 DEF IsInjective
  <2> QED
    BY <1>3, <1>7, <1>9, <2>3
<1> QED
  BY <1>12, <1>13, <1>14, <1>15, <1>16

RowType == TypeOK /\ QueryOK /\ TickOK

\* The window of a tick: whole buckets, from the bucket of the least stamp to
\* the end of the bucket of the greatest.
LEMMA WindowOfStamps ==
    ASSUME QueryOK, NEW S \in SUBSET Times, S # {}
    PROVE  LET from == FloorTo(Min(S))
               to == FloorTo(Max(S)) + parsed.width
           IN  /\ from \in 0..Horizon /\ to \in 0..Horizon
               /\ from % parsed.width = 0 /\ to % parsed.width = 0
               /\ \A t \in S, u \in Times :
                     u \div parsed.width = t \div parsed.width => from <= u /\ u < to
<1> DEFINE a == Min(S)
           b == Max(S)
           w == parsed.width
<1>1. Horizon \in Nat /\ Horizon % 4 = 0 /\ w \in {2, 4}
  BY RowAssumption, WidthType DEF Width
<1>2. S \in SUBSET Nat /\ S \in SUBSET (0..Horizon)
  BY <1>1 DEF Times
<1>3. /\ a \in S /\ \A t \in S : a <= t
      /\ b \in S /\ \A t \in S : t <= b
  BY <1>1, <1>2, MinOf, MaxOf
<1> HIDE DEF a, b, w
<1>4. a \in Nat /\ b \in Nat /\ b < Horizon /\ a < Horizon
  <2>1. a \in Times /\ b \in Times
    BY <1>3
  <2> QED
    BY <1>1, <2>1 DEF Times
<1>5. ASSUME w = 2 \/ w = 4
      PROVE  /\ (a \div w) * w \in 0..Horizon /\ (b \div w) * w + w \in 0..Horizon
             /\ ((a \div w) * w) % w = 0 /\ ((b \div w) * w + w) % w = 0
  BY <1>1, <1>4, <1>5, SMT
<1>6. ASSUME NEW t \in S, NEW u \in Times, u \div w = t \div w
      PROVE  (a \div w) * w <= u /\ u < (b \div w) * w + w
  <2>1. t \in Nat /\ u \in Nat /\ a <= t /\ t <= b
    BY <1>1, <1>3 DEF Times
  <2>2. CASE w = 2
    BY <1>4, <1>6, <2>1, <2>2, SMT
  <2>3. CASE w = 4
    BY <1>4, <1>6, <2>1, <2>3, SMT
  <2> QED
    BY <1>1, <2>2, <2>3
<1> QED
  BY <1>1, <1>5, <1>6 DEF FloorTo, a, b, w

\* The rows of the source after a file is added.
LEMMA RowsAdded ==
    ASSUME NEW F, NEW f
    PROVE  RowsOf(F \union {f}) = RowsOf(F) \union f.rows
  BY DEF RowsOf

\* The rows of the source after a row is overwritten.
LEMMA RowsOverwritten ==
    ASSUME NEW F, NEW f \in F, NEW g, NEW r \in f.rows, NEW s,
           g.rows = (f.rows \ {r}) \union {s}
    PROVE  /\ RowsOf((F \ {f}) \union {g}) \subseteq RowsOf(F) \union {s}
           /\ RowsOf(F) \ {r} \subseteq RowsOf((F \ {f}) \union {g})
           /\ s \in RowsOf((F \ {f}) \union {g})
  BY DEF RowsOf

\* What a writer leaves of the source.
LEMMA WriterRows ==
    ASSUME RowType,
           \/ \E rows \in Batches, stats \in Stats : AppendFile(rows, stats)
           \/ \E f \in live, s \in Row : \E r \in f.rows : Overwrite(f, r, s)
           \/ Compact
    PROVE  /\ live' \subseteq File /\ added' \in Seq(File) /\ Len(added) <= Len(added')
           /\ IsFiniteSet(RowsOf(live'))
           /\ UNCHANGED <<query, parsed, marked, target, tick, blind>>
<1>1. /\ live \subseteq File /\ added \in Seq(File) /\ IsFiniteSet(RowsOf(live))
      /\ Len(added) \in Nat
  BY LenProperties DEF RowType, TypeOK, TickOK
<1>2. ASSUME NEW rows \in Batches, NEW stats \in Stats, AppendFile(rows, stats)
      PROVE  /\ live' \subseteq File /\ added' \in Seq(File) /\ Len(added) <= Len(added')
             /\ IsFiniteSet(RowsOf(live'))
             /\ UNCHANGED <<query, parsed, marked, target, tick, blind>>
  <2> DEFINE f == [rows |-> rows, stats |-> stats]
  <2>1. f \in File /\ IsFiniteSet(f.rows)
    BY RowAssumption DEF File
  <2>2. live' = live \union {f} /\ added' = Append(added, f)
    BY <1>2 DEF AppendFile
  <2> HIDE DEF f
  <2>3. added' \in Seq(File) /\ Len(added') = Len(added) + 1
    BY <1>1, <2>1, <2>2, AppendProperties
  <2>4. IsFiniteSet(RowsOf(live'))
    <3>1. RowsOf(live') = RowsOf(live) \union f.rows
      BY <2>2, RowsAdded
    <3>2. IsFiniteSet(RowsOf(live) \union f.rows)
      BY <1>1, <2>1, FS_Union
    <3> QED
      BY <3>1, <3>2
  <2> QED
    BY <1>1, <1>2, <2>1, <2>2, <2>3, <2>4 DEF AppendFile
<1>3. ASSUME NEW f \in live, NEW s \in Row, NEW r \in f.rows, Overwrite(f, r, s)
      PROVE  /\ live' \subseteq File /\ added' \in Seq(File) /\ Len(added) <= Len(added')
             /\ IsFiniteSet(RowsOf(live'))
             /\ UNCHANGED <<query, parsed, marked, target, tick, blind>>
  <2> DEFINE g == [f EXCEPT !.rows = (@ \ {r}) \union {s}]
  <2>1. f \in File /\ g \in File /\ g.rows = (f.rows \ {r}) \union {s}
    BY <1>1 DEF File
  <2>2. live' = (live \ {f}) \union {g} /\ added' = Append(added, g)
    BY <1>3 DEF Overwrite
  <2> HIDE DEF g
  <2>3. added' \in Seq(File) /\ Len(added') = Len(added) + 1
    BY <1>1, <2>1, <2>2, AppendProperties
  <2>4. RowsOf(live') \subseteq RowsOf(live) \union {s}
    <3>1. g.rows = (f.rows \ {r}) \union {s}
      BY <2>1
    <3>2. /\ RowsOf((live \ {f}) \union {g}) \subseteq RowsOf(live) \union {s}
          /\ RowsOf(live) \ {r} \subseteq RowsOf((live \ {f}) \union {g})
          /\ s \in RowsOf((live \ {f}) \union {g})
      BY ONLY <3>1, f \in live, r \in f.rows, RowsOverwritten, Zenon
    <3> QED
      BY <2>2, <3>2
  <2>5. IsFiniteSet(RowsOf(live) \union {s})
    BY <1>1, FS_Singleton, FS_Union
  <2>6. IsFiniteSet(RowsOf(live'))
    BY <2>4, <2>5, FS_Subset
  <2> QED
    BY <1>1, <1>3, <2>1, <2>2, <2>3, <2>6 DEF Overwrite
<1>4. ASSUME Compact
      PROVE  /\ live' \subseteq File /\ added' \in Seq(File) /\ Len(added) <= Len(added')
             /\ IsFiniteSet(RowsOf(live'))
             /\ UNCHANGED <<query, parsed, marked, target, tick, blind>>
  <2>1. live' = {[rows |-> RowsOf(live), stats |-> "full"]} /\ added' = added
    BY <1>4 DEF Compact
  <2>2. RowsOf(live) \subseteq Row
    BY <1>1 DEF RowsOf, File
  <2>3. RowsOf(live') = RowsOf(live) /\ live' \subseteq File
    BY <2>1, <2>2 DEF RowsOf, File
  <2> QED
    BY <1>1, <1>4, <2>1, <2>3 DEF Compact
<1> QED
  BY <1>2, <1>3, <1>4

\* An idle tick is in its ranges, whatever the number of files.
NoTickOK(k) ==
    /\ NoTick.pc = "idle" /\ NoTick.rows \subseteq Row
    /\ NoTick.lo \in 0..Horizon /\ NoTick.hi \in 0..Horizon
    /\ NoTick.lo % parsed.width = 0 /\ NoTick.hi % parsed.width = 0
    /\ NoTick.seen \in 0..k /\ IsFiniteSet(NoTick.rows) /\ NoTick.blind \in BOOLEAN

LEMMA NoTickType ==
    ASSUME QueryOK, NEW k \in Nat
    PROVE  NoTickOK(k)
<1>1. parsed.width \in {2, 4} /\ Horizon \in Nat
  BY WidthType, RowAssumption
<1>2. 0 % parsed.width = 0
  BY <1>1
<1> QED
  BY <1>1, <1>2, FS_EmptySet DEF NoTickOK, NoTick

\* The invariant holds of a view that has just been created.
LEMMA RowTypeInit == Init => RowType
<1> SUFFICES ASSUME Init PROVE RowType
  OBVIOUS
<1>1. QueryOK
  BY DEF Init, QueryOK
<1>2. live = {} /\ added = <<>> /\ target = <<>> /\ tick = NoTick /\ marked = FALSE /\ blind = FALSE
  BY DEF Init
<1>3. NoTickOK(0)
  BY <1>1, NoTickType
<1>4. TypeOK
  <2>1. <<>> \in Seq(File) /\ <<>> \in Seq(Range(<<>>)) /\ Len(<<>>) = 0 /\ DOMAIN <<>> = {}
    BY EmptySeq
  <2> QED
    BY <1>2, <1>3, <2>1 DEF TypeOK, NoTickOK
<1>5. TickOK
  <2>1. RowsOf({}) = {} /\ IsFiniteSet({})
    BY FS_EmptySet DEF RowsOf
  <2> QED
    BY <1>2, <1>3, <2>1 DEF TickOK, NoTickOK
<1> QED
  BY <1>1, <1>4, <1>5 DEF RowType

\* Every step keeps the types.
LEMMA RowTypeStep == RowType /\ [Next]_vars => RowType'
<1> SUFFICES ASSUME RowType, [Next]_vars PROVE RowType'
  OBVIOUS
<1>1. /\ TypeOK /\ QueryOK /\ TickOK /\ query \in Query /\ parsed.width \in {2, 4}
      /\ Len(added) \in Nat
  BY WidthType, LenProperties DEF RowType, TypeOK
<1>2. CASE \/ \E rows \in Batches, stats \in Stats : AppendFile(rows, stats)
           \/ \E f \in live, s \in Row : \E r \in f.rows : Overwrite(f, r, s)
           \/ Compact
  <2>1. /\ live' \subseteq File /\ added' \in Seq(File) /\ Len(added) <= Len(added')
        /\ IsFiniteSet(RowsOf(live'))
        /\ UNCHANGED <<query, parsed, marked, target, tick, blind>>
    BY <1>2, WriterRows
  <2>2. tick.seen \in 0..Len(added')
    <3>1. Len(added') \in Nat /\ tick.seen \in 0..Len(added)
      BY <1>1, <2>1, LenProperties DEF TypeOK
    <3> QED
      BY <1>1, <2>1, <3>1
  <2>3. TypeOK'
    BY <1>1, <2>1, <2>2 DEF TypeOK, IsOutRow
  <2> QED
    BY <1>1, <2>1, <2>3 DEF RowType, QueryOK, TickOK
<1>3. CASE Detect
  <2> DEFINE stamps == Stamps(Bounded(Read))
  <2>1. stamps \in SUBSET Times
    <3>1. \A f \in live : f.rows \subseteq Row
      BY <1>1 DEF TypeOK, File
    <3>2. \A f \in Range(added) : f.rows \subseteq Row
      <4>1. added \in Seq(File) /\ DOMAIN added = 1..Len(added)
        BY <1>1, LenProperties DEF TypeOK
      <4>2. \A n \in 1..Len(added) : added[n] \in File
        BY <4>1, ElementOfSeq
      <4> QED
        BY <4>1, <4>2 DEF File, Range
    <3>3. \A f \in Read : f.rows \subseteq Row
      BY <3>1, <3>2 DEF Read
    <3> QED
      BY <3>3 DEF Stamps, RowsOf, Bounded, Row
  <2> DEFINE from == IF stamps = {} THEN 0 ELSE FloorTo(Min(stamps))
             to == IF stamps = {} THEN 0 ELSE FloorTo(Max(stamps)) + parsed.width
  <2>2. /\ from \in 0..Horizon /\ to \in 0..Horizon
        /\ from % parsed.width = 0 /\ to % parsed.width = 0
    <3>1. CASE stamps = {}
      BY <1>1, <3>1, RowAssumption
    <3>2. CASE stamps # {}
      <4>1. /\ FloorTo(Min(stamps)) \in 0..Horizon
            /\ FloorTo(Max(stamps)) + parsed.width \in 0..Horizon
            /\ FloorTo(Min(stamps)) % parsed.width = 0
            /\ (FloorTo(Max(stamps)) + parsed.width) % parsed.width = 0
        BY <1>1, <2>1, <3>2, WindowOfStamps
      <4> QED
        BY <3>2, <4>1
    <3> QED
      BY <3>1, <3>2
  <2>3. tick' = [pc |-> IF stamps = {} THEN "publish" ELSE "merge",
                 rows |-> RowsOf(live), seen |-> Len(added),
                 lo |-> from, hi |-> to, blind |-> Bounded(Read) # Read]
    BY <1>3 DEF Detect
  <2>4. UNCHANGED <<query, parsed, live, added, marked, target, blind>>
    BY <1>3 DEF Detect
  <2>5. RowsOf(live) \subseteq Row
    BY <1>1 DEF TypeOK, RowsOf, File
  <2> HIDE DEF from, to, stamps
  <2>6. /\ tick'.pc \in {"merge", "publish"} /\ tick'.rows = RowsOf(live)
        /\ tick'.seen = Len(added) /\ tick'.lo = from /\ tick'.hi = to
        /\ tick'.blind \in BOOLEAN /\ DOMAIN tick' = DOMAIN NoTick
    BY <2>3 DEF NoTick
  <2>7. TypeOK'
    BY <1>1, <2>2, <2>4, <2>5, <2>6 DEF TypeOK, IsOutRow
  <2>8. TickOK'
    BY <1>1, <2>2, <2>4, <2>6 DEF TickOK
  <2> QED
    BY <1>1, <2>4, <2>7, <2>8 DEF RowType, QueryOK
<1>4. CASE Merge
  <2>1. UNCHANGED <<query, parsed, live, added, marked, blind>>
    BY <1>4 DEF Merge
  <2>2. CASE Executes
    <3>1. /\ target' \in Seq(Range(target)')
          /\ DOMAIN target \subseteq DOMAIN target'
          /\ \A n \in DOMAIN target : target'[n] = Updated(target[n])
          /\ \A n \in DOMAIN target' \ DOMAIN target : target'[n] \in Unmatched
      BY <1>1, <1>4, <2>2, MergedTarget
    <3>2. tick' = [tick EXCEPT !.pc = "publish"]
      BY <1>4, <2>2 DEF Merge
    <3>3. /\ tick'.pc = "publish" /\ tick'.rows = tick.rows /\ tick'.seen = tick.seen
          /\ tick'.lo = tick.lo /\ tick'.hi = tick.hi /\ tick'.blind = tick.blind
          /\ DOMAIN tick' = DOMAIN NoTick
      BY <1>1, <3>2 DEF TickOK, NoTick
    <3>4. ASSUME NEW t \in MergeSource PROVE IsOutRow(t)
      <4>1. tick.rows \subseteq Row
        BY <1>1 DEF TypeOK
      <4> DEFINE w == Ranged(query.where, tick.lo, tick.hi)
      <4>2. PICK r \in tick.rows : Passes(w, r) /\ t = Out(query, w, r, tick.rows)
        BY <1>1, <3>4, MergeSourceRows
      <4> HIDE DEF w
      <4> QED
        BY <1>1, <4>1, <4>2, OutType DEF IsOutRow, QueryOK
    <3>5. ASSUME NEW n \in DOMAIN target' PROVE IsOutRow(target'[n])
      <4>1. CASE n \in DOMAIN target
        BY <1>1, <3>1, <3>4, <4>1, UpdatedRow DEF TypeOK, Matched
      <4>2. CASE n \notin DOMAIN target
        BY <3>1, <3>4, <4>2 DEF Unmatched
      <4> QED
        BY <4>1, <4>2
    <3>6. \A n \in DOMAIN target' : IsOutRow(target[n])'
      BY <2>1, <3>5 DEF IsOutRow
    <3>7. TypeOK'
      BY <1>1, <2>1, <3>1, <3>3, <3>6 DEF TypeOK
    <3> QED
      BY <1>1, <2>1, <3>3, <3>7 DEF RowType, QueryOK, TickOK
  <2>3. CASE ~Executes
    <3>1. tick' = NoTick /\ target' = target
      BY <1>4, <2>3 DEF Merge
    <3>2. NoTickOK(Len(added))
      BY <1>1, NoTickType
    <3> QED
      BY <1>1, <2>1, <3>1, <3>2
         DEF RowType, QueryOK, TypeOK, TickOK, IsOutRow, NoTickOK
  <2> QED
    BY <2>2, <2>3
<1>5. CASE Publish
  <2>1. /\ tick' = NoTick /\ UNCHANGED <<query, parsed, live, target>>
        /\ marked' = TRUE /\ blind' = (blind \/ tick.blind)
        /\ added' = SubSeq(added, tick.seen + 1, Len(added))
    BY <1>5 DEF Publish
  <2>2. added' \in Seq(File) /\ Len(added') \in Nat
    <3>1. tick.seen \in 0..Len(added) /\ added \in Seq(File)
      BY <1>1 DEF TypeOK
    <3>2. SubSeq(added, tick.seen + 1, Len(added)) \in Seq(File)
      <4>1. \A i \in (tick.seen + 1)..Len(added) : i \in 1..Len(added)
        BY <1>1, <3>1
      <4> QED
        BY <1>1, <3>1, <4>1, SubSeqProperties, tick.seen + 1 \in Int
    <3> QED
      BY <2>1, <3>2, LenProperties
  <2>3. NoTickOK(Len(added'))
    BY <1>1, <2>2, NoTickType
  <2>4. TypeOK'
    BY <1>1, <2>1, <2>2, <2>3 DEF TypeOK, TickOK, IsOutRow, NoTickOK
  <2> QED
    BY <1>1, <2>1, <2>3, <2>4 DEF RowType, QueryOK, TickOK, NoTickOK
<1>6. CASE Interrupt
  <2>1. tick' = NoTick /\ UNCHANGED <<query, parsed, live, added, marked, target, blind>>
    BY <1>6 DEF Interrupt
  <2>2. NoTickOK(Len(added))
    BY <1>1, NoTickType
  <2> QED
    BY <1>1, <2>1, <2>2
       DEF RowType, QueryOK, TypeOK, TickOK, IsOutRow, NoTickOK
<1>7. CASE UNCHANGED vars
  BY <1>7 DEF vars, RowType, QueryOK, TypeOK, TickOK, IsOutRow, RowsOf, NoTick
<1> QED
  BY <1>2, <1>3, <1>4, <1>5, <1>6, <1>7 DEF Next

\* The types hold of every behaviour.
LEMMA RowTypeHolds == Spec => []RowType
  BY RowTypeInit, RowTypeStep, PTL DEF Spec

\* Every variable, and every column of every row of the target, is in range.
THEOREM TypeOKHolds == Spec => []TypeOK
<1>1. RowType => TypeOK
  BY DEF RowType
<1> QED
  BY <1>1, RowTypeHolds, PTL

-----------------------------------------------------------------------------
(***************************************************************************)
(* One row per group.                                                      *)
(***************************************************************************)
\* What a plain query that runs is.
LEMMA PlainQuery ==
    ASSUME QueryOK, Plain(query)
    PROVE  /\ query \in Query /\ Accepted(query) /\ Analysed(query)
           /\ HonestNames(query) /\ SelectsOnce(query)
           /\ parsed = ParsedView(query) /\ ~query.having
  BY WidthType DEF QueryOK, Plain, Incremental

\* A column of the row that a group of one row becomes, but for aggregates.
LEMMA OutValue ==
    ASSUME NEW i \in DOMAIN query.proj, query.proj[i].expr # "agg", NEW t
    PROVE  OutRow(query, {t})[i] = Value(query.proj[i].expr, t)
<1>1. (CHOOSE u \in {t} : TRUE) = t
  OBVIOUS
<1> QED
  BY <1>1 DEF OutRow

\* Rows of one bucket that differ in one column agree on all that is not it.
LEMMA OtherValue ==
    ASSUME NEW e \in Exprs \ {"agg", "shifted"}, NEW c \in {"ts", "k"}, Bare(e) # c,
           NEW r \in Row, NEW s \in Row, DifferIn(c, r, s)
    PROVE  Value(e, r) = Value(e, s)
<1>1. r.ts \in Nat /\ s.ts \in Nat
  BY RowAssumption DEF Row, Times
<1>2. r.ts \div 2 = s.ts \div 2
  BY DEF DifferIn, Value, Bare, Width
<1>3. r.ts \div 4 = s.ts \div 4
  BY <1>1, <1>2
<1>4. /\ "ts" # c => r.ts = s.ts
      /\ "k" # c => r.k = s.k
  BY DEF DifferIn, Value, Bare
<1> QED
  BY <1>2, <1>3, <1>4 DEF Exprs, Columns, Truncs, Bare, Value, Width

\* Whatever the accepted query and however long its lists, the merge keys tell
\* rows apart as its GROUP BY does where no alias hides a grouped column, no
\* column is selected twice and no merge key named twice; a grouped column that
\* no merge key selects they lose.
THEOREM MergeKeysGroupHolds == Spec => []MergeKeysGroup
<1>1. ASSUME RowType, parsed.once, HonestNames(query), SelectsOnce(query),
             NEW r \in Row, NEW s \in Row
      PROVE  SameKeys(r, s) <=> Together(query, r, s)
  <2>1. query \in Query /\ Accepted(query) /\ Analysed(query) /\ parsed = ParsedView(query)
    BY <1>1, WidthType DEF RowType, QueryOK
  <2>2. \A i \in parsed.keys : i \in DOMAIN query.proj /\ query.proj[i].expr # "agg"
    BY <1>1, <2>1, KeyItems
  <2>3. \A i \in parsed.keys :
           /\ OutRow(query, {r})[i] = Value(query.proj[i].expr, r)
           /\ OutRow(query, {s})[i] = Value(query.proj[i].expr, s)
    BY <2>2, OutValue
  <2>4. Together(query, r, s)
          <=> \A i \in parsed.keys :
                 Value(query.proj[i].expr, r) = Value(query.proj[i].expr, s)
    BY <1>1, <2>1, KeysTellGroups
  <2> QED
    BY <2>3, <2>4, Zenon DEF SameKeys
<1>2. ASSUME RowType, NEW c \in Hidden, NEW r \in Row, NEW s \in Row, DifferIn(c, r, s)
      PROVE  SameKeys(r, s) /\ ~Together(query, r, s)
  <2>1. query \in Query /\ Accepted(query) /\ Analysed(query) /\ parsed = ParsedView(query)
    BY <1>2, WidthType DEF RowType, QueryOK
  <2>2. c \in Grouped(query) /\ c \in {"ts", "k"}
    BY <1>2 DEF Hidden
  <2>3. ASSUME NEW i \in parsed.keys
        PROVE  OutRow(query, {r})[i] = OutRow(query, {s})[i]
    <3>1. i \in DOMAIN query.proj
      BY <2>1 DEF ParsedView
    <3>2. Bare(query.proj[i].expr) # c /\ Bare(query.proj[i].expr) # "agg"
      BY <1>2 DEF Hidden
    <3>3. query.proj[i].expr \in Exprs \ {"agg", "shifted"}
      BY <2>1, <3>1, <3>2, AnalysedItems DEF Bare
    <3>4. Value(query.proj[i].expr, r) = Value(query.proj[i].expr, s)
      BY <1>2, <2>2, <3>2, <3>3, OtherValue
    <3> QED
      BY <3>1, <3>3, <3>4, OutValue
  <2>4. Value(c, r) # Value(c, s)
    BY <1>2, <2>2 DEF DifferIn
  <2> QED
    BY <2>2, <2>3, <2>4 DEF SameKeys, Together
<1>3. RowType => MergeKeysGroup
  BY <1>1, <1>2 DEF MergeKeysGroup
<1> QED
  BY <1>3, RowTypeHolds, PTL

\* The key columns of the target are not NULL, and tell its rows apart.
KeysUnique ==
    Plain(query) =>
        /\ \A n \in DOMAIN target, i \in parsed.keys : target[n][i] # Null
        /\ \A m, n \in DOMAIN target :
              (\A i \in parsed.keys : target[m][i] = target[n][i]) => m = n

\* The source of a MERGE has no NULL key, and one row for each key.
LEMMA SourceKeys ==
    ASSUME NoNulls, RowType, Plain(query)
    PROVE  /\ \A s \in MergeSource, i \in parsed.keys : s[i] # Null
           /\ parsed.once =>
                 \A s, u \in MergeSource : (\A i \in parsed.keys : s[i] = u[i]) => s = u
<1> DEFINE w == Ranged(query.where, tick.lo, tick.hi)
           R == tick.rows
<1>1. QueryOK /\ TickOK /\ R \in SUBSET Row
  BY DEF RowType, TypeOK
<1>2. /\ query \in Query /\ Accepted(query) /\ Analysed(query)
      /\ HonestNames(query) /\ SelectsOnce(query)
      /\ parsed = ParsedView(query) /\ ~query.having
  BY <1>1, PlainQuery
<1>3. \A s \in MergeSource : \E r \in R : Passes(w, r) /\ s = Out(query, w, r, R)
  BY <1>1, MergeSourceRows
<1> HIDE DEF w, R
<1>4. ASSUME NEW r \in R, Passes(w, r), NEW i \in parsed.keys
      PROVE  /\ Out(query, w, r, R)[i] = Value(query.proj[i].expr, r)
             /\ Value(query.proj[i].expr, r) # Null
  <2>1. Out(query, w, r, R)[i] = Value(query.proj[i].expr, r)
    BY <1>1, <1>2, <1>4, OutKey
  <2>2. query.proj[i].expr \in Exprs \ {"agg", "shifted"}
    BY <1>2, KeyItems
  <2>3. Value(query.proj[i].expr, r) \in Times \union Keys
    BY <1>1, <2>2, ValueType
  <2>4. Times \subseteq Int
    BY RowAssumption DEF Times
  <2> QED
    BY <2>1, <2>3, <2>4 DEF NoNulls
<1>5. ASSUME NEW s \in MergeSource, NEW u \in MergeSource, parsed.once,
             \A i \in parsed.keys : s[i] = u[i]
      PROVE  s = u
  <2>1. PICK r \in R : Passes(w, r) /\ s = Out(query, w, r, R)
    BY <1>3
  <2>2. PICK v \in R : Passes(w, v) /\ u = Out(query, w, v, R)
    BY <1>3
  <2>3. \A i \in parsed.keys : Value(query.proj[i].expr, r) = Value(query.proj[i].expr, v)
    BY <1>4, <1>5, <2>1, <2>2
  <2>4. Together(query, r, v)
    BY <1>1, <1>2, <1>5, <2>3, KeysTellGroups
  <2> QED
    BY <2>1, <2>2, <2>4, SameOut
<1> QED
  BY <1>3, <1>4, <1>5

\* A MERGE keeps the keys of the rows it updates.
LEMMA UpdatedKeys ==
    ASSUME NEW t, NEW i \in parsed.keys
    PROVE  Updated(t)[i] = t[i]
  BY UpdatedRow DEF Matched, Matches

\* A MERGE keeps the keys of the target unique.
LEMMA MergeKeepsKeys ==
    ASSUME NoNulls, RowType, KeysUnique, Plain(query), Merge, Executes
    PROVE  /\ \A n \in DOMAIN target', i \in parsed.keys : target'[n][i] # Null
           /\ \A m, n \in DOMAIN target' :
                 (\A i \in parsed.keys : target'[m][i] = target'[n][i]) => m = n
<1>1. /\ parsed.once
      /\ \A n \in DOMAIN target, i \in parsed.keys : target[n][i] # Null
      /\ \A m, n \in DOMAIN target :
            (\A i \in parsed.keys : target[m][i] = target[n][i]) => m = n
  BY DEF KeysUnique, Executes
<1>2. /\ \A s \in MergeSource, i \in parsed.keys : s[i] # Null
      /\ \A s, u \in MergeSource : (\A i \in parsed.keys : s[i] = u[i]) => s = u
  BY <1>1, SourceKeys
<1>3. /\ DOMAIN target \subseteq DOMAIN target'
      /\ \A n \in DOMAIN target : target'[n] = Updated(target[n])
      /\ \A n \in DOMAIN target' \ DOMAIN target : target'[n] \in Unmatched
      /\ \A m, n \in DOMAIN target' \ DOMAIN target : target'[m] = target'[n] => m = n
  BY MergedTarget DEF RowType
<1>4. \A n \in DOMAIN target, i \in parsed.keys : target'[n][i] = target[n][i]
  BY <1>3, UpdatedKeys
<1>5. Unmatched \subseteq MergeSource
  BY DEF Unmatched
<1>6. ASSUME NEW m \in DOMAIN target, NEW n \in DOMAIN target' \ DOMAIN target,
             \A i \in parsed.keys : target'[m][i] = target'[n][i]
      PROVE  FALSE
  <2>1. target'[n] \in Unmatched /\ ~Matches(target[m], target'[n])
    BY <1>3 DEF Unmatched
  <2>2. \A i \in parsed.keys : target[m][i] = target'[n][i] /\ target[m][i] # Null
    BY <1>1, <1>4, <1>6
  <2> QED
    BY <2>1, <2>2 DEF Matches
<1>7. \A n \in DOMAIN target', i \in parsed.keys : target'[n][i] # Null
  BY <1>1, <1>2, <1>3, <1>4, <1>5
<1>8. ASSUME NEW m \in DOMAIN target', NEW n \in DOMAIN target',
             \A i \in parsed.keys : target'[m][i] = target'[n][i]
      PROVE  m = n
  <2>1. CASE m \in DOMAIN target /\ n \in DOMAIN target
    <3>1. \A i \in parsed.keys : target[m][i] = target[n][i]
      BY <1>4, <1>8, <2>1
    <3> QED
      BY <1>1, <2>1, <3>1
  <2>2. CASE m \in DOMAIN target /\ n \notin DOMAIN target
    BY <1>6, <1>8, <2>2
  <2>3. CASE m \notin DOMAIN target /\ n \in DOMAIN target
    BY <1>6, <1>8, <2>3
  <2>4. CASE m \notin DOMAIN target /\ n \notin DOMAIN target
    <3>1. target'[m] \in MergeSource /\ target'[n] \in MergeSource
      BY <1>3, <1>5, <2>4
    <3>2. target'[m] = target'[n]
      BY <1>2, <1>8, <3>1
    <3> QED
      BY <1>3, <2>4, <3>2
  <2> QED
    BY <2>1, <2>2, <2>3, <2>4
<1> QED
  BY <1>7, <1>8

\* Only a MERGE that Trino executes changes the target, and nothing changes
\* the query.
LEMMA TargetKept ==
    ASSUME [Next]_vars
    PROVE  /\ UNCHANGED <<query, parsed>>
           /\ target' = target \/ (Merge /\ Executes)
  BY DEF Next, vars, AppendFile, Overwrite, Compact, Detect, Merge, Publish, Interrupt

\* The keys stay unique, and none is NULL.
LEMMA KeysUniqueHolds ==
    ASSUME NoNulls
    PROVE  Spec => []KeysUnique
<1>1. Init => KeysUnique
  BY DEF Init, KeysUnique
<1>2. RowType /\ KeysUnique /\ [Next]_vars => KeysUnique'
  <2> SUFFICES ASSUME RowType, KeysUnique, [Next]_vars, Plain(query)' PROVE
               /\ \A n \in DOMAIN target', i \in parsed'.keys : target'[n][i] # Null
               /\ \A m, n \in DOMAIN target' :
                     (\A i \in parsed'.keys : target'[m][i] = target'[n][i]) => m = n
    BY DEF KeysUnique
  <2>1. UNCHANGED <<query, parsed>> /\ Plain(query)
    BY TargetKept DEF Plain, Incremental
  <2>2. CASE target' = target
    BY <2>1, <2>2 DEF KeysUnique
  <2>3. CASE Merge /\ Executes
    BY <2>1, <2>3, MergeKeepsKeys
  <2> QED
    BY <2>2, <2>3, TargetKept
<1> QED
  BY <1>1, <1>2, RowTypeHolds, PTL DEF Spec

\* However often a window is merged again, a group has one row in the target.
THEOREM OneRowPerGroupHolds ==
    ASSUME NoNulls
    PROVE  Spec => []OneRowPerGroup
<1>1. KeysUnique => OneRowPerGroup
  BY DEF KeysUnique, OneRowPerGroup
<1> QED
  BY <1>1, KeysUniqueHolds, PTL
-----------------------------------------------------------------------------
(***************************************************************************)
(* Rows, buckets and windows.                                              *)
(***************************************************************************)
\* A group of an incremental query lies within one bucket of the view.
LEMMA SameBucket ==
    ASSUME QueryOK, Plain(query), NEW r \in Row, NEW s \in Row, Together(query, r, s)
    PROVE  Bucket(r) = Bucket(s)
<1>1. query \in Query /\ Accepted(query) /\ Analysed(query) /\ parsed = ParsedView(query)
  BY WidthType DEF QueryOK
<1>2. PICK e \in {"fine", "coarse"} : e \in Grouped(query)
  BY DEF Plain, Incremental
<1>3. PICK j \in DOMAIN query.group : GroupExpr(query, query.group[j]) = e
  BY <1>2 DEF Grouped
<1>4. e \in DateTruncs(query)
  <2> DEFINE g == query.group[j]
  <2>1. g.pos \in Nat
    BY <1>1, QueryParts
  <2>2. CASE g.pos > 0
    <3>1. g.pos \in DOMAIN query.proj
      BY <1>1, <2>2 DEF Accepted, Resolves
    <3>2. query.proj[g.pos].expr = e
      BY <1>2, <1>3, <2>2 DEF GroupExpr, Bare
    <3> QED
      BY <1>2, <3>1, <3>2 DEF DateTruncs, Truncs
  <2>3. CASE g.pos = 0
    <3>1. g.expr = e
      BY <1>2, <1>3, <2>3 DEF GroupExpr, Bare
    <3> QED
      BY <1>2, <3>1 DEF DateTruncs, Truncs
  <2> QED
    BY <2>1, <2>2, <2>3
<1>5. parsed.width = Width(e)
  <2> DEFINE d == CHOOSE f \in DateTruncs(query) : TRUE
  <2>1. d \in DateTruncs(query)
    BY <1>4
  <2>2. Granularity(d) = Granularity(e)
    BY <1>1, <1>4, <2>1 DEF Accepted
  <2>3. parsed.width = Width(Granularity(d))
    BY <1>1 DEF ParsedView
  <2> QED
    BY <1>2, <2>2, <2>3 DEF Granularity
<1>6. Value(e, r) = Value(e, s)
  BY <1>2 DEF Together
<1> QED
  BY <1>2, <1>5, <1>6 DEF Bucket, Value, Bare

\* A view's WHERE has typed disjuncts.
LEMMA WhereParts ==
    ASSUME QueryOK
    PROVE  LET w == query.where
           IN  /\ w \in Seq([keys : SUBSET Keys, lo : Int, hi : Int])
               /\ DOMAIN w = 1..Len(w) /\ Len(w) \in Nat
               /\ (w = <<>> <=> DOMAIN w = {})
               /\ \A i \in DOMAIN w : w[i] \in [keys : SUBSET Keys, lo : Int, hi : Int]
<1>1. query.where \in Seq([keys : SUBSET Keys, lo : Int, hi : Int])
  BY WidthType DEF Query
<1>2. DOMAIN query.where = 1..Len(query.where) /\ Len(query.where) \in Nat
  BY <1>1, LenProperties
<1>3. \A i \in 1..Len(query.where) : query.where[i] \in [keys : SUBSET Keys, lo : Int, hi : Int]
  BY <1>1, ElementOfSeq
<1>4. query.where = <<>> <=> Len(query.where) = 0
  BY <1>1, EmptySeq
<1>5. DOMAIN query.where = {} <=> Len(query.where) = 0
  <2> DEFINE n == Len(query.where)
  <2>1. n \in Nat /\ DOMAIN query.where = 1..n
    BY <1>2
  <2> HIDE DEF n
  <2>2. DOMAIN query.where = {} <=> n = 0
    BY <2>1
  <2> QED
    BY <2>2 DEF n
<1> QED
  BY <1>1, <1>2, <1>3, <1>4, <1>5

\* A steady WHERE looks at the key alone.
LEMMA SteadyPasses ==
    ASSUME SteadyQueries, QueryOK, Plain(query), NEW r \in Row
    PROVE  Passes(query.where, r)
             <=> query.where = <<>> \/ \E i \in DOMAIN query.where : r.k \in query.where[i].keys
<1>1. \A i \in DOMAIN query.where :
         /\ query.where[i].lo \in Int /\ query.where[i].hi \in Int
         /\ query.where[i].lo <= 0 /\ Horizon <= query.where[i].hi
  BY WhereParts DEF SteadyQueries, QueryOK
<1>2. r.ts \in Int /\ 0 <= r.ts /\ r.ts < Horizon /\ Horizon \in Nat
  BY RowAssumption DEF Row, Times
<1>3. \A i \in DOMAIN query.where : query.where[i].lo <= r.ts /\ r.ts < query.where[i].hi
  BY <1>1, <1>2
<1> QED
  BY <1>3 DEF Passes

\* The injected range keeps, of the rows that pass, those in the window.
LEMMA RangedPasses ==
    ASSUME SteadyQueries, QueryOK, Plain(query), NEW r \in Row
    PROVE  Passes(Ranged(query.where, tick.lo, tick.hi), r)
             <=> Passes(query.where, r) /\ InWindow(r)
<1> DEFINE w == query.where
           v == Ranged(w, tick.lo, tick.hi)
<1>1. CASE w = <<>>
  <2> DEFINE a == [AnyRow EXCEPT !.lo = tick.lo, !.hi = tick.hi]
  <2>1. v = <<a>>
    BY <1>1 DEF Ranged
  <2>2. a.keys = Keys /\ a.lo = tick.lo /\ a.hi = tick.hi
    BY DEF AnyRow
  <2> HIDE DEF v, a
  <2>5. v # <<>> /\ DOMAIN v = {1} /\ v[1] = a
    BY <2>1
  <2>3. r.k \in Keys
    BY DEF Row
  <2>4. Passes(v, r) <=> InWindow(r)
    BY <2>2, <2>3, <2>5 DEF Passes, InWindow
  <2> QED
    BY <1>1, <2>4 DEF Passes, v
<1>2. CASE w # <<>>
  <2>1. DOMAIN w # {} /\ \A i \in DOMAIN w : w[i] \in [keys : SUBSET Keys, lo : Int, hi : Int]
    BY <1>2, WhereParts
  <2>2. v = [i \in DOMAIN w |-> [w[i] EXCEPT !.lo = tick.lo, !.hi = tick.hi]]
    BY <1>2 DEF Ranged
  <2> HIDE DEF v
  <2>3. DOMAIN v = DOMAIN w /\ v # <<>>
    <3>1. DOMAIN v = DOMAIN w
      BY <2>2
    <3> QED
      BY <2>1, <3>1, EmptySeq
  <2>4. \A i \in DOMAIN w : v[i].keys = w[i].keys /\ v[i].lo = tick.lo /\ v[i].hi = tick.hi
    BY <2>1, <2>2
  <2>5. Passes(v, r) <=> (\E i \in DOMAIN w : r.k \in w[i].keys) /\ InWindow(r)
    BY <2>3, <2>4 DEF Passes, InWindow
  <2> QED
    BY <1>2, <2>5, SteadyPasses DEF v
<1> QED
  BY <1>1, <1>2

\* A window is whole buckets.
LEMMA WindowAligned ==
    ASSUME RowType, NEW r \in Row, NEW s \in Row, Bucket(r) = Bucket(s), InWindow(r)
    PROVE  InWindow(s)
<1> DEFINE w == parsed.width
<1>1. w \in {2, 4}
  BY WidthType DEF RowType
<1>2. r.ts \in Nat /\ s.ts \in Nat /\ Horizon \in Nat
  BY RowAssumption DEF Row, Times
<1>3. /\ tick.lo \in Nat /\ tick.hi \in Nat
      /\ tick.lo % w = 0 /\ tick.hi % w = 0
  BY <1>2 DEF RowType, TypeOK, TickOK
<1>4. r.ts \div w = s.ts \div w /\ tick.lo <= r.ts /\ r.ts < tick.hi
  BY DEF Bucket, InWindow
<1> HIDE DEF w
<1>5. CASE w = 2
  BY <1>2, <1>3, <1>4, <1>5, SMT DEF InWindow
<1>6. CASE w = 4
  BY <1>2, <1>3, <1>4, <1>6, SMT DEF InWindow
<1> QED
  BY <1>1, <1>5, <1>6

\* The source of a MERGE has the row of every pinned group in the window,
\* each as the view's own query would have it.
LEMMA WindowSource ==
    ASSUME SteadyQueries, RowType, Plain(query)
    PROVE  MergeSource =
               {Out(query, query.where, r, tick.rows) : r \in {u \in Passing(tick.rows) : InWindow(u)}}
<1> DEFINE w == Ranged(query.where, tick.lo, tick.hi)
           R == tick.rows
<1>1. QueryOK /\ TickOK /\ R \subseteq Row /\ query \in Query /\ ~query.having
  BY WidthType DEF RowType, TypeOK, Plain, Incremental
<1>2. MergeSource = {Out(query, w, r, R) : r \in {u \in R : Passes(w, u)}}
  <2>1. MergeSource = Result([query EXCEPT !.where = w], R)
    BY <1>1, MergeSourceRows
  <2> HIDE DEF w, R
  <2> QED
    BY <1>1, <2>1, ResultRows
<1>3. \A u \in R : Passes(w, u) <=> Passes(query.where, u) /\ InWindow(u)
  BY <1>1, RangedPasses
<1> HIDE DEF w
<1>4. {u \in R : Passes(w, u)} = {u \in Passing(R) : InWindow(u)}
  BY <1>3 DEF Passing
<1>5. ASSUME NEW r \in R, InWindow(r)
      PROVE  Out(query, w, r, R) = Out(query, query.where, r, R)
  <2>1. ASSUME NEW s \in R, Together(query, r, s)
        PROVE  Passes(w, s) <=> Passes(query.where, s)
    <3>1. Bucket(r) = Bucket(s)
      BY <1>1, <2>1, SameBucket
    <3>2. InWindow(s)
      BY <1>1, <1>5, <3>1, WindowAligned
    <3> QED
      BY <1>3, <3>2
  <2>2. GroupOf(query, w, r, R) = GroupOf(query, query.where, r, R)
    BY <2>1 DEF GroupOf
  <2> QED
    BY <2>2 DEF Out
<1> HIDE DEF R
<1>6. \A r \in {u \in Passing(R) : InWindow(u)} : Out(query, w, r, R) = Out(query, query.where, r, R)
  BY <1>5 DEF Passing
<1> QED
  BY <1>2, <1>4, <1>6 DEF R

\* Row sets that agree on the bucket of r have the same group of r.
LEMMA SameGroups ==
    ASSUME QueryOK, Plain(query), NEW r \in Row,
           NEW R \in SUBSET Row, NEW S \in SUBSET Row,
           \A s \in Row : Bucket(s) = Bucket(r) => (s \in R <=> s \in S)
    PROVE  Out(query, query.where, r, R) = Out(query, query.where, r, S)
<1>1. \A s \in Row : Together(query, r, s) => Bucket(s) = Bucket(r)
  BY SameBucket
<1>2. GroupOf(query, query.where, r, R) = GroupOf(query, query.where, r, S)
  BY <1>1 DEF GroupOf
<1> QED
  BY <1>2 DEF Out

\* A row that replaces another is in its bucket.
LEMMA ReplacedBucket ==
    ASSUME QueryOK, NEW r \in Row, NEW s \in Row, Replaces(s, r)
    PROVE  Bucket(s) = Bucket(r) /\ s.ts \div 4 = r.ts \div 4
<1>1. parsed.width \in {2, 4} /\ r.ts \in Nat /\ s.ts \in Nat
  BY WidthType, RowAssumption DEF Row, Times
<1>2. s.ts \div 2 = r.ts \div 2
  BY DEF Replaces, Width
<1>3. s.ts \div 4 = r.ts \div 4
  BY <1>1, <1>2
<1> QED
  BY <1>1, <1>2, <1>3 DEF Bucket

\* It passes with it, and carries the same key.
LEMMA ReplacedKey ==
    ASSUME SteadyQueries, QueryOK, Plain(query),
           NEW r \in Row, NEW s \in Row, Replaces(s, r)
    PROVE  /\ Passes(query.where, r) <=> Passes(query.where, s)
           /\ parsed.once => \A t : Keyed(t, r) => Keyed(t, s)
<1>1. /\ query \in Query /\ Accepted(query) /\ Analysed(query)
      /\ HonestNames(query) /\ SelectsOnce(query) /\ parsed = ParsedView(query)
  BY PlainQuery
<1>2. Passes(query.where, r) <=> Passes(query.where, s)
  BY SteadyPasses DEF Replaces
<1>3. ASSUME parsed.once, NEW i \in parsed.keys
      PROVE  Value(query.proj[i].expr, r) = Value(query.proj[i].expr, s)
  <2> DEFINE e == query.proj[i].expr
  <2>1. e \in Exprs \ {"agg", "shifted"}
    BY <1>1, KeyItems
  <2>2. PICK j \in DOMAIN query.group : i = Item(query, query.group[j])
    BY <1>1, KeyItems
  <2>3. Bare(e) \in Grouped(query)
    BY <1>1, <1>3, <2>2, KeyIsGrouped DEF Grouped
  <2>4. Bare(e) # "ts"
    BY <1>1, <1>3, <2>3 DEF SteadyQueries, QueryOK
  <2>5. s.k = r.k /\ s.ts \div 2 = r.ts \div 2 /\ s.ts \div 4 = r.ts \div 4
    BY ReplacedBucket DEF Replaces, Width
  <2> HIDE DEF e
  <2>6. Value(e, r) = Value(e, s)
    BY <2>1, <2>4, <2>5 DEF Exprs, Columns, Truncs, Bare, Value, Width
  <2> QED
    BY <2>6 DEF e
<1>4. ASSUME parsed.once, NEW t, Keyed(t, r) PROVE Keyed(t, s)
  BY <1>3, <1>4 DEF Keyed
<1> QED
  BY <1>2, <1>4
-----------------------------------------------------------------------------
(***************************************************************************)
(* What a MERGE brings up to date.                                         *)
(***************************************************************************)
\* A row of the target with the keys of two rows puts them in one group.
LEMMA KeyedTogether ==
    ASSUME QueryOK, Plain(query), parsed.once,
           NEW r \in Row, NEW s \in Row, NEW t, Keyed(t, r), Keyed(t, s)
    PROVE  Together(query, r, s)
<1>1. /\ query \in Query /\ Accepted(query) /\ Analysed(query)
      /\ HonestNames(query) /\ SelectsOnce(query) /\ parsed = ParsedView(query)
  BY PlainQuery
<1>2. \A i \in parsed.keys : Value(query.proj[i].expr, r) = Value(query.proj[i].expr, s)
  BY DEF Keyed
<1> QED
  BY <1>1, <1>2, KeysTellGroups

\* The row of a group carries its key.
LEMMA OutKeyed ==
    ASSUME QueryOK, Plain(query), NEW R \in SUBSET Row, NEW r \in Passing(R)
    PROVE  r \in Row /\ Keyed(Out(query, query.where, r, R), r)
<1>1. /\ query \in Query /\ Accepted(query) /\ Analysed(query)
      /\ HonestNames(query) /\ parsed = ParsedView(query)
  BY PlainQuery
<1>2. r \in R /\ Passes(query.where, r)
  BY DEF Passing
<1> QED
  BY <1>1, <1>2, OutKey DEF Keyed

\* The row of the source that matches the row of a group is that same row.
LEMMA MatchIsSame ==
    ASSUME SteadyQueries, RowType, Plain(query), parsed.once,
           NEW r \in Passing(tick.rows),
           NEW u \in MergeSource, Keyed(u, r)
    PROVE  u = Out(query, query.where, r, tick.rows)
<1>1. QueryOK /\ tick.rows \in SUBSET Row
  BY DEF RowType, TypeOK
<1>2. PICK v \in Passing(tick.rows) : u = Out(query, query.where, v, tick.rows)
  BY WindowSource
<1>3. r \in Row /\ v \in Row /\ Keyed(u, v)
  BY <1>1, <1>2, OutKeyed
<1>4. Together(query, v, r)
  BY <1>1, <1>3, KeyedTogether
<1> QED
  BY <1>2, <1>4, SameOut

\* After a MERGE the groups in the window, and those that were up to date
\* before, are up to date.
LEMMA MergeFreshens ==
    ASSUME SteadyQueries, RowType, Plain(query), Merge, Executes,
           NEW r \in Passing(tick.rows), InWindow(r) \/ Fresh(r, tick.rows)
    PROVE  \E n \in DOMAIN target' : target'[n] = Out(query, query.where, r, tick.rows)
<1> DEFINE o == Out(query, query.where, r, tick.rows)
<1>1. /\ QueryOK /\ TypeOK /\ TickOK /\ parsed.once /\ tick.rows \in SUBSET Row
      /\ Keyed(o, r)
  BY OutKeyed DEF RowType, TypeOK, Executes
<1>2. /\ DOMAIN target \subseteq DOMAIN target'
      /\ \A n \in DOMAIN target : target'[n] = Updated(target[n])
      /\ \A s \in Unmatched : \E n \in DOMAIN target' \ DOMAIN target : target'[n] = s
  BY <1>1, MergedTarget
<1> HIDE DEF o
<1>3. ASSUME NEW t, NEW u \in Matched(t), Keyed(t, r)
      PROVE  u = o
  <2>1. u \in MergeSource /\ Keyed(u, r)
    BY <1>3 DEF Matched, Matches, Keyed
  <2> QED
    BY <1>1, <2>1, MatchIsSame DEF o
<1>4. CASE InWindow(r)
  <2>1. o \in MergeSource
    BY <1>4, WindowSource DEF o
  <2>2. CASE o \in Unmatched
    BY <1>2, <2>2 DEF o
  <2>3. CASE o \notin Unmatched
    <3>1. PICK n \in DOMAIN target : Matches(target[n], o)
      BY <2>1, <2>3 DEF Unmatched
    <3>2. o \in Matched(target[n]) /\ Keyed(target[n], r)
      BY <1>1, <2>1, <3>1 DEF Matched, Matches, Keyed
    <3>3. Updated(target[n]) \in Matched(target[n])
      BY <3>2, UpdatedRow
    <3>4. target'[n] = o
      BY <1>2, <1>3, <3>2, <3>3
    <3> QED
      BY <1>2, <3>4 DEF o
  <2> QED
    BY <2>2, <2>3
<1>5. CASE Fresh(r, tick.rows)
  <2>1. PICK n \in DOMAIN target : target[n] = o
    BY <1>5 DEF Fresh, o
  <2>2. target'[n] = o
    BY <1>1, <1>2, <1>3, <2>1, UpdatedRow
  <2> QED
    BY <1>2, <2>2 DEF o
<1> QED
  BY <1>4, <1>5

-----------------------------------------------------------------------------
(***************************************************************************)
(* What writers do behind a tick.                                          *)
(***************************************************************************)
Writes ==
    \/ \E rows \in Batches, stats \in Stats : AppendFile(rows, stats)
    \/ \E f \in live, s \in Row : \E r \in f.rows : Overwrite(f, r, s)
    \/ Compact

\* Files that are appended touch the buckets of their rows.
LEMMA TouchedAppended ==
    ASSUME NEW files \in Seq(File), NEW f \in File, NEW k \in 0..Len(files), NEW r
    PROVE  Touched(Append(files, f), k, r)
             <=> Touched(files, k, r) \/ \E u \in f.rows : Bucket(u) = Bucket(r)
<1> DEFINE more == Append(files, f)
           n == Len(files)
<1>1. /\ n \in Nat /\ Len(more) = n + 1 /\ more[n + 1] = f
      /\ \A m \in 1..n : more[m] = files[m]
  BY AppendProperties, LenProperties
<1> HIDE DEF more, n
<1>2. \A m : m \in (k + 1)..Len(more) <=> m \in (k + 1)..n \/ m = n + 1
  BY <1>1 DEF n
<1>3. \A m \in (k + 1)..n : m \in 1..n
  BY <1>1 DEF n
<1>4. Touched(more, k, r)
        <=> \E m : m \in (k + 1)..Len(more) /\ \E u \in more[m].rows : Bucket(u) = Bucket(r)
  BY DEF Touched
<1>5. Touched(files, k, r)
        <=> \E m : m \in (k + 1)..n /\ \E u \in files[m].rows : Bucket(u) = Bucket(r)
  BY DEF Touched, n
<1> QED
  BY <1>1, <1>2, <1>3, <1>4, <1>5 DEF more

\* The files after the bookmark's are those that it leaves.
LEMMA TouchedAfter ==
    ASSUME NEW files \in Seq(File), NEW k \in 0..Len(files), NEW r
    PROVE  Touched(SubSeq(files, k + 1, Len(files)), 0, r) <=> Touched(files, k, r)
<1> DEFINE n == Len(files)
           rest == SubSeq(files, k + 1, n)
<1>1. n \in Nat /\ k \in Nat /\ k <= n
  BY LenProperties
<1>2. /\ Len(rest) = n - k
      /\ \A m \in 1..(n - k) : rest[m] = files[k + m]
  <2>1. \A m \in (k + 1)..n : m \in 1..n
    BY <1>1
  <2>2. /\ Len(rest) = IF k + 1 <= n THEN n - (k + 1) + 1 ELSE 0
        /\ \A m \in 1..(n - (k + 1) + 1) : rest[m] = files[(k + 1) + m - 1]
    BY <1>1, <2>1, SubSeqProperties, k + 1 \in Int
  <2> HIDE DEF rest, n
  <2> QED
    BY <1>1, <2>2
<1> HIDE DEF rest, n
<1>3. ASSUME Touched(rest, 0, r) PROVE Touched(files, k, r)
  <2>1. PICK m \in 1..(n - k) : \E u \in rest[m].rows : Bucket(u) = Bucket(r)
    BY <1>1, <1>2, <1>3 DEF Touched
  <2>2. k + m \in (k + 1)..n
    BY <1>1, <2>1
  <2> QED
    BY <1>2, <2>1, <2>2 DEF Touched, n
<1>4. ASSUME Touched(files, k, r) PROVE Touched(rest, 0, r)
  <2>1. PICK m \in (k + 1)..n : \E u \in files[m].rows : Bucket(u) = Bucket(r)
    BY <1>4 DEF Touched, n
  <2>2. m - k \in 1..(n - k) /\ k + (m - k) = m
    BY <1>1, <2>1
  <2>3. \E u \in rest[m - k].rows : Bucket(u) = Bucket(r)
    BY <1>2, <2>1, <2>2
  <2> QED
    BY <1>1, <1>2, <2>2, <2>3 DEF Touched
<1> QED
  BY <1>3, <1>4 DEF rest, n

\* Touching is a matter of the bucket, and of fewer files the less likely.
LEMMA TouchedBucket ==
    ASSUME NEW files, NEW k, NEW r, NEW s, Bucket(r) = Bucket(s)
    PROVE  Touched(files, k, r) <=> Touched(files, k, s)
  BY DEF Touched

\* A writer replaces every row that it removes by one of the same bucket and
\* key, and adds a file with a row in each bucket that it changes.
LEMMA WriterTouches ==
    ASSUME RowType, Writes
    PROVE  /\ \A r \in RowsOf(live) : \E s \in RowsOf(live') : Replaces(s, r)
           /\ \A k \in 0..Len(added), r \in Row :
                 Touched(added, k, r) => Touched(added', k, r)
           /\ \A k \in 0..Len(added), r \in Row :
                 ~Touched(added', k, r) => (r \in RowsOf(live) <=> r \in RowsOf(live'))
<1>1. /\ live \subseteq File /\ added \in Seq(File) /\ QueryOK /\ RowsOf(live) \subseteq Row
  BY DEF RowType, TypeOK, RowsOf, File
<1>2. ASSUME NEW r PROVE Replaces(r, r)
  BY DEF Replaces
<1>3. ASSUME NEW rows \in Batches, NEW stats \in Stats, AppendFile(rows, stats)
      PROVE  /\ \A r \in RowsOf(live) : \E s \in RowsOf(live') : Replaces(s, r)
             /\ \A k \in 0..Len(added), r \in Row :
                   Touched(added, k, r) => Touched(added', k, r)
             /\ \A k \in 0..Len(added), r \in Row :
                   ~Touched(added', k, r) => (r \in RowsOf(live) <=> r \in RowsOf(live'))
  <2> DEFINE f == [rows |-> rows, stats |-> stats]
  <2>1. f \in File /\ f.rows = rows
    BY RowAssumption DEF File
  <2>2. live' = live \union {f} /\ added' = Append(added, f)
    BY <1>3 DEF AppendFile
  <2> HIDE DEF f
  <2>3. RowsOf(live') = RowsOf(live) \union f.rows
    BY <2>2, RowsAdded
  <2>4. \A k \in 0..Len(added) : \A r :
           Touched(added', k, r) <=> Touched(added, k, r) \/ \E u \in f.rows : Bucket(u) = Bucket(r)
    BY <1>1, <2>1, <2>2, TouchedAppended
  <2> QED
    BY <1>2, <2>3, <2>4
<1>4. ASSUME NEW f \in live, NEW s \in Row, NEW r \in f.rows, Overwrite(f, r, s)
      PROVE  /\ \A u \in RowsOf(live) : \E v \in RowsOf(live') : Replaces(v, u)
             /\ \A k \in 0..Len(added), u \in Row :
                   Touched(added, k, u) => Touched(added', k, u)
             /\ \A k \in 0..Len(added), u \in Row :
                   ~Touched(added', k, u) => (u \in RowsOf(live) <=> u \in RowsOf(live'))
  <2> DEFINE g == [f EXCEPT !.rows = (@ \ {r}) \union {s}]
  <2>1. f \in File /\ g \in File /\ g.rows = (f.rows \ {r}) \union {s} /\ r \in Row
    BY <1>1 DEF File
  <2>2. live' = (live \ {f}) \union {g} /\ added' = Append(added, g)
    BY <1>4 DEF Overwrite
  <2> HIDE DEF g
  <2>3. /\ RowsOf(live') \subseteq RowsOf(live) \union {s}
        /\ RowsOf(live) \ {r} \subseteq RowsOf(live')
        /\ s \in RowsOf(live')
    <3>1. g.rows = (f.rows \ {r}) \union {s}
      BY <2>1
    <3>2. /\ RowsOf((live \ {f}) \union {g}) \subseteq RowsOf(live) \union {s}
          /\ RowsOf(live) \ {r} \subseteq RowsOf((live \ {f}) \union {g})
          /\ s \in RowsOf((live \ {f}) \union {g})
      BY ONLY <3>1, f \in live, r \in f.rows, RowsOverwritten, Zenon
    <3> QED
      BY <2>2, <3>2
  <2>4. Replaces(s, r)
    BY <1>4 DEF Overwrite, Replaces
  <2>5. Bucket(s) = Bucket(r)
    BY <1>1, <2>1, <2>4, ReplacedBucket
  <2>6. \A k \in 0..Len(added) : \A u :
           Touched(added', k, u) <=> Touched(added, k, u) \/ \E v \in g.rows : Bucket(v) = Bucket(u)
    BY <1>1, <2>1, <2>2, TouchedAppended
  <2>7. s \in g.rows
    BY <2>1
  <2>8. \A u \in RowsOf(live) : \E v \in RowsOf(live') : Replaces(v, u)
    BY <1>2, <2>3, <2>4
  <2>9. ASSUME NEW k \in 0..Len(added), NEW u \in Row, ~Touched(added', k, u)
        PROVE  u \in RowsOf(live) <=> u \in RowsOf(live')
    <3>1. Bucket(u) # Bucket(s)
      BY <2>6, <2>7, <2>9
    <3>2. u # s /\ u # r
      BY <2>5, <3>1
    <3> QED
      BY <2>3, <3>2
  <2> QED
    BY <2>6, <2>8, <2>9
<1>5. ASSUME Compact
      PROVE  /\ \A r \in RowsOf(live) : \E s \in RowsOf(live') : Replaces(s, r)
             /\ \A k \in 0..Len(added), r \in Row :
                   Touched(added, k, r) => Touched(added', k, r)
             /\ \A k \in 0..Len(added), r \in Row :
                   ~Touched(added', k, r) => (r \in RowsOf(live) <=> r \in RowsOf(live'))
  <2>1. live' = {[rows |-> RowsOf(live), stats |-> "full"]} /\ added' = added
    BY <1>5 DEF Compact
  <2>2. RowsOf(live') = RowsOf(live)
    BY <2>1 DEF RowsOf
  <2> QED
    BY <1>2, <2>1, <2>2
<1> QED
  BY <1>3, <1>4, <1>5 DEF Writes
-----------------------------------------------------------------------------
(***************************************************************************)
(* What a refresh publishes.                                               *)
(***************************************************************************)
\* In a bucket that no file added since the pin touches, the pinned rows are
\* the live ones, and so are the groups.
LEMMA PinnedGroups ==
    ASSUME RowType, Plain(query), PinOK, tick.pc # "idle",
           NEW r \in Row, ~Touched(added, tick.seen, r)
    PROVE  /\ r \in Passing(tick.rows) <=> r \in Passing(RowsOf(live))
           /\ Out(query, query.where, r, tick.rows) = Out(query, query.where, r, RowsOf(live))
<1>1. QueryOK /\ tick.rows \in SUBSET Row /\ RowsOf(live) \in SUBSET Row
  BY DEF RowType, TypeOK, RowsOf, File
<1>2. ASSUME NEW s \in Row, Bucket(s) = Bucket(r)
      PROVE  s \in tick.rows <=> s \in RowsOf(live)
  <2>1. ~Touched(added, tick.seen, s)
    BY <1>2, TouchedBucket
  <2> QED
    BY <2>1 DEF PinOK
<1> QED
  BY <1>1, <1>2, SameGroups DEF Passing

\* The rows of the target stay rows of groups of the source.
LEMMA NoOrphanStep ==
    ASSUME SteadyQueries, RowType, Plain(query), NoOrphan, PinOK, [Next]_vars
    PROVE  NoOrphan'
<1>1. /\ QueryOK /\ TypeOK /\ TickOK /\ tick.rows \in SUBSET Row /\ RowsOf(live) \in SUBSET Row
  BY DEF RowType, TypeOK, RowsOf, File
<1>2. CASE Writes
  <2>1. /\ UNCHANGED <<query, parsed, target, tick>> /\ live' \subseteq File
        /\ \A r \in RowsOf(live) : \E s \in RowsOf(live') : Replaces(s, r)
    BY <1>2, WriterRows, WriterTouches DEF Writes
  <2>2. RowsOf(live') \subseteq Row
    BY <2>1 DEF RowsOf, File
  <2>3. ASSUME NEW n \in DOMAIN target
        PROVE  \E s \in RowsOf(live') : Passes(query.where, s) /\ Keyed(target[n], s)
    <3>1. PICK r \in Passing(RowsOf(live)) : Keyed(target[n], r)
      BY DEF NoOrphan
    <3>2. parsed.once
      <4>1. target # <<>>
        BY EmptySeq
      <4> QED
        BY <4>1 DEF NoOrphan
    <3>3. PICK s \in RowsOf(live') : Replaces(s, r)
      BY <2>1, <3>1 DEF Passing
    <3>4. r \in Row /\ Passes(query.where, r) /\ s \in Row
      BY <1>1, <2>2, <3>1 DEF Passing
    <3> QED
      BY <1>1, <3>1, <3>2, <3>3, <3>4, ReplacedKey
  <2> QED
    BY <2>1, <2>3 DEF NoOrphan, Passing, Keyed
<1>3. CASE Detect
  <2>1. /\ tick'.rows = RowsOf(live) /\ UNCHANGED <<query, parsed, live, target>>
    BY <1>3 DEF Detect
  <2> QED
    BY <2>1 DEF NoOrphan, Passing, Keyed
<1>4. CASE Merge /\ Executes
  <2>1. UNCHANGED <<query, parsed, live>> /\ tick'.rows = tick.rows /\ tick.pc = "merge" /\ parsed.once
    BY <1>1, <1>4 DEF Merge, TickOK, NoTick, Executes
  <2>2. /\ \A n \in DOMAIN target : target'[n] = Updated(target[n])
        /\ \A n \in DOMAIN target' \ DOMAIN target : target'[n] \in Unmatched
    BY <1>1, <1>4, MergedTarget
  <2>3. ASSUME NEW n \in DOMAIN target'
        PROVE  \E r \in Passing(tick.rows) : Keyed(target'[n], r)
    <3>1. CASE n \in DOMAIN target
      <4>1. PICK r \in Passing(tick.rows) : Keyed(target[n], r)
        BY <2>1, <3>1 DEF NoOrphan
      <4>2. \A i \in parsed.keys : target'[n][i] = target[n][i]
        BY <2>2, <3>1, UpdatedKeys
      <4> QED
        BY <4>1, <4>2 DEF Keyed
    <3>2. CASE n \notin DOMAIN target
      <4>1. target'[n] \in MergeSource
        BY <2>2, <3>2 DEF Unmatched
      <4>2. PICK r \in Passing(tick.rows) : target'[n] = Out(query, query.where, r, tick.rows)
        BY <4>1, WindowSource
      <4> QED
        BY <1>1, <4>2, OutKeyed
    <3> QED
      BY <3>1, <3>2
  <2>4. ASSUME NEW n \in DOMAIN target'
        PROVE  \E s \in Passing(RowsOf(live)) : Keyed(target'[n], s)
    <3>1. PICK r \in Passing(tick.rows) : Keyed(target'[n], r)
      BY <2>3
    <3>2. PICK s \in RowsOf(live) : Replaces(s, r)
      BY <2>1, <3>1 DEF PinOK, Passing
    <3>3. r \in Row /\ Passes(query.where, r) /\ s \in Row
      BY <1>1, <3>1, <3>2 DEF Passing
    <3>4. Passes(query.where, s) /\ Keyed(target'[n], s)
      BY <1>1, <2>1, <3>1, <3>2, <3>3, ReplacedKey
    <3> QED
      BY <3>2, <3>4 DEF Passing
  <2> QED
    BY <2>1, <2>3, <2>4 DEF NoOrphan, Passing, Keyed
<1>5. CASE (Merge /\ ~Executes) \/ Publish \/ Interrupt
  <2>1. tick' = NoTick /\ UNCHANGED <<query, parsed, live, target>>
    BY <1>5 DEF Merge, Publish, Interrupt
  <2> QED
    BY <2>1 DEF NoOrphan, Passing, Keyed, NoTick
<1>6. CASE UNCHANGED vars
  BY <1>6 DEF vars, NoOrphan, Passing, Keyed
<1> QED
  BY <1>2, <1>3, <1>4, <1>5, <1>6 DEF Next, Writes

\* The pinned rows stay like the live ones but for the files added since.
LEMMA PinStep ==
    ASSUME RowType, PinOK, [Next]_vars
    PROVE  PinOK'
<1>1. /\ TypeOK /\ TickOK /\ QueryOK /\ tick.rows \in SUBSET Row /\ RowsOf(live) \in SUBSET Row
      /\ tick.seen \in 0..Len(added) /\ Len(added) \in Nat
  BY LenProperties DEF RowType, TypeOK, RowsOf, File
<1>2. CASE Writes
  <2>1. /\ UNCHANGED <<parsed, tick>> /\ live' \subseteq File
        /\ \A r \in RowsOf(live) : \E s \in RowsOf(live') : Replaces(s, r)
        /\ \A r \in Row : Touched(added, tick.seen, r) => Touched(added', tick.seen, r)
        /\ \A r \in Row :
              ~Touched(added', tick.seen, r) => (r \in RowsOf(live) <=> r \in RowsOf(live'))
    BY <1>1, <1>2, WriterRows, WriterTouches DEF Writes
  <2>2. RowsOf(live') \subseteq Row
    BY <2>1 DEF RowsOf, File
  <2>3. ASSUME tick.pc # "idle", NEW r \in tick.rows
        PROVE  \E s \in RowsOf(live') : Replaces(s, r)
    <3>1. PICK u \in RowsOf(live) : Replaces(u, r)
      BY <2>3 DEF PinOK
    <3>2. PICK s \in RowsOf(live') : Replaces(s, u)
      BY <2>1
    <3> QED
      BY <3>1, <3>2 DEF Replaces
  <2>4. ASSUME tick.pc # "idle", NEW r \in tick.rows \union RowsOf(live'),
               ~Touched(added', tick.seen, r)
        PROVE  r \in tick.rows <=> r \in RowsOf(live')
    <3>1. r \in Row /\ ~Touched(added, tick.seen, r)
      BY <1>1, <2>1, <2>2, <2>4
    <3> QED
      BY <2>1, <2>4, <3>1 DEF PinOK
  <2>5. \A r : Touched(added, tick.seen, r)' <=> Touched(added', tick.seen, r)
    BY <2>1 DEF Touched, Bucket
  <2> QED
    BY <2>1, <2>3, <2>4, <2>5 DEF PinOK
<1>3. CASE Detect
  <2>1. tick'.rows = RowsOf(live) /\ UNCHANGED live
    BY <1>3 DEF Detect
  <2> QED
    BY <2>1 DEF PinOK, Replaces
<1>4. CASE Merge /\ Executes
  <2>1. /\ UNCHANGED <<parsed, live, added>> /\ tick.pc = "merge"
        /\ tick'.rows = tick.rows /\ tick'.seen = tick.seen
    BY <1>1, <1>4 DEF Merge, TickOK, NoTick
  <2> QED
    BY <2>1 DEF PinOK, Touched, Bucket
<1>5. CASE (Merge /\ ~Executes) \/ Publish \/ Interrupt
  BY <1>5 DEF Merge, Publish, Interrupt, PinOK, NoTick
<1>6. CASE UNCHANGED vars
  BY <1>6 DEF vars, PinOK, Touched, Bucket
<1> QED
  BY <1>2, <1>3, <1>4, <1>5, <1>6 DEF Next, Writes
\* A tick's window spans the bucket of every row of the files it read.
LEMMA ReadInWindow ==
    ASSUME RowType, Detect, ~tick'.blind,
           NEW f \in Read, NEW u \in f.rows, NEW r \in Row, Bucket(u) = Bucket(r)
    PROVE  tick'.pc = "merge" /\ tick'.lo <= r.ts /\ r.ts < tick'.hi
<1> DEFINE S == Stamps(Bounded(Read))
<1>1. QueryOK /\ TypeOK
  BY DEF RowType
<1>2. \A g \in Read : g.rows \subseteq Row
  <2>1. \A g \in live : g.rows \subseteq Row
    BY <1>1 DEF TypeOK, File
  <2>2. added \in Seq(File) /\ DOMAIN added = 1..Len(added)
    BY <1>1, LenProperties DEF TypeOK
  <2>3. \A n \in 1..Len(added) : added[n] \in File
    BY <2>2, ElementOfSeq
  <2> QED
    BY <2>1, <2>2, <2>3 DEF Read, Range, File
<1>3. Bounded(Read) = Read
  BY DEF Detect
<1>4. u.ts \in S /\ S \in SUBSET Times
  BY <1>2, <1>3 DEF Stamps, RowsOf, Row
<1>5. /\ tick'.pc = "merge" /\ tick'.lo = FloorTo(Min(S))
      /\ tick'.hi = FloorTo(Max(S)) + parsed.width
  BY <1>4 DEF Detect
<1> HIDE DEF S
<1>6. \A t \in S, v \in Times :
         v \div parsed.width = t \div parsed.width
           => FloorTo(Min(S)) <= v /\ v < FloorTo(Max(S)) + parsed.width
  BY <1>1, <1>4, WindowOfStamps
<1>7. r.ts \in Times /\ r.ts \div parsed.width = u.ts \div parsed.width
  BY DEF Row, Bucket
<1> QED
  BY <1>4, <1>5, <1>6, <1>7

\* A target that is up to date stays so, behind the bookmark and in a tick.
LEMMA FreshStep ==
    ASSUME SteadyQueries, RowType, Plain(query), PinOK, FreshOK, [Next]_vars
    PROVE  FreshOK'
<1>1. /\ TypeOK /\ TickOK /\ QueryOK /\ tick.rows \in SUBSET Row /\ RowsOf(live) \in SUBSET Row
      /\ tick.seen \in 0..Len(added) /\ Len(added) \in Nat /\ 0 \in 0..Len(added)
      /\ added \in Seq(File)
  BY LenProperties DEF RowType, TypeOK, RowsOf, File
<1>2. CASE Writes
  <2>1. /\ UNCHANGED <<query, parsed, marked, target, tick, blind>> /\ live' \subseteq File
        /\ \A k \in 0..Len(added), r \in Row : Touched(added, k, r) => Touched(added', k, r)
        /\ \A k \in 0..Len(added), r \in Row :
              ~Touched(added', k, r) => (r \in RowsOf(live) <=> r \in RowsOf(live'))
    BY <1>2, WriterRows, WriterTouches DEF Writes
  <2>2. RowsOf(live') \in SUBSET Row
    BY <2>1 DEF RowsOf, File
  <2>3. ASSUME marked, ~blind, NEW r \in RowsOf(live'), Passes(query.where, r),
               ~Touched(added', 0, r)
        PROVE  Fresh(r, RowsOf(live'))
    <3>1. r \in Row /\ ~Touched(added, 0, r)
      BY <1>1, <2>1, <2>2, <2>3
    <3>2. ASSUME NEW s \in Row, Bucket(s) = Bucket(r)
          PROVE  s \in RowsOf(live) <=> s \in RowsOf(live')
      BY <1>1, <2>1, <2>3, <3>2, TouchedBucket
    <3>3. Fresh(r, RowsOf(live))
      BY <2>3, <3>1, <3>2 DEF FreshOK, Passing
    <3>4. Out(query, query.where, r, RowsOf(live)) = Out(query, query.where, r, RowsOf(live'))
      BY <1>1, <2>2, <3>1, <3>2, SameGroups
    <3> QED
      BY <3>3, <3>4 DEF Fresh
  <2>4. \A r : Touched(added, 0, r)' <=> Touched(added', 0, r)
    BY <2>1 DEF Touched, Bucket
  <2>5. \A r, R : Fresh(r, R) <=> \E n \in DOMAIN target' : target'[n] = Out(query', query'.where, r, R)
    BY <2>1 DEF Fresh
  <2> QED
    BY <2>1, <2>3, <2>4, <2>5 DEF FreshOK, Fresh, Passing, InWindow
<1>3. CASE Detect
  <2>1. UNCHANGED <<query, parsed, live, added, marked, target, blind>> /\ tick'.rows = RowsOf(live)
    BY <1>3 DEF Detect
  <2>2. ASSUME ~blind, ~tick'.blind, NEW r \in Passing(RowsOf(live)),
               tick'.pc = "publish" \/ ~InWindow(r)'
        PROVE  Fresh(r, RowsOf(live))
    <3>1. r \in Row /\ r \in RowsOf(live)
      BY <1>1 DEF Passing
    <3>2. \A f \in Read : \A u \in f.rows : Bucket(u) # Bucket(r)
      BY <1>3, <2>2, <3>1, ReadInWindow DEF InWindow
    <3>3. CASE ~marked
      BY <3>1, <3>2, <3>3 DEF Read, RowsOf
    <3>4. CASE marked
      <4>1. \A n \in 1..Len(added) : added[n] \in Read
        BY <1>1, <3>4, LenProperties DEF Read, Range
      <4>2. ~Touched(added, 0, r)
        BY <3>2, <4>1 DEF Touched
      <4> QED
        BY <2>2, <3>4, <4>2 DEF FreshOK
    <3> QED
      BY <3>3, <3>4
  <2>3. \A r, R : Fresh(r, R)' <=> Fresh(r, R)
    BY <2>1 DEF Fresh
  <2>4. marked' /\ ~blind' =>
          \A r \in Passing(RowsOf(live))' : ~Touched(added, 0, r)' => Fresh(r, RowsOf(live))'
    BY <2>1 DEF FreshOK, Passing, Touched, Bucket, Fresh
  <2>5. ~blind' /\ ~tick'.blind =>
          \A r \in Passing(tick.rows)' :
              tick'.pc = "publish" \/ ~InWindow(r)' => Fresh(r, tick.rows)'
    BY <2>1, <2>2 DEF Passing, Fresh
  <2> QED
    BY <2>4, <2>5 DEF FreshOK
<1>4. CASE Merge /\ Executes
  <2>1. /\ UNCHANGED <<query, parsed, live, added, marked, blind>> /\ tick.pc = "merge"
        /\ tick'.rows = tick.rows /\ tick'.blind = tick.blind
    BY <1>1, <1>4 DEF Merge, TickOK, NoTick
  <2>2. ASSUME NEW r \in Passing(tick.rows), InWindow(r) \/ Fresh(r, tick.rows)
        PROVE  \E n \in DOMAIN target' : target'[n] = Out(query, query.where, r, tick.rows)
    BY <1>4, <2>2, MergeFreshens
  <2>3. ASSUME marked, ~blind, NEW r \in Passing(RowsOf(live)), ~Touched(added, 0, r)
        PROVE  \E n \in DOMAIN target' : target'[n] = Out(query, query.where, r, RowsOf(live))
    <3>1. r \in Row /\ Fresh(r, RowsOf(live))
      BY <1>1, <2>3 DEF FreshOK, Passing
    <3>2. ~Touched(added, tick.seen, r)
      BY <1>1, <2>3 DEF Touched
    <3>3. /\ r \in Passing(tick.rows)
          /\ Out(query, query.where, r, tick.rows) = Out(query, query.where, r, RowsOf(live))
      BY <2>1, <2>3, <3>1, <3>2, PinnedGroups
    <3>4. Fresh(r, tick.rows)
      BY <3>1, <3>3 DEF Fresh
    <3> QED
      BY <2>2, <3>3, <3>4
  <2>4. ASSUME ~blind, ~tick.blind, NEW r \in Passing(tick.rows)
        PROVE  \E n \in DOMAIN target' : target'[n] = Out(query, query.where, r, tick.rows)
    BY <2>1, <2>2, <2>4 DEF FreshOK
  <2> QED
    BY <2>1, <2>3, <2>4 DEF FreshOK, Passing, Fresh, Touched, Bucket
<1>5. CASE Publish
  <2>1. /\ tick.pc = "publish" /\ UNCHANGED <<query, parsed, live, target>> /\ tick'.pc = "idle"
        /\ added' = SubSeq(added, tick.seen + 1, Len(added)) /\ blind' = (blind \/ tick.blind)
    BY <1>5 DEF Publish, NoTick
  <2>2. ASSUME ~blind', NEW r \in Passing(RowsOf(live)), ~Touched(added', 0, r)
        PROVE  Fresh(r, RowsOf(live))
    <3>1. r \in Row /\ ~Touched(added, tick.seen, r)
      BY <1>1, <2>1, <2>2, TouchedAfter DEF Passing
    <3>2. /\ r \in Passing(tick.rows)
          /\ Out(query, query.where, r, tick.rows) = Out(query, query.where, r, RowsOf(live))
      BY <2>1, <2>2, <3>1, PinnedGroups
    <3>3. Fresh(r, tick.rows)
      BY <2>1, <2>2, <3>2 DEF FreshOK
    <3> QED
      BY <3>2, <3>3 DEF Fresh
  <2> QED
    BY <2>1, <2>2 DEF FreshOK, Passing, Fresh, Touched, Bucket
<1>6. CASE (Merge /\ ~Executes) \/ Interrupt
  <2>1. tick'.pc = "idle" /\ UNCHANGED <<query, parsed, live, added, marked, target, blind>>
    BY <1>6 DEF Merge, Interrupt, NoTick
  <2> QED
    BY <2>1 DEF FreshOK, Passing, Fresh, Touched, Bucket
<1>7. CASE UNCHANGED vars
  BY <1>7 DEF vars, FreshOK, Passing, Fresh, Touched, Bucket, InWindow
<1> QED
  BY <1>2, <1>3, <1>4, <1>5, <1>6, <1>7 DEF Next, Writes
\* The rows of an incremental view, behind the bookmark and during a tick.
RowsInv ==
    Plain(query) => NoOrphan /\ PinOK /\ FreshOK

\* They are right in a view that has just been created, and stay right.
LEMMA RowsInvHolds ==
    ASSUME SteadyQueries
    PROVE  Spec => []RowsInv
<1>1. Init => RowsInv
  <2>1. DOMAIN <<>> = {} /\ NoTick.pc = "idle"
    BY EmptySeq DEF NoTick
  <2> QED
    BY <2>1 DEF Init, RowsInv, NoOrphan, PinOK, FreshOK
<1>2. RowType /\ RowsInv /\ [Next]_vars => RowsInv'
  <2> SUFFICES ASSUME RowType, RowsInv, [Next]_vars, Plain(query)'
               PROVE  NoOrphan' /\ PinOK' /\ FreshOK'
    BY DEF RowsInv
  <2>1. Plain(query)
    BY TargetKept DEF Plain, Incremental
  <2>2. NoOrphan /\ PinOK /\ FreshOK
    BY <2>1 DEF RowsInv
  <2> QED
    BY <2>1, <2>2, NoOrphanStep, PinStep, FreshStep
<1> QED
  BY <1>1, <1>2, RowTypeHolds, PTL DEF Spec

\* A target with one row for each key, each the key of a pinned group, is the
\* result at the pin once every pinned group is up to date.
LEMMA FreshIsResult ==
    ASSUME RowType, KeysUnique, Plain(query), NoOrphan, tick.pc # "idle",
           \A r \in Passing(tick.rows) : Fresh(r, tick.rows)
    PROVE  IsInjective(target) /\ Range(target) = Result(query, tick.rows)
<1> DEFINE w == query.where
           R == tick.rows
<1>1. QueryOK /\ query \in Query /\ ~query.having /\ R \in SUBSET Row
  BY WidthType DEF RowType, TypeOK, Plain, Incremental
<1>2. Result(query, R) = {Out(query, w, r, R) : r \in Passing(R)}
  <2>1. [query EXCEPT !.where = w] = query
    BY <1>1 DEF Query
  <2>2. Result([query EXCEPT !.where = w], R)
          = {Out(query, w, r, R) : r \in {u \in R : Passes(w, u)}}
    BY <1>1, ResultRows
  <2> QED
    BY <2>1, <2>2 DEF Passing
<1>3. IsInjective(target)
  BY DEF KeysUnique, IsInjective
<1>4. ASSUME NEW r \in Passing(R) PROVE Out(query, w, r, R) \in Range(target)
  BY <1>4 DEF Fresh, Range
<1>5. ASSUME NEW n \in DOMAIN target
      PROVE  \E r \in Passing(R) : target[n] = Out(query, w, r, R)
  <2>1. PICK r \in Passing(R) : Keyed(target[n], r)
    BY DEF NoOrphan
  <2>2. PICK m \in DOMAIN target : target[m] = Out(query, w, r, R)
    BY DEF Fresh
  <2>3. Keyed(target[m], r)
    BY <1>1, <2>2, OutKeyed
  <2>4. m = n
    BY <2>1, <2>3 DEF Keyed, KeysUnique
  <2> QED
    BY <2>2, <2>4
<1> QED
  BY <1>2, <1>3, <1>4, <1>5 DEF Range

\* When the bookmark moves, the target is the query's result at the pinned
\* snapshot, unless a bookmark passed a file without bounds.
THEOREM PublishedResultHolds ==
    ASSUME NoNulls, SteadyQueries
    PROVE  Spec => PublishedResult
<1>1. RowType /\ KeysUnique /\ RowsInv
        => (Publish /\ ~blind' /\ Plain(query)
              => IsInjective(target) /\ Range(target) = Result(query, tick.rows))
  <2> SUFFICES ASSUME RowType, KeysUnique, RowsInv, Publish, ~blind', Plain(query)
               PROVE  IsInjective(target) /\ Range(target) = Result(query, tick.rows)
    OBVIOUS
  <2>1. tick.pc = "publish" /\ ~blind /\ ~tick.blind
    BY DEF Publish
  <2>2. NoOrphan /\ FreshOK
    BY DEF RowsInv
  <2>3. \A r \in Passing(tick.rows) : Fresh(r, tick.rows)
    BY <2>1, <2>2 DEF FreshOK
  <2> QED
    BY <2>1, <2>2, <2>3, FreshIsResult
<1>2. RowType /\ KeysUnique /\ RowsInv /\ [Next]_vars
        => [Publish /\ ~blind' /\ Plain(query)
              => IsInjective(target) /\ Range(target) = Result(query, tick.rows)]_vars
  BY <1>1
<1> QED
  BY <1>2, RowTypeHolds, KeysUniqueHolds, RowsInvHolds, PTL DEF Spec, PublishedResult
=============================================================================
