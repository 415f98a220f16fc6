------------------------------- MODULE SqlPlans -------------------------------
(***************************************************************************)
(* Logical plans as DataFusion hands them to the compiler, and what a      *)
(* query means on one engine: the reference for what the compiler emits.   *)
(*                                                                         *)
(* A plan is the sequence of its nodes from the top down.  It ends in a    *)
(* TableScan, or in a Join that carries the plans of its sides.  An        *)
(* expression is its variant, its name and whether a subquery is embedded  *)
(* in it; <<"k">> and <<"v">> are the key and the value column of a table, *)
(* and the name of an aggregate says all there is to it.                   *)
(*                                                                         *)
(* A row is its id, its table, the partition it is in, and k and v.        *)
(***************************************************************************)
EXTENDS Sequences, FiniteSetsExt

CONSTANT Null    \* SQL NULL

ASSUME NullAssumption == Null \notin Int

Expr(variant, name, embeds) == [variant |-> variant, name |-> name, embeds |-> embeds]

Column(name) == Expr("Column", name, FALSE)
One          == Expr("Literal", <<"1">>, FALSE)
Case         == Expr("Case", <<"CASE WHEN v = 2 THEN v END">>, FALSE)
MaxV         == Expr("ScalarSubquery", <<"(SELECT MAX(v))">>, FALSE)
IfTop        == Expr("Case", <<"CASE WHEN v = (SELECT MAX(v)) THEN v END">>, TRUE)

\* What tells an aggregate from the others of its plan.
SchemaName(a) == <<a.func, a.arg.name, a.distinct, a.filtered>>

Leaf(plan) == plan[Len(plan)]

-----------------------------------------------------------------------------
(* Expressions and aggregates *)

\* The values of an expression, as a function on rows.
NonNull(f) == {t \in DOMAIN f : f[t] # Null}

Highest(f) == IF NonNull(f) = {} THEN Null ELSE Max({f[t] : t \in NonNull(f)})

Lowest(f) == IF NonNull(f) = {} THEN Null ELSE Min({f[t] : t \in NonNull(f)})

Total(f) == IF NonNull(f) = {} THEN Null ELSE MapThenSumSet(LAMBDA t : f[t], NonNull(f))

\* An aggregate function over values.
Aggregate(func, f) ==
    CASE func = "count" -> Cardinality(NonNull(f))
      [] func = "sum"   -> Total(f)
      [] func = "min"   -> Lowest(f)
      [] func = "max"   -> Highest(f)

\* An expression for row r of a table, or of what is there of it, T.
Value(expr, r, T) ==
    LET top == Highest([t \in T |-> t.v])
    IN  CASE expr.name = <<"k">>     -> r.k
          [] expr.name = <<"v">>     -> r.v
          [] expr.name = One.name    -> 1
          [] expr.name = Case.name   -> IF r.v = 2 THEN r.v ELSE Null
          [] expr.name = MaxV.name   -> top
          [] expr.name = IfTop.name  -> IF r.v = top THEN r.v ELSE Null

\* A row passes a predicate when its value is not NULL.
Holds(expr, r, T) == Value(expr, r, T) # Null

AggregateValue(a, T) ==
    LET of  == IF a.filtered THEN {r \in T : Holds(Case, r, T)} ELSE T
        v(r) == Value(a.arg, r, T)
        same(r, q) == v(r) = v(q)
        counted == IF a.distinct THEN {r \in of : \A q \in of : same(r, q) => r.id <= q.id}
                                 ELSE of
    IN  Aggregate(a.func, [r \in counted |-> v(r)])

KeyTuple(keys, r, T) == [i \in DOMAIN keys |-> Value(keys[i], r, T)]

-----------------------------------------------------------------------------
(* Queries *)

\* ORDER BY v DESC LIMIT 1, ties going to the lowest id.
TopRow(T) ==
    {r \in T : \A q \in T : q = r \/ q.v = Null \/ (r.v # Null /\ r.v > q.v)
                            \/ (r.v = q.v /\ r.id < q.id)}

\* What a plan's nodes from position i down to the scan make of its table.
RowsBelow(plan, i, T) ==
    LET below[j \in i..Len(plan)] ==
            CASE plan[j].node = "TableScan" -> {r \in T : r.table = plan[j].table}
              [] plan[j].node = "Filter"    ->
                     {r \in below[j + 1] : Holds(plan[j].predicate, r, below[j + 1])}
              [] plan[j].node = "Limit"     -> TopRow(below[j + 1])
              [] OTHER                      -> below[j + 1]
    IN  below[i]

\* The name that an item has in the result: its outermost alias or its own.
ResultName(item) == IF item.aliases = <<>> THEN item.expr.name ELSE item.aliases[1]

\* An item of an aggregate query for the group with the given keys.
ItemValue(item, node, keys, T) ==
    LET name == item.expr.name
    IN  IF \E a \in {node.aggs[i] : i \in DOMAIN node.aggs} : SchemaName(a) = name
        THEN AggregateValue(CHOOSE a \in {node.aggs[i] : i \in DOMAIN node.aggs} :
                                SchemaName(a) = name, T)
        ELSE keys[CHOOSE i \in DOMAIN keys : node.keys[i].name = name]

AggregateAnswer(plan, T) ==
    LET rows   == RowsBelow(plan, 3, T)
        keyOf(r) == KeyTuple(plan[2].keys, r, rows)
    IN  {[of |-> keys, out |-> [i \in DOMAIN plan[1].items |->
              <<ResultName(plan[1].items[i]),
                ItemValue(plan[1].items[i], plan[2], keys, {r \in rows : keyOf(r) = keys})>>]]
           : keys \in {keyOf(r) : r \in rows}}

PassthroughAnswer(plan, T) ==
    LET rows == RowsBelow(plan, 2, T)
    IN  {[of |-> r.id, out |-> [i \in DOMAIN plan[1].items |->
              <<ResultName(plan[1].items[i]), Value(plan[1].items[i].expr, r, T)>>]] : r \in rows}

\* The pairs of rows that a join matches; a LEFT join keeps the others too.
JoinAnswer(plan, T) ==
    LET join  == plan[2]
        L == RowsBelow(join.left, 1, T)
        R == RowsBelow(join.right, 1, T)
        equal(x, y) == x # Null /\ x = y
        match(l, r) ==
            /\ \A pair \in {join.on[i] : i \in DOMAIN join.on} :
                   equal(Value(pair[1], l, L), Value(pair[2], r, R))
            /\ join.residual => l.v # Null /\ r.v # Null /\ l.v < r.v
    IN  {[of |-> <<p[1].id, p[2].id>>, out |-> <<>>] : p \in {q \in L \X R : match(q[1], q[2])}}
        \cup IF join.type = "Inner" THEN {}
             ELSE {[of |-> <<l.id, 0>>, out |-> <<>>] : l \in {l \in L : \A r \in R : ~match(l, r)}}

\* The result of a query over the rows that one engine is given.
Answer(plan, T) ==
    CASE plan[2].node = "Aggregate" -> AggregateAnswer(plan, T)
      [] plan[2].node = "Join"      -> JoinAnswer(plan, T)
      [] OTHER                      -> PassthroughAnswer(plan, T)
=============================================================================
