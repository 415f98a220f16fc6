---------------------------- MODULE QuerySemantics ----------------------------
(***************************************************************************)
(* The three query shapes the compiler accepts, by what their SQL does to  *)
(* tuples.  A tuple carries its key (the GROUP BY columns or the join key) *)
(* and the set of source rows it was made from: a scanned tuple stands for *)
(* one row, a partial or final aggregate for the rows it folds, a joined   *)
(* tuple for the pair.  Column values are functions of those rows, so two  *)
(* results are equal exactly when they are made from the same rows, folded *)
(* once each: GroupBy takes the union of what it folds, and does not see a *)
(* row that comes twice.  That none does is the subject of PlanReadsOnce   *)
(* and of the inductive invariant of DagRun, and of CompiledQuery by value.*)
(***************************************************************************)
EXTENDS FiniteSets

CONSTANTS
    Row,        \* the rows of all source tables
    Key,        \* the values of the grouping or joining column
    KeyOf,      \* the key of each row
    NullKey,    \* SQL NULL: GROUP BY groups it with itself, = never matches it
    Keep,       \* the rows that satisfy the WHERE clause
    Query,      \* "passthrough", "aggregate" or "join"
    Left,       \* the only table of a one-table query, or a join's left table
    Right       \* a join's right table

ASSUME QueryAssumption ==
    /\ IsFiniteSet(Row) /\ IsFiniteSet(Key)
    /\ KeyOf \in [Row -> Key]
    /\ Keep \subseteq Row
    /\ Query \in {"passthrough", "aggregate", "join"}
    /\ Left # Right

Table == IF Query = "join" THEN {Left, Right} ELSE {Left}

Tuple == [key : Key, from : SUBSET Row]

\* Table contents as the scan of a data file returns them.
TuplesOf(rows) == {[key |-> KeyOf[r], from |-> {r}] : r \in rows}

Where(T) == {t \in T : t.from \subseteq Keep}

\* One tuple per key, folding every tuple that has the key.
GroupBy(T) ==
    {[key |-> t.key, from |-> UNION {u.from : u \in {v \in T : v.key = t.key}}]
        : t \in T}

Joined(l, r) == [key |-> l.key, from |-> l.from \cup r.from]

Matches(l, r) == l.key = r.key /\ l.key # NullKey

InnerJoin(L, R) ==
    {Joined(p[1], p[2]) : p \in {q \in L \X R : Matches(q[1], q[2])}}

\* Mutant: the WHERE clause is left out of the partial aggregation.
ScanSqlUnfiltered(T) == IF Query = "aggregate" THEN GroupBy(T) ELSE T

\* SQL of the scan stage of a table: the partial aggregation with its WHERE,
\* or SELECT * for a side of a join.
ScanSql(T) == IF Query = "aggregate" THEN GroupBy(Where(T)) ELSE T

\* Mutant: partial aggregates are passed on and not combined.
SinkSqlUncombined(tables) ==
    CASE Query = "passthrough" -> Where(tables[Left])
      [] Query = "aggregate"   -> tables[Left]
      [] OTHER                 -> InnerJoin(tables[Left], tables[Right])

\* Mutant: the join stage loses its ON condition.
SinkSqlCross(tables) ==
    CASE Query = "passthrough" -> Where(tables[Left])
      [] Query = "aggregate"   -> GroupBy(tables[Left])
      [] OTHER -> {Joined(p[1], p[2]) : p \in tables[Left] \X tables[Right]}

\* SQL of the sink stage, over the tables registered for it.
SinkSql(tables) ==
    CASE Query = "passthrough" -> Where(tables[Left])
      [] Query = "aggregate"   -> GroupBy(tables[Left])
      [] OTHER                 -> InnerJoin(tables[Left], tables[Right])

\* The answer one engine would give to the whole query over the given rows.
Answer(rows) ==
    CASE Query = "passthrough" -> Where(TuplesOf(rows[Left]))
      [] Query = "aggregate"   -> GroupBy(Where(TuplesOf(rows[Left])))
      [] OTHER -> InnerJoin(TuplesOf(rows[Left]), TuplesOf(rows[Right]))
=============================================================================
