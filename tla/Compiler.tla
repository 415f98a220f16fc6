------------------------------- MODULE Compiler -------------------------------
(***************************************************************************)
(* compile_sql: the queries that it refuses, and the graph of stages that  *)
(* it emits for the others.  A query is its plan and the tables of the     *)
(* sources it is compiled against; a source's id is its place in that      *)
(* list, and the SQL of a stage is a record of what the text says.         *)
(***************************************************************************)
EXTENDS StageGraph, SqlPlans

CONSTANT NumBuckets    \* compile_sql's num_buckets

\* UnsupportedSQLError, or an error of a constructor or of validate().
Refusal == [sources |-> <<>>, stages |-> <<>>, sink |-> <<>>]

-----------------------------------------------------------------------------
(* _classify: the shapes, and the subqueries *)

\* The first node at or below position i that is not a Filter.
BelowFilters(plan, i) ==
    CHOOSE j \in i..Len(plan) :
        plan[j].node # "Filter" /\ \A m \in i..(j - 1) : plan[m].node = "Filter"

FiltersFrom(plan, i) == SubSeq(plan, i, BelowFilters(plan, i) - 1)

\* Mutant: only the outermost expression is looked at.
ContainsSubqueryOutermost(expr) ==
    expr.variant \in {"ScalarSubquery", "InSubquery", "Exists"}

ContainsSubquery(expr) ==
    expr.variant \in {"ScalarSubquery", "InSubquery", "Exists"} \/ expr.embeds

\* _reject_subquery_projection; aliases around an item's expression are
\* unwrapped first.
ProjectionSafe(plan) ==
    \A item \in Elems(plan[1].items) : ~ContainsSubquery(item.expr)

\* The walk through the filters, with _reject_subquery_predicate at each.
ReachesScan(plan, i) ==
    /\ \A f \in Elems(FiltersFrom(plan, i)) : ~ContainsSubquery(f.predicate)
    /\ plan[BelowFilters(plan, i)].node = "TableScan"

-----------------------------------------------------------------------------
(* What an aggregate query is taken apart into *)

\* Mutant: a partial count is combined by counting.
CombineAlike == [sum |-> "sum", count |-> "count", min |-> "min", max |-> "max"]

\* _COMBINE
Combine == [sum |-> "sum", count |-> "sum", min |-> "min", max |-> "max"]

\* _extract_group_keys
GroupKeysExtracted(node) ==
    /\ \A g \in Elems(node.keys) : g.variant = "Column"
    /\ node.keys # <<>>

\* _extract_aggregates
AggregatesExtracted(node) ==
    \A a \in Elems(node.aggs) :
        /\ a.func \in DOMAIN Combine
        /\ ~a.distinct
        /\ a.func = "count" \/ a.arg.variant = "Column"

\* A count of anything but a plain column is taken for COUNT(*).
Extracted(a) == [func |-> a.func, arg |-> IF a.arg.variant = "Column" THEN a.arg ELSE One]

\* _extract_output_columns
OutputExtracted(item) ==
    item.aliases # <<>> \/ item.expr.variant \in {"Column", "AggregateFunction"}

\* schema_name() of an expression, which qualifies a table's column.
Qualified(expr) == IF Len(expr.name) = 1 THEN <<"table">> \o expr.name ELSE expr.name

OutputColumn(item) ==
    IF item.aliases = <<>>
    THEN [kind |-> IF item.expr.variant = "Column" THEN "column" ELSE "aggregate",
          key |-> item.expr.name, out |-> item.expr.name]
    ELSE IF Len(item.aliases) = 1 /\ item.expr.variant = "Column"
    THEN [kind |-> "column", key |-> item.expr.name, out |-> item.aliases[1]]
    ELSE [kind |-> "aggregate", key |-> Qualified(item.expr), out |-> item.aliases[1]]

\* partial_by_schema: the aggregate of a schema name, the later if two have it.
AggregatesNamed(node, key) == {i \in DOMAIN node.aggs : SchemaName(node.aggs[i]) = key}

\* An output of the final stage: a combined aggregate, looked for first, or a
\* group key.
Resolved(node, column) ==
    IF AggregatesNamed(node, column.key) # {}
    THEN LET i == Max(AggregatesNamed(node, column.key))
         IN  [combine |-> Combine[node.aggs[i].func], of |-> i, out |-> column.out]
    ELSE [combine |-> "key", out |-> column.out,
          of |-> CHOOSE i \in DOMAIN node.keys : node.keys[i].name = column.key]

-----------------------------------------------------------------------------
(* The emitted stages *)

\* The exchanges of _emit_aggregate and _emit_join.
HashShuffle(keys) == [kind |-> "hash_shuffle", keys |-> Len(keys), buckets |-> NumBuckets]
Pipeline          == [kind |-> "pipeline", keys |-> 0, buckets |-> 1]

\* A stage, with the keys that its exchange counts and its SQL.
StageOf(id, inputs, exchange, keys, sql) ==
    [id |-> id, inputs |-> inputs, exchange |-> exchange, keys |-> keys, sql |-> sql]

SourceId(i) == <<"source", i>>

Graph(query, stages) ==
    [sources |-> [i \in DOMAIN query.tables |-> SourceId(i)], stages |-> stages,
     sink |-> stages[Len(stages)].id]

\* The source of a table; the later if two declare it.
SourceOf(query, table) ==
    SourceId(Max({i \in DOMAIN query.tables : query.tables[i] = table}))

\* The user's SQL, run as it is.
UserSql(plan) == [op |-> "user", plan |-> plan]

EmitPassthrough(query) ==
    Graph(query, <<StageOf(<<"main">>, <<FromSource(SourceId(1))>>, Pipeline, <<>>, UserSql(query.plan))>>)

\* The refusals of an aggregate, in _classify and in _emit_aggregate.
AggregateCompiles(query) ==
    LET node == query.plan[2]
    IN  /\ ReachesScan(query.plan, 3)
        /\ GroupKeysExtracted(node)
        /\ AggregatesExtracted(node)
        /\ \A item \in Elems(query.plan[1].items) :
              /\ OutputExtracted(item)
              /\ \/ OutputColumn(item).kind = "column"
                 \/ AggregatesNamed(node, OutputColumn(item).key) # {}
        /\ Leaf(query.plan).table = query.tables[1]

\* The FROM clause of the partial stage: the scan with the filters above it.
PartialFrom(plan) == SubSeq(plan, 3, Len(plan))

EmitAggregate(query) ==
    LET node  == query.plan[2]
        items == query.plan[1].items
        partial == [op |-> "partial", keys |-> node.keys, from |-> PartialFrom(query.plan),
                    aggs |-> [i \in DOMAIN node.aggs |-> Extracted(node.aggs[i])]]
        final == [op |-> "final",
                  outs |-> [i \in DOMAIN items |-> Resolved(node, OutputColumn(items[i]))]]
    IN  Graph(query,
            <<StageOf(<<"partial">>, <<FromSource(SourceId(1))>>, HashShuffle(node.keys), node.keys, partial),
              StageOf(<<"final">>, <<FromStage(<<"partial">>)>>, Pipeline, <<>>, final)>>)

-----------------------------------------------------------------------------
(* _emit_join.  The "on" of a Join node is what the optimizer makes of the   *)
(* equalities in its ON condition.                                           *)

\* _find_join: depth first, and the chain of an accepted plan has one.
FindJoin(plan) ==
    plan[CHOOSE i \in DOMAIN plan : plan[i].node = "Join"
             /\ \A j \in 1..(i - 1) : plan[j].node # "Join"]

\* _column_name
KeyNamed(expr) == expr.variant = "Column"

\* _tablescan_name: any chain of nodes above a scan will do.
ScanUnder(plan) == Leaf(plan).node = "TableScan"

\* The refusals of _emit_join.
JoinCompiles(query) ==
    LET join == FindJoin(query.plan)
    IN  /\ join.type = "Inner"
        /\ Len(join.on) = 1
        /\ KeyNamed(join.on[1][1]) /\ KeyNamed(join.on[1][2])
        /\ ScanUnder(join.left) /\ ScanUnder(join.right)
        /\ Leaf(join.left).table # Leaf(join.right).table
        /\ {Leaf(join.left).table, Leaf(join.right).table} \subseteq Elems(query.tables)

\* Mutant: the scans of a join are broadcast, which the IR has a kind for.
EmitScanBroadcast(query, table, key) ==
    StageOf(<<"scan", table>>, <<FromSource(SourceOf(query, table))>>,
        [kind |-> "broadcast", keys |-> 0, buckets |-> NumBuckets],
        <<key>>, [op |-> "scan", table |-> table])

EmitScan(query, table, key) ==
    StageOf(<<"scan", table>>, <<FromSource(SourceOf(query, table))>>, HashShuffle(<<key>>),
        <<key>>, [op |-> "scan", table |-> table])

EmitJoin(query) ==
    LET join == FindJoin(query.plan)
        l == EmitScan(query, Leaf(join.left).table, join.on[1][1])
        r == EmitScan(query, Leaf(join.right).table, join.on[1][2])
    IN  Graph(query, <<l, r, StageOf(<<"join">>, <<FromStage(l.id), FromStage(r.id)>>,
                                 Pipeline, <<>>, UserSql(query.plan))>>)

-----------------------------------------------------------------------------
(* compile_sql *)

Compiles(query) ==
    /\ query.plan[1].node = "Projection"
    /\ ProjectionSafe(query.plan)
    /\ \/ query.plan[2].node = "Join" /\ JoinCompiles(query)
       \/ /\ query.plan[2].node = "Aggregate"
          /\ AggregateCompiles(query)
          /\ Len(query.tables) = 1
       \/ /\ query.plan[2].node \in {"Filter", "TableScan"}
          /\ ReachesScan(query.plan, 2)
          /\ Len(query.tables) = 1

Emitted(query) ==
    CASE query.plan[2].node = "Join"      -> EmitJoin(query)
      [] query.plan[2].node = "Aggregate" -> EmitAggregate(query)
      [] OTHER                            -> EmitPassthrough(query)

\* The constructors and validate() have a say too.
WellFormed(g) == Validate(g) /\ \A stage \in Elems(g.stages) : stage.exchange \in Exchange

Compile(query) ==
    IF Compiles(query) /\ WellFormed(Emitted(query)) THEN Emitted(query) ELSE Refusal
=============================================================================
