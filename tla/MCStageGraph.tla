---------------------------- MODULE MCStageGraph ----------------------------
(***************************************************************************)
(* The graphs that the factory is handed: every hand-written one of up to  *)
(* three stages, grown stage by stage, against a definition of the graphs  *)
(* that the factory means to support; and those that the compiler makes of *)
(* queries, against what docs/limitations.md says of queries and against   *)
(* what a query means on one engine.                                       *)
(***************************************************************************)
EXTENDS CompiledQuery

CONSTANTS
    MaxStages,   \* bound: the stages of a hand-written graph
    Inputs,      \* the input lists tried
    Exchanges,   \* the exchanges tried
    SourceLists, \* the lists of sources tried
    Queries,     \* the queries compiled
    Tables(_)    \* the contents of the tables that a query is run over

\* Exchanges and input lists are those that the constructors of the IR let exist.
ASSUME MCAssumption ==
    /\ Exchanges \subseteq Exchange
    /\ \A inputs \in Inputs :
          /\ inputs \in Seq(Elems(inputs)) \ {<<>>}
          /\ \A inp \in Elems(inputs) : inp \in {FromSource(inp.id), FromStage(inp.id)}

VARIABLES
    graph,       \* the graph, as far as it has been built
    from,        \* "hand", or "query", "compiler", "run": how far a query is
    query,       \* the query, if there is one
    rows         \* the contents of the tables

vars == <<graph, from, query, rows>>

StageId == 1..MaxStages
NoQuery == [plan |-> <<>>, tables |-> <<>>]

InitByHand ==
    /\ \E sources \in SourceLists, sink \in StageId :
           graph = [sources |-> sources, stages |-> <<>>, sink |-> sink]
    /\ from = "hand" /\ query = NoQuery

InitQuery == graph = Refusal /\ from = "query" /\ query \in Queries

Init == (InitByHand \/ InitQuery) /\ rows = {}

\* Stage ids are positions, but for one that may repeat the first.
AddStage ==
    /\ from = "hand"
    /\ Len(graph.stages) < MaxStages
    /\ \E id \in {1, Len(graph.stages) + 1}, inputs \in Inputs, x \in Exchanges :
           graph' = [graph EXCEPT !.stages =
                        Append(@, [id |-> id, inputs |-> inputs, exchange |-> x])]
    /\ UNCHANGED <<from, query, rows>>

CompileQuery ==
    /\ from = "query"
    /\ graph' = Compile(query)
    /\ from' = "compiler"
    /\ UNCHANGED <<query, rows>>

RunQuery ==
    /\ from = "compiler" /\ graph # Refusal
    /\ from' = "run"
    /\ rows' \in Tables(query)
    /\ UNCHANGED <<graph, query>>

Next == AddStage \/ CompileQuery \/ RunQuery

Spec == Init /\ [][Next]_vars

-----------------------------------------------------------------------------

SinkStage == CHOOSE s \in Elems(graph.stages) : s.id = graph.sink
Others    == {s \in Elems(graph.stages) : s.id # graph.sink}

\* The shapes the DAG can execute: one stage from a source to the sink, or
\* scans that shuffle alike, each read by the sink stage that ends the list.
Supported ==
    /\ Distinct(Ids(graph)) /\ Distinct(graph.sources)
    /\ graph.sink \in Elems(Ids(graph))
    /\ SinkStage.exchange.kind = "pipeline"
    /\ \A s \in Others :
          /\ s.exchange.kind = "hash_shuffle"
          /\ \E id \in Elems(graph.sources) : s.inputs = <<FromSource(id)>>
    /\ IF Others = {}
       THEN \E id \in Elems(graph.sources) : SinkStage.inputs = <<FromSource(id)>>
       ELSE /\ Elems(SinkStage.inputs) = {FromStage(s.id) : s \in Others}
            /\ Ids(graph)[Len(graph.stages)] = graph.sink
    /\ \A s, u \in Others :
          s.exchange.buckets = u.exchange.buckets /\ s.exchange.keys = u.exchange.keys

\* The checks let through exactly the graphs that the DAG can execute.
AcceptsExactlySupported == Accepted(graph) <=> Supported

\* A set that has, with each task, the tasks that Airflow waits for before it.
UpstreamClosed(g, adaptive, tasks) ==
    \A pair \in Feeds(g, adaptive) : pair[2] \in tasks => pair[1] \in tasks

\* Every task of an accepted graph is upstream of finalize, whatever the policy: no
\* stage runs, and may fail, beside the chain of tasks that ends in the commit.  (What
\* trigger rules and skipping make of that chain is the business of DagRun.)
FinalizeWaitsForAll ==
    Accepted(graph) =>
        \A adaptive \in BOOLEAN :
            \A tasks \in SUBSET Tasks(graph, adaptive) :
                Finalize \in tasks /\ UpstreamClosed(graph, adaptive, tasks) =>
                    tasks = Tasks(graph, adaptive)

\* Under every bucketing policy the scans that one stage reads are told one
\* width, and by the same planner when it is decided during the run.
ScansShareWidth ==
    Accepted(graph) =>
        \A i, j \in DOMAIN graph.stages, adaptive \in BOOLEAN, buckets \in {0, 5} :
            Shuffles(graph, i) /\ Shuffles(graph, j) =>
                WidthGiven(graph, i, adaptive, buckets)
                  = WidthGiven(graph, j, adaptive, buckets)

-----------------------------------------------------------------------------

Plain(expr) == expr.variant = "Column"

\* "scalar, IN, and EXISTS forms alike, including a subquery nested inside a
\* larger expression"
Subquery(expr) == expr.embeds \/ expr.variant \in {"ScalarSubquery", "InSubquery", "Exists"}

FreeOfSubqueries(plan) ==
    /\ \A item \in Elems(plan[1].items) : ~Subquery(item.expr)
    /\ \A i \in DOMAIN plan : plan[i].node = "Filter" => ~Subquery(plan[i].predicate)

\* WHERE, and nothing else, from position i of a plan down to a table.
OnlyFilters(plan, i) ==
    Leaf(plan).node = "TableScan" /\ \A j \in i..(Len(plan) - 1) : plan[j].node = "Filter"

CombinableAggregate(a) ==
    /\ a.func \in {"sum", "count", "min", "max"} /\ ~a.distinct /\ ~a.filtered
    /\ Plain(a.arg) \/ (a.func = "count" /\ a.arg = One)

SupportedAggregate(plan) ==
    LET node  == plan[2]
        names == {g.name : g \in Elems(node.keys)} \cup {SchemaName(a) : a \in Elems(node.aggs)}
    IN  /\ node.keys # <<>> /\ \A g \in Elems(node.keys) : Plain(g)
        /\ \A a \in Elems(node.aggs) : CombinableAggregate(a)
        /\ \A item \in Elems(plan[1].items) : item.expr.name \in names

\* A table, under its own name or under an alias.
BareTable(side) ==
    /\ Leaf(side).node = "TableScan"
    /\ \A i \in 1..(Len(side) - 1) : side[i].node = "SubqueryAlias"

\* "A single INNER equi-join between two tables on one key pair of matching types,
\* with no WHERE or GROUP BY in the same query"; "only a bare two-table join is
\* recognised".  A side that is bare has no filter, hence no subquery in one.
SupportedJoin(join) ==
    /\ join.type = "Inner"
    /\ Len(join.on) = 1 /\ Plain(join.on[1][1]) /\ Plain(join.on[1][2]) /\ ~join.residual
    /\ BareTable(join.left) /\ BareTable(join.right)
    /\ Leaf(join.left).table # Leaf(join.right).table

\* The lists "Supported SQL" and "Rejected, and why" of docs/limitations.md, for the
\* shapes that docs/compiler-and-ir.md draws.  Below a Projection or an Aggregate
\* that is "[Filter] -> TableScan": a SubqueryAlias there is taken for a sub-query,
\* which the compiler's docstring rejects, although a table alias makes one too.
Documented(q) ==
    LET plan == q.plan
    IN  /\ plan[1].node = "Projection" /\ FreeOfSubqueries(plan)
        /\ \/ OnlyFilters(plan, 2) /\ Len(q.tables) = 1
           \/ /\ plan[2].node = "Aggregate" /\ OnlyFilters(plan, 3)
              /\ SupportedAggregate(plan) /\ Len(q.tables) = 1
           \/ plan[2].node = "Join" /\ SupportedJoin(plan[2])

\* What the compiler emits is what the factory can build.
CompiledGraphsAccepted ==
    from = "compiler" /\ graph # Refusal => Accepted(graph)

\* Whatever compiles gives, over any partitions of any tables, the rows that
\* one engine gives, each once: it "never silently returns a wrong number".
NeverAWrongNumber ==
    from = "run" =>
        LET results == Results(graph, rows)
        IN  /\ {x[2] : x \in results} = Answer(query.plan, rows)
            /\ Cardinality(results) = Cardinality(Answer(query.plan, rows))

-----------------------------------------------------------------------------
(* The queries that NeverAWrongNumber is proved of: what makes a plan one of *)
(* DataFusion's, less what the findings are about.                           *)

IsSeq(s) == s \in Seq(Elems(s))

\* A chain of nodes, of which the last, and no other, reads tables.
IsPlan(plan) ==
    /\ IsSeq(plan) /\ plan # <<>>
    /\ \A i \in DOMAIN plan : plan[i].node \in {"TableScan", "Join"} <=> i = Len(plan)

KeyOrValue(expr) == expr.name \in {<<"k">>, <<"v">>}

\* An expression that looks at one row, unless it is or embeds a subquery.
OfRow(expr) == KeyOrValue(expr) \/ expr.name \in {One.name, Case.name}
OfRowOrSubquery(expr) == OfRow(expr) \/ ContainsSubquery(expr)

FiltersOrdinary(plan) ==
    \A i \in DOMAIN plan : plan[i].node = "Filter" => OfRowOrSubquery(plan[i].predicate)

\* Counted are the rows or a column (finding 3), summed and compared are values,
\* and nothing is filtered (finding 4).
OrdinaryAggregate(a) ==
    /\ ~a.filtered
    /\ IF a.func = "count" THEN a.arg = One \/ (Plain(a.arg) /\ KeyOrValue(a.arg))
                           ELSE a.arg.name = <<"v">>

OrdinaryAggregation(plan) ==
    /\ IsSeq(plan[2].keys) /\ \A g \in Elems(plan[2].keys) : KeyOrValue(g)
    /\ IsSeq(plan[2].aggs) /\ \A a \in Elems(plan[2].aggs) : OrdinaryAggregate(a)
    /\ \A item \in Elems(plan[1].items) :
           Len(item.expr.name) = 1 => item.expr.name = <<item.expr.name[1]>>

\* The key columns are compared, and the nodes of a side keep or drop each row by
\* itself (finding 5).
OrdinaryJoin(join) ==
    /\ IsSeq(join.on)
    /\ \A pair \in Elems(join.on) : pair[1].name = <<"k">> /\ pair[2].name = <<"k">>
    /\ \A side \in {join.left, join.right} :
          /\ IsPlan(side)
          /\ \A i \in 1..(Len(side) - 1) :
                \/ side[i].node = "SubqueryAlias"
                \/ side[i].node = "Filter" /\ OfRow(side[i].predicate)

Ordinary(q) ==
    /\ IsPlan(q.plan) /\ FiltersOrdinary(q.plan)
    /\ CASE q.plan[2].node = "Aggregate" -> OrdinaryAggregation(q.plan)
         [] q.plan[2].node = "Join"      -> OrdinaryJoin(q.plan[2])
         [] OTHER -> \A item \in Elems(q.plan[1].items) : OfRowOrSubquery(item.expr)

\* Rows of their own, with numbers in the value column and keys that are hashed
\* into the buckets there are.
OrdinaryTable(T) ==
    /\ IsFiniteSet(T)
    /\ \A r, q \in T : r.id = q.id => r = q
    /\ \A r \in T : r.v \in Int \cup {Null} /\ BucketOf["own"][<<r.k>>] \in 0..(NumBuckets - 1)

OrdinaryQueries ==
    \A q \in Queries : Compile(q) # Refusal =>
        Ordinary(q) /\ \A T \in Tables(q) : OrdinaryTable(T)

-----------------------------------------------------------------------------
(* The queries that RefusesExactlyDocumented is about: what DataFusion sees  *)
(* to when it makes a plan, less what is compiled and is not documented as   *)
(* supported (findings 3 to 5), and joins with a condition beside the key    *)
(* pair, of which the lists say nothing.                                     *)

\* A table that is scanned is registered.
Registered(q, plan) == Leaf(plan).node = "TableScan" => Leaf(plan).table \in Elems(q.tables)

DescribedAggregate(a) ==
    ~a.filtered /\ (a.func = "count" => a.arg = One \/ Plain(a.arg))

\* Above an aggregate a column is a key or an aggregate of it, and a key is under
\* one alias at most.
DescribedItem(item, node) ==
    LET name == item.expr.name
        keys == {g.name : g \in Elems(node.keys)}
        aggs == {SchemaName(a) : a \in Elems(node.aggs)}
    IN  /\ Len(name) = 1 => name = <<name[1]>>
        /\ Plain(item.expr) => name \in keys \cup aggs
        /\ name \in keys =>
              item.expr \in Elems(node.keys) /\ (item.aliases = <<>> \/ Len(item.aliases) = 1)
        /\ name \in aggs => item.expr.variant \in {"Column", "AggregateFunction"}

\* No derived table over a scan (finding 5); one over another join is refused.
DescribedSide(q, side) ==
    /\ IsPlan(side) /\ Registered(q, side)
    /\ Leaf(side).node = "TableScan" => BareTable(side)

Described(q) ==
    /\ IsSeq(q.tables) /\ IsPlan(q.plan) /\ Registered(q, q.plan)
    /\ q.plan[2].node = "Aggregate" =>
           /\ IsSeq(q.plan[2].keys) /\ \A a \in Elems(q.plan[2].aggs) : DescribedAggregate(a)
           /\ q.plan[1].node = "Projection" =>
                 \A item \in Elems(q.plan[1].items) : DescribedItem(item, q.plan[2])
    /\ q.plan[2].node = "Join" =>
           /\ ~q.plan[2].residual
           /\ \A side \in {q.plan[2].left, q.plan[2].right} : DescribedSide(q, side)

\* A described query is compiled when docs/limitations.md says that it is supported,
\* and refused when it says that it is rejected.
RefusesExactlyDocumented ==
    from = "compiler" /\ Described(query) => (graph # Refusal <=> Documented(query))

-----------------------------------------------------------------------------

MCRefs   == {FromSource(0), FromStage(1), FromStage(2)}
MCInputs == {<<r>> : r \in MCRefs} \cup {<<r, q>> : r, q \in MCRefs}

MCExchanges ==
    {[kind |-> "pipeline", keys |-> 0, buckets |-> 1],
     [kind |-> "broadcast", keys |-> 0, buckets |-> 2],
     [kind |-> "hash_shuffle", keys |-> 1, buckets |-> 2],
     [kind |-> "hash_shuffle", keys |-> 1, buckets |-> 3],
     [kind |-> "hash_shuffle", keys |-> 2, buckets |-> 2]}

MCSourceLists == {<<0>>, <<0, 0>>, <<>>}

-----------------------------------------------------------------------------
(* Queries *)

KeyValues == {"a", "b", Null}
MCValues  == {1, 2, Null}

MCBucketOf ==
    LET first(type, k) == IF k = "b" \/ (k = "a" /\ type = "other") THEN 1 ELSE 0
        second(v) == IF v = 2 THEN 1 ELSE 0
    IN  [type \in {"own", "other"} |->
            [t \in {<<k>> : k \in KeyValues} \cup (KeyValues \X MCValues) |->
                IF Len(t) = 1 THEN first(type, t[1])
                ELSE (first(type, t[1]) + second(t[2])) % NumBuckets]]

ColK == Column(<<"k">>)
ColV == Column(<<"v">>)

Item(expr, aliases) == [expr |-> expr, aliases |-> aliases]
Select(items) == [node |-> "Projection", items |-> items]
Scan(table)   == [node |-> "TableScan", table |-> table]
Node(name)    == [node |-> name]
Where(expr)   == [node |-> "Filter", predicate |-> expr]
Agg(func, arg) == [func |-> func, arg |-> arg, distinct |-> FALSE, filtered |-> FALSE]
GroupBy(keys, aggs) == [node |-> "Aggregate", keys |-> keys, aggs |-> aggs]

Exists == Expr("Exists", MaxV.name, FALSE)
Seldom == Expr("BinaryExpr", <<"v + 1", "">>, FALSE)

Filterings ==
    {<<>>, <<Where(Case)>>, <<Where(ColV), Where(Case)>>, <<Where(IfTop)>>,
     <<Where(Case), Where(IfTop)>>, <<Where(Exists)>>}

Tops == {<<>>, <<Node("Limit")>>, <<Node("Sort")>>, <<Node("Distinct")>>}

MCPassthrough ==
    {[plan |-> top \o <<Select(items)>> \o below \o <<Scan("orders")>>, tables |-> tables] :
        top \in Tops,
        items \in {<<Item(ColK, <<>>)>>, <<Item(ColV, <<<<"x">>>>), Item(Case, <<>>)>>,
                   <<Item(ColK, <<>>), Item(MaxV, <<>>)>>, <<Item(MaxV, <<<<"m">>>>)>>,
                   <<Item(IfTop, <<<<"m">>, <<"n">>>>)>>},
        below \in Filterings \cup {<<Node("Limit")>>, <<Node("SubqueryAlias")>>,
                   <<Node("WindowAggr")>>, <<Where(Case), GroupBy(<<ColK>>, <<>>)>>},
        tables \in {<<"orders">>, <<"orders", "customers">>}}

MCAggregates ==
    {<<Agg(func, ColV)>> : func \in {"sum", "count", "min", "max", "avg"}}
    \cup {<<Agg("count", One)>>, <<Agg("sum", Case)>>,
          <<[Agg("count", ColV) EXCEPT !.distinct = TRUE]>>, <<[Agg("sum", ColV) EXCEPT !.distinct = TRUE]>>,
          <<Agg("sum", ColV), Agg("count", One)>>, <<Agg("min", ColV), Agg("max", ColV)>>,
          <<Agg("count", ColV), Agg("count", One)>>, <<Agg("max", ColV), Agg("sum", ColV)>>}

\* The projections of an aggregate query: the name of an aggregate is a column
\* of the node below.
MCProjections(keys, aggs) ==
    LET Of(a) == Column(SchemaName(a))
        n == Len(aggs)
    IN  {[i \in 1..(Len(keys) + n) |->
             IF i <= Len(keys) THEN Item(keys[i], <<>>) ELSE Item(Of(aggs[i - Len(keys)]), <<>>)],
         <<Item(Of(aggs[n]), <<<<"k">>>>)>> \o [i \in DOMAIN keys |-> Item(keys[i], <<<<"c", i>>>>)],
         <<Item(Of(aggs[1]), <<<<"a">>>>), Item(Of(aggs[1]), <<<<"b">>>>)>>,
         <<Item(Of(aggs[n]), <<<<"a">>, <<"b">>>>), Item(Of(aggs[1]), <<>>)>>,
         <<Item([Of(aggs[1]) EXCEPT !.variant = "AggregateFunction"], <<>>)>>,
         <<Item(Seldom, <<>>)>>, <<Item(Seldom, <<<<"a">>>>), Item(Of(aggs[1]), <<>>)>>,
         <<Item(MaxV, <<<<"m">>>>), Item(Of(aggs[1]), <<>>)>>}

MCAggregate ==
    UNION {{[plan |-> <<Select(items), GroupBy(keys, aggs)>> \o below \o <<Scan("orders")>>,
             tables |-> tables] :
                items \in MCProjections(keys, aggs),
                below \in Filterings \cup {<<Node("SubqueryAlias")>>},
                tables \in {<<"orders">>, <<"orders", "customers">>}} :
            keys \in {<<>>, <<ColK>>, <<ColK, ColV>>, <<Case, ColK>>}, aggs \in MCAggregates}

Join(type, on, residual, left, right) ==
    [node |-> "Join", type |-> type, on |-> on, residual |-> residual,
     left |-> left, right |-> right]

Cast == Expr("Cast", <<"k">>, FALSE)

\* A join of the two tables, or of what is made of them.
TwoTables(type, on, residual, left, right) ==
    [plan |-> <<Select(<<Item(ColK, <<>>)>>), Join(type, on, residual, left, right)>>,
     tables |-> <<"orders", "customers">>]

KeyPair == <<<<ColK, ColK>>>>

MCJoin ==
    LET nested == Join("Inner", KeyPair, FALSE, <<Scan("orders")>>, <<Scan("regions")>>)
    IN  {[plan |-> <<Select(<<Item(ColK, <<>>)>>)>> \o above \o <<Join(type, on, FALSE, left, right)>>,
          tables |-> tables] :
            above \in {<<>>, <<Where(Case)>>, <<GroupBy(<<ColK>>, <<Agg("sum", ColV)>>)>>},
            type \in {"Inner", "Left", "Full"},
            on \in {<<>>, KeyPair, <<<<ColK, ColK>>, <<ColV, ColV>>>>, <<<<Cast, ColK>>>>, <<<<ColK, Case>>>>},
            left \in {<<Scan("orders")>>, <<Node("SubqueryAlias"), Scan("orders")>>,
                      <<nested>>, <<Node("SubqueryAlias"), Where(Case), nested>>},
            right \in {<<Node("SubqueryAlias"), Scan("customers")>>, <<Scan("orders")>>},
            tables \in {<<"orders", "customers">>, <<"regions", "customers", "orders">>}}

\* Joins that keep or drop each row of a side by itself, or each pair of rows: of
\* derived tables with a WHERE (finding 5), or under a further condition.
MCRowLocal ==
    {q \in {TwoTables(type, on, residual, left, right) :
        type \in {"Inner", "Left"}, on \in {KeyPair, <<<<Cast, ColK>>>>}, residual \in BOOLEAN,
        left \in {<<Scan("orders")>>, <<Node("SubqueryAlias"), Where(Case), Scan("orders")>>},
        right \in {<<Scan("customers")>>,
                   <<Node("SubqueryAlias"), Where(ColV), Where(Case), Scan("customers")>>}} :
        LET join == q.plan[2]
        IN  join.residual \/ ~BareTable(join.left) \/ ~BareTable(join.right)}

MCQueries == MCPassthrough \cup MCAggregate \cup MCJoin \cup MCRowLocal

\* Queries that compile and must not: a count of an expression, an aggregate with a
\* FILTER clause, a join of a derived table that keeps the top row.
MCUnlisted ==
    {[plan |-> <<Select(<<Item(ColK, <<>>), Item(Column(SchemaName(a)), <<>>)>>), GroupBy(<<ColK>>, <<a>>),
                 Scan("orders")>>, tables |-> <<"orders">>] :
        a \in {Agg("count", Case), [Agg("sum", ColV) EXCEPT !.filtered = TRUE]}}
    \cup {TwoTables("Inner", KeyPair, FALSE, <<Node("SubqueryAlias"), Node("Limit"), Scan("orders")>>,
                    <<Scan("customers")>>)}

Row(id, table, partition, k, v) ==
    [id |-> id, table |-> table, partition |-> partition, k |-> k, v |-> v]

\* Three rows of one table over two partitions, or two rows of each of two.
MCTables(q) ==
    IF Len(q.tables) = 1
    THEN {{Row(i, "orders", IF i = 3 THEN 1 ELSE 0, k[i], v[i]) : i \in 1..3} :
             k \in [1..3 -> KeyValues], v \in [1..3 -> MCValues]}
    ELSE {{Row(i, IF i < 3 THEN "orders" ELSE "customers", i % 2, k[i], IF i = 1 THEN 1 ELSE 2) :
                i \in 1..4} : k \in [1..4 -> KeyValues]}

\* A query is described unless it is one of the findings' or a row-local join; those
\* that are documented, and the row-local joins, are ordinary, and those that must not
\* compile are not; and the tables are ordinary.
ASSUME MCOrdinary ==
    /\ \A q \in Queries : Described(q) <=> q \notin MCUnlisted \cup MCRowLocal
    /\ \A q \in Queries : Documented(q) \/ q \in MCRowLocal => Ordinary(q)
    /\ \A q \in Queries \cap MCUnlisted : ~Ordinary(q)
    /\ \A n \in 1..2 : \A T \in MCTables([tables |-> [i \in 1..n |-> "orders"]]) : OrdinaryTable(T)
=============================================================================
