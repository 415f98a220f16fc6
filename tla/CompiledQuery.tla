---------------------------- MODULE CompiledQuery ----------------------------
(***************************************************************************)
(* The stages that the compiler emits, run over partitioned tables: each   *)
(* scan stage once per partition, its output hashed into buckets, the sink *)
(* stage once per bucket, and the union of its results.  The SQL is run by *)
(* values, NULLs included; that the tasks which run it deliver each file   *)
(* exactly once is the business of DagRun, and a join that is broadcast    *)
(* that of Shuffle.                                                        *)
(***************************************************************************)
EXTENDS Compiler

CONSTANT BucketOf    \* the bucket of a tuple of key values, for a first column of
                     \* each type

Partitions(T) == {r.partition : r \in T}

\* The type of a key column as its table has it; DataFusion casts the other side
\* of a comparison to it or it to the other.
StoredType(key) == IF key.variant = "Cast" THEN "other" ELSE "own"

\* The hash of a key tuple depends on the type that its table has for the column.
BucketOfTuple(keys, tuple) == BucketOf[StoredType(keys[1])][tuple]

\* The partial stage on one partition: for each group its aggregates.
PartialResult(sql, partition, T) ==
    LET rows == RowsBelow(sql.from, 1, {r \in T : r.partition = partition})
        keyOf(r) == KeyTuple(sql.keys, r, rows)
        members(keys) == {r \in rows : keyOf(r) = keys}
        value(a, group) == Aggregate(a.func, [r \in group |-> Value(a.arg, r, group)])
    IN  {[partition |-> partition, keys |-> keys,
          parts |-> [i \in DOMAIN sql.aggs |-> value(sql.aggs[i], members(keys))]]
           : keys \in {keyOf(r) : r \in rows}}

\* The final stage on one bucket of partial results.
FinalResult(sql, P) ==
    LET out(o, keys) ==
            <<o.out, IF o.combine = "key" THEN keys[o.of]
                     ELSE Aggregate(o.combine,
                              [p \in {p \in P : p.keys = keys} |-> p.parts[o.of]])>>
    IN  {[of |-> keys, out |-> [i \in DOMAIN sql.outs |-> out(sql.outs[i], keys)]]
           : keys \in {p.keys : p \in P}}

RunAggregate(g, T) ==
    LET partial  == g.stages[1]
        partials == UNION {PartialResult(partial.sql, p, T) : p \in Partitions(T)}
        bucket(b) == {p \in partials : BucketOfTuple(partial.keys, p.keys) = b}
    IN  UNION {{<<b, t>> : t \in FinalResult(g.stages[2].sql, bucket(b))}
                 : b \in {BucketOfTuple(partial.keys, p.keys) : p \in partials}}

\* The buckets of a join are those that both sides have rows in.
RunJoin(g, T) ==
    LET side(scan) == {r \in T : r.table = scan.sql.table}
        bucket(scan, b) == {r \in side(scan) :
            BucketOfTuple(scan.keys, <<Value(scan.keys[1], r, side(scan))>>) = b}
        scans == {g.stages[1], g.stages[2]}
    IN  UNION {{<<b, t>> : t \in Answer(g.stages[3].sql.plan, UNION {bucket(s, b) : s \in scans})}
                 : b \in {b \in 0..(NumBuckets - 1) : \A s \in scans : bucket(s, b) # {}}}

RunPassthrough(g, T) ==
    UNION {{<<p, t>> : t \in Answer(g.stages[1].sql.plan, {r \in T : r.partition = p})}
             : p \in Partitions(T)}

\* The results of a graph, each with the bucket or partition it came from.
Results(g, T) ==
    CASE Len(g.stages) = 1 -> RunPassthrough(g, T)
      [] Len(g.stages) = 2 -> RunAggregate(g, T)
      [] Len(g.stages) = 3 -> RunJoin(g, T)
=============================================================================
