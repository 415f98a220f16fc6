------------------------------- MODULE MCDagRun -------------------------------
(***************************************************************************)
(* Small instances of DagRun.  Keys "x" and "y" share a bucket at width 1, *)
(* part at width 2; "null" shares the bucket of "x" at width 2, so NULL    *)
(* keys meet other keys in a bucket and on both sides of a join.           *)
(***************************************************************************)
EXTENDS DagRunInvariants, TLC

MCKey    == {"x", "y", "null"}
MCHashOf == [k \in MCKey |-> CASE k = "x" -> 1 [] k = "y" -> 2 [] OTHER -> 3]

\* One table: three rows of key "x" or "y" and one NULL, one row filtered out.
OneTableRows   == {"a1", "a2", "a3", "a4"}
OneTableKeyOf  == [r \in OneTableRows |->
                     CASE r \in {"a1", "a2"} -> "x" [] r = "a3" -> "y" [] OTHER -> "null"]
OneTableKeep   == OneTableRows \ {"a3"}
OneTableTables == "A" :> OneTableRows

OneTableSources ==
    {"A" :> <<{"a1", "a3"}, {"a2", "a4"}>>, "A" :> <<{"a1", "a2"}, {}>>,
     "A" :> <<{"a1"}>>, "A" :> <<{"a3"}>>, "A" :> <<>>}

\* Two tables that match on "x" and on "y", with a NULL on both sides.
JoinRows   == {"a1", "a2", "a3", "b1", "b2", "b3"}
JoinKeyOf  == [r \in JoinRows |->
                 CASE r \in {"a1", "b1"} -> "x" [] r \in {"a2", "b2"} -> "y" [] OTHER -> "null"]
JoinTables == ("A" :> {"a1", "a2", "a3"}) @@ ("B" :> {"b1", "b2", "b3"})

JoinSources ==
    {("A" :> <<{"a1", "a3"}>>) @@ ("B" :> <<{"b2", "b3"}, {"b1"}>>),
     ("A" :> <<{"a1"}, {"a2", "a3"}>>) @@ ("B" :> <<{"b1", "b2"}>>),
     ("A" :> <<{"a1"}>>) @@ ("B" :> <<{}>>)}

\* One side of the join is an Iceberg table without data files.
EmptySideSources ==
    {("A" :> <<>>) @@ ("B" :> <<{"b1"}>>), ("A" :> <<{"a1"}>>) @@ ("B" :> <<>>)}

RowsPolicy ==
    [strategy |-> "rows", num_buckets |-> 2, target_rows_per_bucket |-> 2,
     target_bytes_per_bucket |-> 2]
PartitionsPolicy == [RowsPolicy EXCEPT !.strategy = "partitions"]
StaticPolicy     == [RowsPolicy EXCEPT !.strategy = "static"]
=============================================================================
