---------------------------- MODULE MCParquetSink ----------------------------
(***************************************************************************)
(* A run of a DAG with a work_dir_base and a run of one without, which may *)
(* be cleared and then has another answer, perhaps of fewer partitions.    *)
(***************************************************************************)
EXTENDS ParquetSink

MCRun     == {"r1", "r2"}
MCDagOf   == [r \in MCRun |-> IF r = "r1" THEN "dagA" ELSE "dagB"]
MCRunIdOf == [r \in MCRun |-> "scheduled:t0"]

MCSafeRunId == [id \in {"scheduled:t0"} |-> "scheduled_t0"]

\* Two partitions, of which one is empty; or, for the run that may be cleared,
\* one, and for the other none.
MCAnswers ==
    [r \in MCRun |->
        {[p \in {0, 1} |-> IF p = 0 THEN {} ELSE {r}],
         [p \in (IF r = "r2" THEN {0} ELSE {}) |-> {r}]}]

MCMaxTries == [r \in MCRun |-> IF r = "r1" THEN 2 ELSE 1]

ASSUME MCAssumption == KeysApart
=============================================================================
