---------------------------- MODULE MCIcebergSink ----------------------------
(***************************************************************************)
(* Two runs of two DAGs that write to one table, and are given the same    *)
(* run_id by a common schedule.                                            *)
(***************************************************************************)
EXTENDS IcebergSink

MCRun     == {"r1", "r2"}
MCDagOf   == [r \in MCRun |-> IF r = "r1" THEN "dagA" ELSE "dagB"]
MCRunIdOf == [r \in MCRun |-> "scheduled:t0"]

MCSafeRunId == [id \in {"scheduled:t0"} |-> "scheduled_t0"]

\* Two partitions with rows, one of two, or no partition at all.
MCAnswers ==
    [r \in MCRun |->
        {[p \in {0, 1} |-> {r}], [p \in {0, 1} |-> IF p = 0 THEN {} ELSE {r}],
         [p \in {} |-> {}]}]

\* One DAG with a work_dir_base and one without have run keys of their own.
ASSUME MCAssumption == RunKeysApart <=> BaseGiven # {"dagA", "dagB"}
=============================================================================
