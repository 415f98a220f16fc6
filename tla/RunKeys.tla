-------------------------------- MODULE RunKeys --------------------------------
(***************************************************************************)
(* How the runs of one or several DAGs that write to the same place are    *)
(* told apart.  make_work_dir mints a directory for each run, and the last *)
(* segment of its path is the run key that sinks put in their own paths.   *)
(*                                                                         *)
(* A path is the sequence of its segments, and a segment is the tuple of   *)
(* the names it is made of.                                                *)
(***************************************************************************)
EXTENDS Naturals, Sequences

CONSTANTS
    Run,         \* the DAG runs
    DagOf,       \* the DAG of each run
    RunIdOf,     \* the run_id of each run, unique within its DAG
    BaseGiven,   \* the DAGs that were given a work_dir_base
    SafeRunId,   \* a run_id with every character but letters, digits, - and _
                 \* replaced by _
    Suffix       \* what mkdtemp appends to its prefix

ASSUME RunKeysAssumption ==
    \A r, q \in Run : DagOf[r] = DagOf[q] /\ RunIdOf[r] = RunIdOf[q] => r = q

NoDir == <<>>

\* The directories that _mint_work_dir may return for run r, when the temporary
\* directories in taken exist already.
MintedWorkDirs(r, taken) ==
    IF DagOf[r] \in BaseGiven
    THEN {<<<<DagOf[r]>>, <<SafeRunId[RunIdOf[r]]>>>>}
    ELSE {<<<<DagOf[r], x>>>> : x \in Suffix} \ taken

\* The function run_key.
RunKey(workDir) == workDir[Len(workDir)]

\* No other run has the run key of a run whose DAG has a work_dir_base, and equal
\* run keys are those of one temporary directory.
RunKeysApart ==
    \A r, q \in Run : \A d \in MintedWorkDirs(r, {}), e \in MintedWorkDirs(q, {}) :
        RunKey(d) = RunKey(e) =>
            d = e /\ (r = q \/ (DagOf[r] \notin BaseGiven /\ DagOf[q] \notin BaseGiven))
=============================================================================
