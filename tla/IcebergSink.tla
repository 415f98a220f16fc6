------------------------------ MODULE IcebergSink ------------------------------
(***************************************************************************)
(* Several runs write their answers through IcebergSink to one table.      *)
(* Each run writes its partitions as data files in its staging directory   *)
(* and then commits them in finalize, which reads the table and later      *)
(* commits to what it read; attempts of several runs, and of one run when  *)
(* Airflow gave up on an attempt that goes on, interleave.                 *)
(*                                                                         *)
(* A run's answer is fixed: that its attempts all compute and write the    *)
(* same files is shown of DagRun.                                          *)
(***************************************************************************)
EXTENDS RunKeys, FiniteSets

CONSTANTS
    Row,
    Answers,     \* the answers each run may have: partitions with their rows
    MaxTries,    \* the tries Airflow gives finalize
    MaxDeaths,   \* bound: attempts of finalize given up on
    MaxLate      \* bound: data files rewritten by attempts given up on

ASSUME IcebergAssumption ==
    /\ MaxTries \in Nat \ {0} /\ MaxDeaths \in Nat /\ MaxLate \in Nat
    /\ \A r \in Run : \A f \in Answers[r] :
          DOMAIN f \subseteq Nat /\ \A p \in DOMAIN f : f[p] \subseteq Row

VARIABLES
    answer,      \* what the terminal stage of each run computes
    workDir,     \* XCom of make_work_dir
    staged,      \* the data files on disk: path to rows
    metas,       \* the partitions whose write has been reported
    created,     \* the table exists in the catalog
    log,         \* the data files that each snapshot of the table added
    attempts,    \* the attempts of each run's finalize, in the order they began
    ti,          \* Airflow's state of each run's finalize
    late,        \* rewrites so far
    deaths       \* attempts given up on so far

tableVars == <<created, log>>
taskVars  == <<attempts, ti, deaths>>
vars == <<answer, workDir, staged, metas, tableVars, taskVars, late>>

\* An attempt of finalize: its place in the code, whether Airflow still counts
\* on it, and the version of the table that it loaded.
Attempt == [pc : {"load", "create", "add", "returned", "raised"}, lost : BOOLEAN,
            version : Nat]

-----------------------------------------------------------------------------
(* Paths *)

Key(r) == RunKey(workDir[r])

\* Mutant: the staging directory leaves the run out.
DataFileOfPartition(r, p) == <<<<"staging">>, p>>

DataFile(r, p) == <<Key(r), p>>

InStagingDir(r, path) == path[1] = Key(r)

\* The paths that finalize is to commit: those of partitions with rows.
Paths(r) == {DataFile(r, p) : p \in {q \in metas[r] : answer[r][q] # {}}}

\* A manifest entry: a data file and its contents when it was added, which
\* stand for the statistics that add_files takes from it.
Entry(path) == [path |-> path, stats |-> staged[path]]

EntriesAt(version) == UNION {log[i] : i \in 1..version}
PathsAt(version)   == {e.path : e \in EntriesAt(version)}

CommittedPaths(r, version) == {path \in PathsAt(version) : InStagingDir(r, path)}

\* Mutant: finalize adds all its files, whether committed before or not.
NewPathsAll(r, version) == Paths(r)

\* Mutant: finalize commits the first new file only.
NewPathsFirst(r, version) ==
    LET new == Paths(r) \ CommittedPaths(r, version)
    IN  IF new = {} THEN {} ELSE {CHOOSE path \in new : TRUE}

\* Mutant: a file counts as committed when one of its name is.
NewPathsByName(r, version) ==
    {path \in Paths(r) : \A c \in PathsAt(version) : c[2] # path[2]}

NewPaths(r, version) == Paths(r) \ CommittedPaths(r, version)

-----------------------------------------------------------------------------

Init ==
    /\ answer \in {f \in [Run -> UNION {Answers[r] : r \in Run}] :
                       \A r \in Run : f[r] \in Answers[r]}
    /\ workDir = [r \in Run |-> NoDir]
    /\ staged = [path \in {} |-> {}]
    /\ metas = [r \in Run |-> {}]
    /\ created = FALSE
    /\ log = <<>>
    /\ attempts = [r \in Run |-> <<>>]
    /\ ti = [r \in Run |-> "none"]
    /\ late = 0
    /\ deaths = 0

MakeWorkDir(r) ==
    /\ workDir[r] = NoDir
    /\ \E dir \in MintedWorkDirs(r, {workDir[q] : q \in Run}) :
           workDir' = [workDir EXCEPT ![r] = dir]
    /\ UNCHANGED <<answer, staged, metas, tableVars, taskVars, late>>

PutFile(r, p) ==
    staged' = [path \in DOMAIN staged \cup {DataFile(r, p)} |->
                  IF path = DataFile(r, p) THEN answer[r][p] ELSE staged[path]]

Write(r, p) ==
    /\ workDir[r] # NoDir
    /\ p \in DOMAIN answer[r] \ metas[r]
    /\ PutFile(r, p)
    /\ metas' = [metas EXCEPT ![r] = @ \cup {p}]
    /\ UNCHANGED <<answer, workDir, tableVars, taskVars, late>>

\* An attempt of a write that was given up on writes its file at last.
LateWrite(r, p) ==
    /\ late < MaxLate
    /\ workDir[r] # NoDir
    /\ p \in DOMAIN answer[r]
    /\ PutFile(r, p)
    /\ late' = late + 1
    /\ UNCHANGED <<answer, workDir, metas, tableVars, taskVars>>

-----------------------------------------------------------------------------
(* finalize *)

\* Airflow counts on no attempt of r's finalize.
Over(r) ==
    \A n \in DOMAIN attempts[r] : attempts[r][n].pc = "raised" \/ attempts[r][n].lost

StartFinalize(r) ==
    /\ workDir[r] # NoDir
    /\ metas[r] = DOMAIN answer[r]
    /\ ti[r] = "none"
    /\ Over(r)
    /\ Len(attempts[r]) < MaxTries
    /\ attempts' = [attempts EXCEPT
           ![r] = Append(@, [pc |-> "load", lost |-> FALSE, version |-> 0])]
    /\ UNCHANGED <<answer, workDir, staged, metas, tableVars, ti, late, deaths>>

Advance(r, n, pc, version) ==
    /\ attempts' = [attempts EXCEPT ![r][n].pc = pc, ![r][n].version = version]
    /\ UNCHANGED <<answer, workDir, staged, metas, ti, late, deaths>>

\* catalog.load_table in _ensure_table.
LoadTable(r, n) ==
    /\ attempts[r][n].pc = "load"
    /\ IF created THEN Advance(r, n, "add", Len(log))
       ELSE IF Paths(r) = {} THEN Advance(r, n, "raised", 0)
       ELSE Advance(r, n, "create", 0)
    /\ UNCHANGED tableVars

\* catalog.create_table, which raises if another attempt created the table.
CreateTable(r, n) ==
    /\ attempts[r][n].pc = "create"
    /\ created' = TRUE
    /\ UNCHANGED log
    /\ Advance(r, n, IF created THEN "raised" ELSE "add", 0)

\* add_files refuses files that the version it loaded references, and commits
\* only if that version is still the current one.
AddFilesAccepts(new, version) ==
    new \cap PathsAt(version) = {} /\ version = Len(log)

\* Mutant: a snapshot is committed even when there is nothing to add.
LogWithAlways(new) == Append(log, {Entry(path) : path \in new})

LogWith(new) == IF new = {} THEN log ELSE Append(log, {Entry(path) : path \in new})

\* The rest of finalize, which reads the table as loaded.
AddFiles(r, n) ==
    LET version == attempts[r][n].version
        new == NewPaths(r, version)
        accepted == new = {} \/ AddFilesAccepts(new, version)
    IN  /\ attempts[r][n].pc = "add"
        /\ log' = IF accepted THEN LogWith(new) ELSE log
        /\ UNCHANGED created
        /\ Advance(r, n, IF accepted THEN "returned" ELSE "raised", version)

-----------------------------------------------------------------------------
(* Airflow's account of finalize *)

RecordSuccess(r) ==
    /\ ti[r] = "none"
    /\ \E n \in DOMAIN attempts[r] :
           attempts[r][n].pc = "returned" /\ ~attempts[r][n].lost
    /\ ti' = [ti EXCEPT ![r] = "success"]
    /\ UNCHANGED <<answer, workDir, staged, metas, tableVars, attempts, late, deaths>>

RecordFailure(r) ==
    /\ ti[r] = "none"
    /\ Len(attempts[r]) = MaxTries /\ Over(r)
    /\ ti' = [ti EXCEPT ![r] = "failed"]
    /\ UNCHANGED <<answer, workDir, staged, metas, tableVars, attempts, late, deaths>>

\* The attempt's heartbeat is lost.  It may go on all the same.
GiveUp(r) ==
    /\ deaths < MaxDeaths
    /\ ti[r] = "none"
    /\ ~Over(r)
    /\ attempts' = [attempts EXCEPT ![r][Len(attempts[r])].lost = TRUE]
    /\ deaths' = deaths + 1
    /\ UNCHANGED <<answer, workDir, staged, metas, tableVars, ti, late>>

Step(r, n) == LoadTable(r, n) \/ CreateTable(r, n) \/ AddFiles(r, n)

Next ==
    \E r \in Run :
        \/ MakeWorkDir(r)
        \/ \E p \in DOMAIN answer[r] : Write(r, p) \/ LateWrite(r, p)
        \/ StartFinalize(r)
        \/ \E n \in DOMAIN attempts[r] : Step(r, n)
        \/ RecordSuccess(r) \/ RecordFailure(r) \/ GiveUp(r)

Spec == Init /\ [][Next]_vars

-----------------------------------------------------------------------------
(* Properties *)

TypeOK ==
    /\ \A r \in Run : answer[r] \in Answers[r] /\ metas[r] \subseteq DOMAIN answer[r]
    /\ \A path \in DOMAIN staged : staged[path] \subseteq Row
    /\ created \in BOOLEAN
    /\ \A i \in DOMAIN log : log[i] # {} /\ \A e \in log[i] : e.path \in DOMAIN staged
    /\ attempts \in [Run -> Seq(Attempt)]
    /\ \A r \in Run : \A n \in DOMAIN attempts[r] : attempts[r][n].version <= Len(log)
    /\ ti \in [Run -> {"none", "success", "failed"}]
    /\ late \in 0..MaxLate /\ deaths \in 0..MaxDeaths

\* A data file that the table references holds what it held when it was added:
\* "an Iceberg data file must never be rewritten".
MetadataDescribesFiles ==
    \A e \in EntriesAt(Len(log)) : staged[e.path] = e.stats

\* When Airflow reports finalize successful, every partition of the answer that
\* has rows is in the table, with its rows, whatever attempts went before.
SuccessMeansCommitted ==
    \A r \in Run : ti[r] = "success" =>
        \A p \in DOMAIN answer[r] : answer[r][p] # {} =>
            [path |-> DataFile(r, p), stats |-> answer[r][p]] \in EntriesAt(Len(log))

\* A retry that finds the run's files already in the table does not fail.
RetryConverges ==
    \A r \in Run : \A n \in DOMAIN attempts[r] :
        /\ attempts[r][n].pc = "raised"
        /\ Paths(r) # {}
        => ~(Paths(r) \subseteq PathsAt(attempts[r][n].version))

\* The table is a sequence of whole answers, each appended once.
Committed(r) == workDir[r] # NoDir /\ CommittedPaths(r, Len(log)) # {}

Appends == INSTANCE TableAppends WITH
    appended  <- {r \in Run : Committed(r)},
    snapshots <- [i \in DOMAIN log |-> {<<e.path[2], staged[e.path]>> : e \in log[i]}]

RefinesTableAppends == Appends!Spec
=============================================================================
