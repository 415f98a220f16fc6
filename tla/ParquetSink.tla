------------------------------ MODULE ParquetSink ------------------------------
(***************************************************************************)
(* Several runs write their answers through ParquetSink under one base     *)
(* directory.  Each run has a directory there, named by its run key, with  *)
(* a file for each partition; finalize puts a _SUCCESS in it and then      *)
(* names the run in _LATEST.  Attempts that Airflow gave up on may go on,  *)
(* a run may be cleared and run again over sources that have changed, and  *)
(* a reader follows _LATEST meanwhile, a file at a time.                   *)
(*                                                                         *)
(* That the attempts of one execution of a run all write the same files is *)
(* shown of DagRun.                                                        *)
(***************************************************************************)
EXTENDS RunKeys, FiniteSets

CONSTANTS
    Row,
    Answers,     \* the answers each run may have: partitions with their rows
    Marked,      \* the DAGs whose sink has write_success_marker
    Clearable,   \* the runs that a user may clear
    MaxClears,   \* bound: how often
    MaxTries,    \* the tries Airflow gives finalize, by the run's DAG
    MaxDeaths    \* bound: attempts of finalize given up on

ASSUME ParquetAssumption ==
    /\ MaxTries \in [Run -> Nat \ {0}]
    /\ MaxDeaths \in Nat /\ MaxClears \in Nat
    /\ Clearable \subseteq Run
    /\ \A r \in Run : \A f \in Answers[r] :
          DOMAIN f \subseteq Nat /\ \A p \in DOMAIN f : f[p] \subseteq Row

VARIABLES
    answer,      \* what the terminal stage of each run computes
    workDir,     \* XCom of make_work_dir
    minted,      \* the work directories minted so far
    past,        \* the executions that were cleared, with their key and answer
    metas,       \* the partitions whose write has been reported
    clears,      \* how often each run was cleared
    files,       \* the data files under the base: path to rows
    success,     \* the keys of the run directories that hold a _SUCCESS
    latest,      \* the key in _LATEST
    stray,       \* the keys that abandoned attempts wrote to _LATEST
    offered,     \* the executions whose finalize has begun
    attempts,    \* the attempts of each run's finalize, in the order they began
    ti,          \* Airflow's state of each run's finalize
    recorded,    \* the keys whose finalize it has recorded as successful
    deaths,      \* attempts given up on so far
    reader       \* a consumer of the results

runVars    == <<answer, workDir, minted, past, metas, clears>>
markerVars == <<success, latest, stray>>
taskVars   == <<offered, attempts, ti, recorded, deaths>>
vars       == <<runVars, files, markerVars, taskVars, reader>>

NoKey == <<>>

\* Mutant: the run key is the first segment, which is the DAG.
KeyFirstSegment(r) == workDir[r][1]

Key(r) == RunKey(workDir[r])

Keys == {RunKey(dir) : dir \in UNION {MintedWorkDirs(r, {}) : r \in Run}}

\* Executions do not share a run directory: a run that is cleared gets a new
\* one, and run keys tell runs apart.
KeysApart ==
    /\ \A r \in Clearable : DagOf[r] \notin BaseGiven
    /\ RunKeysApart

\* An attempt of finalize: its place in the code, the run key it was given,
\* the execution it belongs to, whether Airflow still counts on it, and the
\* keys that were recorded when it began.
Attempt == [pc : {"success", "latest", "returned"}, key : Keys,
            round : 0..MaxClears, lost : BOOLEAN, after : SUBSET Keys]

\* Mutant: the run directory is the base itself.
DataFileUnderBase(key, p) == <<NoKey, p>>

DataFile(key, p) == <<key, p>>

\* The partitions of an answer with their rows.
Contents(f) == {<<p, f[p]>> : p \in DOMAIN f}

-----------------------------------------------------------------------------

Idle == [pc |-> "idle", key |-> NoKey, todo |-> {}, got |-> {}]

Init ==
    /\ answer \in {f \in [Run -> UNION {Answers[r] : r \in Run}] :
                       \A r \in Run : f[r] \in Answers[r]}
    /\ workDir = [r \in Run |-> NoDir]
    /\ minted = {} /\ past = {}
    /\ metas = [r \in Run |-> {}]
    /\ clears = [r \in Run |-> 0]
    /\ files = [path \in {} |-> {}]
    /\ success = {} /\ latest = NoKey /\ stray = {}
    /\ offered = {} /\ recorded = {}
    /\ attempts = [r \in Run |-> <<>>]
    /\ ti = [r \in Run |-> "none"]
    /\ deaths = 0
    /\ reader = Idle

MakeWorkDir(r) ==
    /\ workDir[r] = NoDir
    /\ \E dir \in MintedWorkDirs(r, minted) :
           workDir' = [workDir EXCEPT ![r] = dir] /\ minted' = minted \cup {dir}
    /\ UNCHANGED <<answer, past, metas, clears, files, markerVars, taskVars, reader>>

\* The data files in a run directory.
PathsUnder(key) == {path \in DOMAIN files : path = DataFile(key, path[2])}

PutFile(path, rows) ==
    files' = [q \in DOMAIN files \cup {path} |-> IF q = path THEN rows ELSE files[q]]

Write(r, p) ==
    /\ workDir[r] # NoDir
    /\ p \in DOMAIN answer[r] \ metas[r]
    /\ PutFile(DataFile(Key(r), p), answer[r][p])
    /\ metas' = [metas EXCEPT ![r] = @ \cup {p}]
    /\ UNCHANGED <<answer, workDir, minted, past, clears, markerVars, taskVars, reader>>

\* What an attempt writes that is not reported: it was given up on before it
\* wrote or before it reported, or its run was cleared.
Unreported ==
    past \cup {[key |-> Key(r), answer |-> answer[r]] : r \in {q \in Run : workDir[q] # NoDir}}

LateWrite(x, p) ==
    /\ p \in DOMAIN x.answer
    /\ PutFile(DataFile(x.key, p), x.answer[p])
    /\ UNCHANGED <<runVars, markerVars, taskVars, reader>>

-----------------------------------------------------------------------------
(* finalize *)

Tries(r) ==
    Cardinality({n \in DOMAIN attempts[r] : attempts[r][n].round = clears[r]})

\* Airflow counts on no attempt of r's finalize.
Over(r) == \A n \in DOMAIN attempts[r] : attempts[r][n].lost

\* Mutant: finalize does not wait for the last partition.
ReadyButOne(r) ==
    workDir[r] # NoDir /\ Cardinality(DOMAIN answer[r] \ metas[r]) <= 1

Ready(r) == workDir[r] # NoDir /\ metas[r] = DOMAIN answer[r]

StartFinalize(r) ==
    /\ Ready(r)
    /\ ti[r] = "none"
    /\ Over(r)
    /\ Tries(r) < MaxTries[r]
    /\ offered' = offered \cup {[key |-> Key(r), answer |-> answer[r]]}
    /\ attempts' = [attempts EXCEPT ![r] = Append(@,
           [pc |-> IF DagOf[r] \in Marked THEN "success" ELSE "returned",
            key |-> Key(r), round |-> clears[r], lost |-> FALSE, after |-> recorded])]
    /\ UNCHANGED <<runVars, files, markerVars, ti, recorded, deaths, reader>>

Goto(r, n, pc) ==
    /\ attempts' = [attempts EXCEPT ![r][n].pc = pc]
    /\ UNCHANGED <<runVars, files, offered, ti, recorded, deaths, reader>>

WriteSuccess(r, n) ==
    /\ attempts[r][n].pc = "success"
    /\ success' = success \cup {attempts[r][n].key}
    /\ UNCHANGED <<latest, stray>>
    /\ Goto(r, n, "latest")

\* Mutant: the pointer is written once and then left alone.
PointerWrittenOnce(key) == IF latest = NoKey THEN key ELSE latest

PointerWritten(key) == key

WriteLatest(r, n) ==
    /\ attempts[r][n].pc = "latest"
    /\ latest' = PointerWritten(attempts[r][n].key)
    /\ stray' = IF attempts[r][n].lost THEN stray \cup {attempts[r][n].key} ELSE stray
    /\ UNCHANGED success
    /\ Goto(r, n, "returned")

-----------------------------------------------------------------------------
(* Airflow's account of finalize *)

RecordSuccess(r) ==
    /\ ti[r] = "none"
    /\ \E n \in DOMAIN attempts[r] :
           attempts[r][n].pc = "returned" /\ ~attempts[r][n].lost
    /\ ti' = [ti EXCEPT ![r] = "success"]
    /\ recorded' = recorded \cup {Key(r)}
    /\ UNCHANGED <<runVars, files, markerVars, offered, attempts, deaths, reader>>

RecordFailure(r) ==
    /\ ti[r] = "none"
    /\ Tries(r) = MaxTries[r] /\ Over(r)
    /\ ti' = [ti EXCEPT ![r] = "failed"]
    /\ UNCHANGED <<runVars, files, markerVars, offered, attempts, recorded, deaths, reader>>

\* The attempt raises, or its heartbeat is lost: then it may go on all the same.
GiveUp(r) ==
    /\ deaths < MaxDeaths
    /\ ti[r] = "none"
    /\ ~Over(r)
    /\ attempts' = [attempts EXCEPT ![r][Len(attempts[r])].lost = TRUE]
    /\ deaths' = deaths + 1
    /\ UNCHANGED <<runVars, files, markerVars, offered, ti, recorded, reader>>

\* A user clears the run, at any point of it: Airflow forgets its task
\* instances and XComs and runs the DAG again, over what the sources hold then.
Clear(r) ==
    /\ r \in Clearable /\ clears[r] < MaxClears
    /\ workDir[r] # NoDir
    /\ past' = past \cup {[key |-> Key(r), answer |-> answer[r]]}
    /\ \E f \in Answers[r] : answer' = [answer EXCEPT ![r] = f]
    /\ workDir' = [workDir EXCEPT ![r] = NoDir]
    /\ metas' = [metas EXCEPT ![r] = {}]
    /\ clears' = [clears EXCEPT ![r] = @ + 1]
    /\ ti' = [ti EXCEPT ![r] = "none"]
    /\ attempts' = [attempts EXCEPT
           ![r] = [n \in DOMAIN @ |-> [@[n] EXCEPT !.lost = TRUE]]]
    /\ UNCHANGED <<minted, files, markerVars, offered, recorded, deaths, reader>>

-----------------------------------------------------------------------------
(* A consumer that does as docs/connectors.md says: it reads _LATEST, lists  *)
(* the run directory that it names, and reads the files one after another.   *)

ReadLatest ==
    /\ reader.pc \in {"idle", "done"}
    /\ latest # NoKey
    /\ reader' = [Idle EXCEPT !.pc = "list", !.key = latest]
    /\ UNCHANGED <<runVars, files, markerVars, taskVars>>

ListDirectory ==
    /\ reader.pc = "list"
    /\ reader' = [reader EXCEPT !.pc = "read",
           !.todo = {path[2] : path \in PathsUnder(reader.key)}]
    /\ UNCHANGED <<runVars, files, markerVars, taskVars>>

ReadFile(p) ==
    /\ p \in reader.todo
    /\ reader' = [reader EXCEPT !.todo = @ \ {p},
           !.got = @ \cup {<<p, files[DataFile(reader.key, p)]>>}]
    /\ UNCHANGED <<runVars, files, markerVars, taskVars>>

EndReading ==
    /\ reader.pc = "read" /\ reader.todo = {}
    /\ reader' = [reader EXCEPT !.pc = "done"]
    /\ UNCHANGED <<runVars, files, markerVars, taskVars>>

-----------------------------------------------------------------------------

RunStep(r) ==
    \/ MakeWorkDir(r) \/ StartFinalize(r) \/ Clear(r)
    \/ \E p \in DOMAIN answer[r] : Write(r, p)
    \/ \E n \in DOMAIN attempts[r] : WriteSuccess(r, n) \/ WriteLatest(r, n)
    \/ RecordSuccess(r) \/ RecordFailure(r) \/ GiveUp(r)

ReaderStep ==
    \/ ReadLatest \/ ListDirectory \/ EndReading
    \/ \E p \in reader.todo : ReadFile(p)

Next ==
    \/ \E r \in Run : RunStep(r)
    \/ \E x \in Unreported : \E p \in DOMAIN x.answer : LateWrite(x, p)
    \/ ReaderStep

Spec == Init /\ [][Next]_vars

-----------------------------------------------------------------------------
(* Properties *)

\* The types of the variables.
TypeOK ==
    /\ \A r \in Run : answer[r] \in Answers[r] /\ metas[r] \subseteq DOMAIN answer[r]
    /\ workDir \in [Run -> {NoDir} \cup minted]
    /\ clears \in [Run -> 0..MaxClears]
    /\ \A path \in DOMAIN files : files[path] \subseteq Row
    /\ success \subseteq Keys /\ recorded \subseteq Keys /\ stray \subseteq Keys
    /\ latest \in Keys \cup {NoKey}
    /\ attempts \in [Run -> Seq(Attempt)]
    /\ ti \in [Run -> {"none", "success", "failed"}]
    /\ deaths \in 0..MaxDeaths

\* A consumer that followed _LATEST has read one whole answer of one run and
\* nothing else, whatever was written while it listed and read: "each result
\* self-contained and immutable".
ReaderSeesOneAnswer ==
    reader.pc = "done" =>
        \E x \in offered : x.key = reader.key /\ reader.got = Contents(x.answer)

\* Once a run's finalize is successful, _LATEST does not name a run that had
\* been finalized before that finalize began, unless an abandoned attempt of
\* the older run has put its name there: "the newest finalized run".
LatestNotStale ==
    \A r \in Run : ti[r] = "success" /\ DagOf[r] \in Marked =>
        /\ Key(r) \in success /\ latest # NoKey
        /\ \A n \in DOMAIN attempts[r] :
              ~attempts[r][n].lost => latest \notin attempts[r][n].after \ stray

\* The results that carry a _SUCCESS, read back from the files as they are.
ReadBack(key) == {<<path[2], files[path]>> : path \in PathsUnder(key)}
Marks == {<<key, ReadBack(key)>> : key \in success}

Register == INSTANCE ResultRegister WITH
    offers  <- {<<x.key, Contents(x.answer)>> : x \in offered},
    results <- Marks,
    current <- latest

\* The base directory is a register of whole results: each appears once, under
\* a name of its own, never changes afterwards, and the pointer names one.
RefinesResultRegister == Register!Spec
=============================================================================
