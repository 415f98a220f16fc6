-------------------------------- MODULE DagRun --------------------------------
(***************************************************************************)
(* One run of the Airflow DAG that dag_from_stages builds for a compiled   *)
(* query, from make_work_dir to finalize.  The scheduler, the trigger      *)
(* rules and the death of task attempts are Airflow's; what each task does *)
(* is this code's.                                                         *)
(*                                                                         *)
(* A task attempt takes effect in one step, except that an attempt may be  *)
(* given up on: it then counts as a failed try, and the files it was       *)
(* writing may still appear, one at a time, at any later moment.           *)
(***************************************************************************)
EXTENDS Shuffle, SourceTables, Bucketing

CONSTANTS
    Sink,                \* the sink stage; the scan stages are named by table
    Adaptive,            \* a bucketing policy other than "static" was given
    Policy,              \* that policy, or the static one
    BroadcastThreshold,  \* broadcast_threshold, 0 to never broadcast
    MaxTries,            \* the tries Airflow gives a task (retries + 1)
    MaxDeaths,           \* bound: the attempts given up on in one run
    NoAnswer             \* see QueryRun

Scan  == IF Query = "passthrough" THEN {} ELSE Table
Stage == Scan \cup {Sink}

SourceFed(s) == s \in Scan \/ Query = "passthrough"
SourceOf(s)  == IF s = Sink THEN Left ELSE s

\* The tasks outside the mapped groups; a table names the plan_partitions task
\* of the stage that scans it.
Task == {"make_work_dir", "finalize"} \cup Table
          \cup (IF Scan = {} THEN {} ELSE {"gather"})
          \cup (IF Scan = {} \/ ~Adaptive THEN {} ELSE {"plan_width"})

ASSUME DagAssumption ==
    /\ Sink \notin {Left, Right}
    /\ {Left, Right} \cap {"make_work_dir", "finalize", "gather", "plan_width"} = {}
    /\ Adaptive \in BOOLEAN
    /\ Policy \in BucketingPolicy
    /\ Adaptive => Policy.strategy # "static"
    /\ BroadcastThreshold \in Nat
    /\ MaxTries \in Nat \ {0}
    /\ MaxDeaths \in Nat

VARIABLES          \* besides source, the source tables
    opened,        \* history: how long each table was when the run began
    ti,            \* the state of each task instance outside the groups
    tries,         \* the failed tries of each of them
    width,         \* XCom of plan_shuffle_width
    listing,       \* XCom of plan_partitions: one kwargs entry per data file
    plan,          \* XCom of gather_shuffle: one entry per reduce bucket
    group,         \* whether a stage's mapped group is expanded yet
    inst,          \* the mapped instances of each stage
    disk,          \* the bucket files in the run's work directory
    sinkDir,       \* the sink's run directory: content of each partition file
    committed,     \* the partitions finalize was given
    published,     \* finalize has committed
    lateFinalize,  \* an attempt of finalize that was given up on may still act
    deaths         \* attempts given up on so far

planVars == <<width, listing, plan>>
sinkVars == <<sinkDir, committed, published>>
vars == <<source, opened, ti, tries, planVars, group, inst, disk, sinkVars,
          lateFinalize, deaths>>

-----------------------------------------------------------------------------
(* Types *)

TaskState == {"none", "success", "failed", "skipped", "upstream_failed"}
Failure   == {"failed", "upstream_failed"}
Phase     == {"read", "compute", "write", "success", "failing", "failed"}

Path == [stage : Stage, part : Nat, bucket : Nat]
File == [path : Path, bucket : Nat, rows : Nat]

\* A mapped read -> compute -> write instance: the phase it is in, the failed
\* tries of that phase's task, its two scratch files, its bucket files and the
\* files its write reported.
Instance ==
    [pc : Phase, tries : Nat, late : BOOLEAN, scratch : [Table -> SUBSET Tuple],
     result : SUBSET Tuple, files : SUBSET File]

-----------------------------------------------------------------------------
(* The state of upstream tasks, as the scheduler sees it *)

PlannerOf(s) == IF SourceFed(s) THEN SourceOf(s) ELSE "gather"

Kwargs(s) == IF SourceFed(s) THEN listing[SourceOf(s)] ELSE plan

WriteState(s, i) ==
    IF inst[s][i].pc \in {"success", "failed"} THEN inst[s][i].pc ELSE "none"

StageStates(s) ==
    IF group[s] = "expanded"
    THEN {WriteState(s, i) : i \in DOMAIN inst[s]}
    ELSE {group[s]}

Upstream(x) ==
    CASE x \in {"make_work_dir", "plan_width"} -> {}
      [] x \in Table ->
           {ti["make_work_dir"]}
             \cup (IF "plan_width" \in Task THEN {ti["plan_width"]} ELSE {})
      [] x = "gather" ->
           {ti["make_work_dir"]} \cup UNION {StageStates(s) : s \in Scan}
      [] x = "finalize" -> {ti["make_work_dir"]} \cup StageStates(Sink)

\* Mutant: finalize keeps the default trigger rule.
TriggerRuleDefault(x) == "all_success"

TriggerRule(x) == IF x = "finalize" THEN "none_failed" ELSE "all_success"

\* Mutant: "none_failed" is read as "all_done".
AcceptedDone(rule) ==
    IF rule = "none_failed" THEN {"success", "skipped"} \cup Failure ELSE {"success"}

Accepted(rule) ==
    IF rule = "none_failed" THEN {"success", "skipped"} ELSE {"success"}

Runnable(x) ==
    /\ x \in Task
    /\ ti[x] = "none"
    /\ Upstream(x) \subseteq Accepted(TriggerRule(x))

Succeed(x) == ti' = [ti EXCEPT ![x] = "success"]

-----------------------------------------------------------------------------
(* The run begins *)

NoEntries == [x \in {} |-> {}]

\* Files written over a directory: those of the same name are replaced.
Overwrite(dir, files) ==
    [p \in DOMAIN dir \cup DOMAIN files |->
        IF p \in DOMAIN files THEN files[p] ELSE dir[p]]

Init ==
    /\ source \in InitialSources
    /\ opened = [t \in Table |-> Len(source[t])]
    /\ ti = [x \in Task |-> "none"]
    /\ tries = [x \in Task |-> 0]
    /\ width = 1
    /\ listing = [t \in Table |-> NoEntries]
    /\ plan = NoEntries
    /\ group = [s \in Stage |-> "none"]
    /\ inst = [s \in Stage |-> NoEntries]
    /\ disk = NoEntries
    /\ sinkDir = NoEntries
    /\ committed = {}
    /\ published = FALSE
    /\ lateFinalize = FALSE
    /\ deaths = 0

-----------------------------------------------------------------------------
(* Planner tasks *)

MakeWorkDir ==
    /\ Runnable("make_work_dir")
    /\ Succeed("make_work_dir")
    /\ UNCHANGED <<source, opened, tries, planVars, group, inst, disk,
                   sinkVars, lateFinalize, deaths>>

\* What a source's metadata says of it; a row counts as one byte.
MetadataOf(t) ==
    LET n == Cardinality(RowsIn(source[t]))
    IN  [rows |-> n, bytes |-> n, partitions |-> Len(source[t])]

GroupMetadata ==
    IF Query = "join"
    THEN AddMetadata(MetadataOf(Left), MetadataOf(Right))
    ELSE MetadataOf(Left)

PlanWidth ==
    /\ Runnable("plan_width")
    /\ Succeed("plan_width")
    /\ width' = Compute(Policy, GroupMetadata)
    /\ UNCHANGED <<source, opened, tries, listing, plan, group, inst, disk,
                   sinkVars, lateFinalize, deaths>>

\* Mutant: the width is computed for each scan, not for the group.
NumBucketsOfScan(t) ==
    IF Scan = {} THEN 1
    ELSE IF Adaptive THEN Compute(Policy, MetadataOf(t)) ELSE Policy.num_buckets

\* The bucket count a scan of table t is told to shuffle into.
NumBuckets(t) ==
    IF Scan = {} THEN 1 ELSE IF Adaptive THEN width ELSE Policy.num_buckets

Prepare(t) ==
    /\ Runnable(t)
    /\ Succeed(t)
    /\ listing' = [listing EXCEPT ![t] =
           [i \in 0..(Len(source[t]) - 1) |->
               [ref |-> i + 1, num_buckets |-> NumBuckets(t)]]]
    /\ UNCHANGED <<source, opened, tries, width, plan, group, inst, disk,
                   sinkVars, lateFinalize, deaths>>

\* Mutant: only the XCom of map index 0 is pulled.
ReportedByFirst(s) == UNION {inst[s][i].files : i \in DOMAIN inst[s] \cap {0}}

\* The files that the write instances of a scan stage reported.
Reported(s) == UNION {inst[s][i].files : i \in DOMAIN inst[s]}

Gather ==
    /\ Runnable("gather")
    /\ Succeed("gather")
    /\ plan' = LET files == [t \in Table |-> Reported(t)]
               IN  IF Query = "join"
                   THEN ChooseJoinStrategy(files, BroadcastThreshold)
                   ELSE GatherMulti(files)
    /\ UNCHANGED <<source, opened, tries, width, listing, group, inst, disk,
                   sinkVars, lateFinalize, deaths>>

-----------------------------------------------------------------------------
(* The mapped groups *)

NewInstance ==
    [pc |-> "read", tries |-> 0, late |-> FALSE,
     scratch |-> [t \in Table |-> {}], result |-> {}, files |-> {}]

\* Mapping over an empty list leaves the group's tasks skipped.
ExpandStage(s) ==
    /\ group[s] = "none"
    /\ ti[PlannerOf(s)] = "success"
    /\ group' = [group EXCEPT ![s] =
                    IF DOMAIN Kwargs(s) = {} THEN "skipped" ELSE "expanded"]
    /\ inst' = [inst EXCEPT ![s] = [i \in DOMAIN Kwargs(s) |-> NewInstance]]
    /\ UNCHANGED <<source, opened, ti, tries, planVars, disk, sinkVars,
                   lateFinalize, deaths>>

InPhase(s, i, phase) ==
    /\ group[s] = "expanded"
    /\ i \in DOMAIN inst[s]
    /\ inst[s][i].pc = phase

\* The tables that instance i of stage s is told to register, read from a data
\* file of the source or from the upstream's bucket files.
InputOf(s, i) ==
    IF SourceFed(s)
    THEN [t \in Table |->
            IF t = SourceOf(s)
            THEN TuplesOf(source[t][listing[t][i].ref])
            ELSE {}]
    ELSE [t \in Table |-> UNION {disk[p] : p \in plan[i][t]}]

\* read_concat raises on an empty list, and on a file that is not there.
Readable(s, i) ==
    ~SourceFed(s) =>
        \A t \in Table : plan[i][t] # {} /\ plan[i][t] \subseteq DOMAIN disk

Read(s, i) ==
    /\ InPhase(s, i, "read")
    /\ Readable(s, i)
    /\ inst' = [inst EXCEPT ![s][i] =
                   [@ EXCEPT !.pc = "compute", !.tries = 0,
                             !.scratch = InputOf(s, i)]]
    /\ UNCHANGED <<source, opened, ti, tries, planVars, group, disk, sinkVars,
                   lateFinalize, deaths>>

StageSql(s, tables) ==
    IF s = Sink THEN SinkSql(tables) ELSE ScanSql(tables[s])

ComputeResult(s, i) ==
    /\ InPhase(s, i, "compute")
    /\ inst' = [inst EXCEPT ![s][i] =
                   [@ EXCEPT !.pc = "write", !.tries = 0,
                             !.result = StageSql(s, inst[s][i].scratch)]]
    /\ UNCHANGED <<source, opened, ti, tries, planVars, group, disk, sinkVars,
                   lateFinalize, deaths>>

\* The bucket files of instance i of scan stage s.
Buckets(s, i) == HashPartition(inst[s][i].result, listing[s][i].num_buckets)

\* Mutants: the path leaves out the partition id, or the stage id.
BucketFileOfStage(s, i, b)     == [stage |-> s, part |-> 0, bucket |-> b]
BucketFileOfPartition(s, i, b) == [stage |-> Sink, part |-> i, bucket |-> b]

BucketFile(s, i, b) == [stage |-> s, part |-> i, bucket |-> b]

\* What a write reports of its bucket files.
FilesWritten(s, i) ==
    {[path |-> BucketFile(s, i, b), bucket |-> b,
      rows |-> Cardinality(Buckets(s, i)[b])] : b \in DOMAIN Buckets(s, i)}

WriteBuckets(s, i) ==
    /\ s # Sink
    /\ InPhase(s, i, "write")
    /\ LET sub == Buckets(s, i)
       IN  /\ disk' = Overwrite(disk,
                 [p \in {BucketFile(s, i, b) : b \in DOMAIN sub} |-> sub[p.bucket]])
           /\ inst' = [inst EXCEPT ![s][i] =
                 [@ EXCEPT !.pc = "success", !.files = FilesWritten(s, i)]]
    /\ UNCHANGED <<source, opened, ti, tries, planVars, group, sinkVars,
                   lateFinalize, deaths>>

\* The terminal stage hands its result to the sink, under its partition id.
WriteToSink(i) ==
    /\ InPhase(Sink, i, "write")
    /\ sinkDir' = Overwrite(sinkDir, [j \in {i} |-> inst[Sink][i].result])
    /\ inst' = [inst EXCEPT ![Sink][i] = [@ EXCEPT !.pc = "success"]]
    /\ UNCHANGED <<source, opened, ti, tries, planVars, group, disk,
                   committed, published, lateFinalize, deaths>>

-----------------------------------------------------------------------------
(* The end of the run *)

\* Mutants: a partition id of 0 taken for a missing one; no XCom resolved.
MetasTruthy == {i \in DOMAIN inst[Sink] : inst[Sink][i].pc = "success" /\ i # 0}
MetasLost   == {}

\* What finalize is given: the metadata of the partitions that were written.
Metas == {i \in DOMAIN inst[Sink] : inst[Sink][i].pc = "success"}

Publish == published' = TRUE /\ committed' = Metas

Finalize ==
    /\ Runnable("finalize")
    /\ Succeed("finalize")
    /\ Publish
    /\ UNCHANGED <<source, opened, tries, planVars, group, inst, disk, sinkDir,
                   lateFinalize, deaths>>

-----------------------------------------------------------------------------
(* Trigger rules: what the scheduler does to a task that cannot run *)

\* A failed upstream takes precedence over a skipped one; neither waits for
\* the remaining upstream tasks.
Propagate(x) ==
    /\ x \in Task
    /\ ti[x] = "none"
    /\ \/ /\ Upstream(x) \cap Failure # {}
          /\ ti' = [ti EXCEPT ![x] = "upstream_failed"]
       \/ /\ Upstream(x) \cap Failure = {}
          /\ "skipped" \in Upstream(x) \ Accepted(TriggerRule(x))
          /\ ti' = [ti EXCEPT ![x] = "skipped"]
    /\ UNCHANGED <<source, opened, tries, planVars, group, inst, disk, sinkVars,
                   lateFinalize, deaths>>

PropagateToStage(s) ==
    /\ group[s] = "none"
    /\ ti[PlannerOf(s)] \in Failure \cup {"skipped"}
    /\ group' = [group EXCEPT ![s] =
                    IF ti[PlannerOf(s)] = "skipped" THEN "skipped"
                                                    ELSE "upstream_failed"]
    /\ UNCHANGED <<source, opened, ti, tries, planVars, inst, disk, sinkVars,
                   lateFinalize, deaths>>

\* The failure of a read or a compute reaches the write that depends on it.
SettleFailure(s, i) ==
    /\ InPhase(s, i, "failing")
    /\ inst' = [inst EXCEPT ![s][i] = [@ EXCEPT !.pc = "failed"]]
    /\ UNCHANGED <<source, opened, ti, tries, planVars, group, disk, sinkVars,
                   lateFinalize, deaths>>

-----------------------------------------------------------------------------
(* Attempts that die, or whose heartbeat is lost *)

CountDeath == deaths < MaxDeaths /\ deaths' = deaths + 1

GiveUpTask(x) ==
    /\ Runnable(x)
    /\ CountDeath
    /\ tries' = [tries EXCEPT ![x] = @ + 1]
    /\ ti' = [ti EXCEPT ![x] = IF tries[x] + 1 = MaxTries THEN "failed" ELSE @]
    /\ lateFinalize' = (lateFinalize \/ x = "finalize")
    /\ UNCHANGED <<source, opened, planVars, group, inst, disk, sinkVars>>

\* With no try left the task fails, and with it the write of the instance.
PhaseAfterGiveUp(r) ==
    CASE r.tries + 1 < MaxTries -> r.pc
      [] r.tries + 1 >= MaxTries /\ r.pc = "write" -> "failed"
      [] OTHER -> "failing"

GivenUp(r) ==
    [r EXCEPT !.tries = r.tries + 1,
              !.late  = r.late \/ r.pc = "write",
              !.pc    = PhaseAfterGiveUp(r)]

GiveUpInstance(s, i) ==
    /\ \E phase \in {"read", "compute", "write"} : InPhase(s, i, phase)
    /\ CountDeath
    /\ inst' = [inst EXCEPT ![s][i] = GivenUp(inst[s][i])]
    /\ UNCHANGED <<source, opened, ti, tries, planVars, group, disk, sinkVars,
                   lateFinalize>>

\* A write that was given up on puts its next bucket file in place; the loop
\* goes through the buckets in ascending order.
LateWrite(s, i) ==
    /\ s # Sink
    /\ group[s] = "expanded"
    /\ i \in DOMAIN inst[s]
    /\ inst[s][i].late
    /\ LET sub == Buckets(s, i)
       IN  \E b \in DOMAIN sub :
             /\ \A c \in DOMAIN sub : c < b => BucketFile(s, i, c) \in DOMAIN disk
             /\ disk' = Overwrite(disk, [p \in {BucketFile(s, i, b)} |-> sub[b]])
    /\ UNCHANGED <<source, opened, ti, tries, planVars, group, inst, sinkVars,
                   lateFinalize, deaths>>

LateSinkWrite(i) ==
    /\ i \in DOMAIN inst[Sink]
    /\ inst[Sink][i].late
    /\ sinkDir' = Overwrite(sinkDir, [j \in {i} |-> inst[Sink][i].result])
    /\ UNCHANGED <<source, opened, ti, tries, planVars, group, inst, disk,
                   committed, published, lateFinalize, deaths>>

LateCommit ==
    /\ lateFinalize
    /\ Publish
    /\ UNCHANGED <<source, opened, ti, tries, planVars, group, inst, disk,
                   sinkDir, lateFinalize, deaths>>

-----------------------------------------------------------------------------

\* Other writers of the source tables.
Grow ==
    /\ \E t \in Table : AppendPartition(t)
    /\ UNCHANGED <<opened, ti, tries, planVars, group, inst, disk, sinkVars,
                   lateFinalize, deaths>>

\* Nothing is left to schedule once finalize has been resolved.
Resolved == ti["finalize"] # "none"

Done == Resolved /\ UNCHANGED vars

PlannerStep ==
    \/ MakeWorkDir
    \/ PlanWidth
    \/ \E t \in Table : Prepare(t)
    \/ Gather
    \/ Finalize

InstanceStep ==
    \/ \E s \in Stage : \E i \in DOMAIN inst[s] : Read(s, i)
    \/ \E s \in Stage : \E i \in DOMAIN inst[s] : ComputeResult(s, i)
    \/ \E s \in Scan : \E i \in DOMAIN inst[s] : WriteBuckets(s, i)
    \/ \E i \in DOMAIN inst[Sink] : WriteToSink(i)

SchedulerStep ==
    \/ \E s \in Stage : ExpandStage(s)
    \/ \E s \in Stage : PropagateToStage(s)
    \/ \E x \in Task : Propagate(x)
    \/ \E s \in Stage : \E i \in DOMAIN inst[s] : SettleFailure(s, i)

FaultStep ==
    \/ \E x \in Task : GiveUpTask(x)
    \/ \E s \in Stage : \E i \in DOMAIN inst[s] : GiveUpInstance(s, i)
    \/ \E s \in Scan : \E i \in DOMAIN inst[s] : LateWrite(s, i)
    \/ \E i \in DOMAIN inst[Sink] : LateSinkWrite(i)
    \/ LateCommit

Progress == PlannerStep \/ InstanceStep \/ SchedulerStep

Next == Progress \/ FaultStep \/ Grow \/ Done

Spec == Init /\ [][Next]_vars

\* Airflow keeps scheduling: while some task can be run or resolved, one is.
FairSpec == Spec /\ WF_vars(Progress)

-----------------------------------------------------------------------------
(* Properties *)

\* Every variable has its type; partial functions are over data files, bucket
\* ids and paths.
TypeOK ==
    /\ source \in [Table -> Seq(SUBSET Row)]
    /\ opened \in [Table -> Nat]
    /\ ti \in [Task -> TaskState]
    /\ tries \in [Task -> Nat]
    /\ width \in 1..Policy.num_buckets
    /\ DOMAIN listing = Table /\ DOMAIN inst = Stage
    /\ \A t \in Table :
         IsPartial(listing[t], Nat, [ref : Nat \ {0}, num_buckets : Nat \ {0}])
    /\ IsPartial(plan, Nat, [Table -> SUBSET Path])
    /\ group \in [Stage -> {"none", "expanded", "skipped", "upstream_failed"}]
    /\ \A s \in Stage : IsPartial(inst[s], Nat, Instance)
    /\ IsPartial(disk, Path, SUBSET Tuple)
    /\ IsPartial(sinkDir, Nat, SUBSET Tuple)
    /\ committed \subseteq Nat
    /\ published \in BOOLEAN
    /\ lateFinalize \in BOOLEAN
    /\ deaths \in 0..MaxDeaths

\* The rows that the run listed of each table; none while it has not listed.
RowsListed(t) ==
    UNION {source[t][listing[t][i].ref] : i \in DOMAIN listing[t]}

\* What the committed partition files hold.
Result == UNION {sinkDir[i] : i \in committed}

\* A run that has committed published the answer of the whole query over the
\* data files its planners listed, no tuple of it in two partition files: not
\* one lost or repeated by the shuffle, the broadcast, the retries, or by
\* attempts that were given up on and wrote later.
ResultCorrect ==
    published =>
        /\ Result = Answer([t \in Table |-> RowsListed(t)])
        /\ \A i, j \in committed : i # j => sinkDir[i] \cap sinkDir[j] = {}

\* Equal keys are in the same bucket, whichever scan, data file and attempt
\* wrote them: the reduce side may pair files by bucket id.
CoPartitioned ==
    \A p, q \in DOMAIN disk : \A t \in disk[p], u \in disk[q] :
        t.key = u.key => p.bucket = q.bucket

\* Once planned, every file the map side wrote is read: by one reduce instance
\* of a GROUP BY, and for a join each pair of tuples that match meets in one.
PlanReadsOnce ==
    ti["gather"] = "success" =>
        IF Query = "aggregate"
        THEN \A f \in Reported(Left) :
               Cardinality({b \in DOMAIN plan : f.path \in plan[b][Left]}) = 1
        ELSE \A f \in Reported(Left), g \in Reported(Right) :
               (\E l \in disk[f.path], r \in disk[g.path] : Matches(l, r))
               => Cardinality({b \in DOMAIN plan :
                                  /\ f.path \in plan[b][Left]
                                  /\ g.path \in plan[b][Right]}) = 1

\* No reduce instance is planned that could only fail: every input it names
\* has files, and they have been written.
NoDoomedRead ==
    \A i \in DOMAIN plan : \A t \in Table :
        plan[i][t] # {} /\ plan[i][t] \subseteq DOMAIN disk

\* A bucket file or a result file, once written, is only ever rewritten with
\* what it held: retries and late attempts are idempotent.
FilesStable ==
    [][/\ \A p \in DOMAIN disk : p \in DOMAIN disk' /\ disk'[p] = disk[p]
       /\ \A i \in DOMAIN sinkDir :
            i \in DOMAIN sinkDir' /\ sinkDir'[i] = sinkDir[i]]_vars

SomeTaskFailed ==
    \/ \E x \in Task \ {"finalize"} : ti[x] \in Failure
    \/ \E s \in Stage : \E i \in DOMAIN inst[s] : inst[s][i].pc \in {"failing", "failed"}

\* A run with a failed task upstream of finalize does not commit, neither
\* before nor after the failure.
FailurePreventsCommit == published => ~SomeTaskFailed

\* Every run ends, and ends with a commit, that of an empty answer included,
\* unless finalize is failed by a task upstream or fails itself: it is never
\* left waiting, and never skipped.
CommitsOrFails == <>(published \/ ti["finalize"] \in Failure)

QR == INSTANCE QueryRun
        WITH answer <- IF published THEN Result ELSE NoAnswer

\* The DAG run implements the promise of a query run.
RefinesQueryRun == QR!Spec
=============================================================================
