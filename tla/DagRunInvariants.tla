--------------------------- MODULE DagRunInvariants ---------------------------
(***************************************************************************)
(* The inductive invariant of DagRun: why a published answer is right.     *)
(* The parts follow the run from its planners to finalize.                 *)
(***************************************************************************)
EXTENDS DagRun

\* The tasks that a plan_partitions task waits for have succeeded before it.
PlannersInOrder ==
    \A t \in Table :
        ti[t] = "success" => ("plan_width" \in Task => ti["plan_width"] = "success")

\* A listing is made once, names data files that are there, in order, and has
\* one width for all of them.
ListingValid ==
    \A t \in Table :
        /\ ti[t] # "success" => DOMAIN listing[t] = {}
        /\ \A i \in DOMAIN listing[t] :
             /\ listing[t][i] = [ref |-> i + 1, num_buckets |-> NumBuckets(t)]
             /\ i + 1 <= Len(source[t])

\* A group has instances only once expanded: one for each entry of its plan.
GroupsFollowPlans ==
    \A s \in Stage :
        /\ group[s] # "expanded" => DOMAIN inst[s] = {}
        /\ group[s] = "expanded" =>
             /\ ti[PlannerOf(s)] = "success"
             /\ DOMAIN inst[s] = DOMAIN Kwargs(s)

\* A listing is a version of its table that was current during the run.
VersionInv ==
    \A t \in Table :
        /\ opened[t] <= Len(source[t])
        /\ ti[t] = "success" =>
             \E k \in opened[t]..Len(source[t]) : DOMAIN listing[t] = 0..(k - 1)

PlanningInv == PlannersInOrder /\ ListingValid /\ GroupsFollowPlans

-----------------------------------------------------------------------------

\* What instance i of a scan stage computes, and how it is split: functions of
\* the data file it was given and of the width.
ScanOutput(s, i) == ScanSql(TuplesOf(source[s][listing[s][i].ref]))

Shards(s, i) == HashPartition(ScanOutput(s, i), listing[s][i].num_buckets)

ShardFiles(s, i) ==
    {[path |-> BucketFile(s, i, b), bucket |-> b,
      rows |-> Cardinality(Shards(s, i)[b])] : b \in DOMAIN Shards(s, i)}

\* An instance holds the data its phase calls for, whatever attempts died.
ScanInstanceValid(s, i) ==
    /\ inst[s][i].pc = "compute" =>
         inst[s][i].scratch[s] = TuplesOf(source[s][listing[s][i].ref])
    /\ (inst[s][i].pc \in {"write", "success"} \/ inst[s][i].late) =>
         inst[s][i].result = ScanOutput(s, i)
    /\ inst[s][i].pc # "success" => inst[s][i].files = {}
    /\ inst[s][i].pc = "success" =>
         /\ inst[s][i].files = ShardFiles(s, i)
         /\ {f.path : f \in ShardFiles(s, i)} \subseteq DOMAIN disk

\* A bucket file holds its shard of its instance's output and nothing else.
FileValid(p) ==
    /\ p.stage \in Scan
    /\ p.part \in DOMAIN inst[p.stage]
    /\ p.bucket \in DOMAIN Shards(p.stage, p.part)
    /\ disk[p] = Shards(p.stage, p.part)[p.bucket]

MapSideInv ==
    /\ \A s \in Scan : \A i \in DOMAIN inst[s] : ScanInstanceValid(s, i)
    /\ \A p \in DOMAIN disk : FileValid(p)

-----------------------------------------------------------------------------

AllWritten(s) ==
    group[s] = "expanded" /\ \A i \in DOMAIN inst[s] : inst[s][i].pc = "success"

PlanFor(files) ==
    IF Query = "join" THEN ChooseJoinStrategy(files, BroadcastThreshold)
                      ELSE GatherMulti(files)

\* The reduce side is planned once, after the whole map side has been written.
GatherInv ==
    IF "gather" \in Task /\ ti["gather"] = "success"
    THEN /\ \A s \in Scan : AllWritten(s)
         /\ plan = PlanFor([t \in Table |-> Reported(t)])
    ELSE DOMAIN plan = {}

SinkOutput(i) == SinkSql(InputOf(Sink, i))

SinkInstanceValid(i) ==
    /\ inst[Sink][i].pc = "compute" => inst[Sink][i].scratch = InputOf(Sink, i)
    /\ (inst[Sink][i].pc \in {"write", "success"} \/ inst[Sink][i].late) =>
         inst[Sink][i].result = SinkOutput(i)
    /\ inst[Sink][i].pc = "success" => i \in DOMAIN sinkDir

SinkSideInv ==
    /\ \A i \in DOMAIN inst[Sink] : SinkInstanceValid(i)
    /\ \A i \in DOMAIN sinkDir :
         i \in DOMAIN inst[Sink] /\ sinkDir[i] = SinkOutput(i)

-----------------------------------------------------------------------------

\* A stage is skipped only for an empty list, and gather only for such a scan.
SkippedForNothing ==
    /\ \A x \in Task \ {"gather", "finalize"} : ti[x] # "skipped"
    /\ \A s \in Stage : group[s] = "skipped" =>
         IF ti[PlannerOf(s)] = "success" THEN DOMAIN Kwargs(s) = {}
                                         ELSE ti[PlannerOf(s)] = "skipped"
    /\ "gather" \in Task /\ ti["gather"] = "skipped" =>
         \E s \in Scan : group[s] = "skipped"

\* finalize acts, on time or late, once the sink stage is written or skipped.
CommitInv ==
    /\ published \/ lateFinalize => AllWritten(Sink) \/ group[Sink] = "skipped"
    /\ published => committed = DOMAIN inst[Sink]

\* At every step of a run the listings, the instances, the files on disk, the
\* reduce plan, the result files and the commit agree with each other, so that
\* no retry, late attempt or growing source can make one contradict another.
IInv ==
    /\ TypeOK
    /\ IsSource(source)
    /\ VersionInv
    /\ PlanningInv
    /\ MapSideInv
    /\ GatherInv
    /\ SinkSideInv
    /\ SkippedForNothing
    /\ CommitInv
=============================================================================
