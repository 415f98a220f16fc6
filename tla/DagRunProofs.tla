----------------------------- MODULE DagRunProofs -----------------------------
(***************************************************************************)
(* Type correctness of DagRun and its inductive invariant: what the map    *)
(* side computes and writes, what the reduce side is told to read and      *)
(* writes to the sink, what is skipped and what finalize commits.  Then    *)
(* the safety properties that follow; and why a committed answer is the    *)
(* answer of the whole query: what a reduce instance reads is one bucket   *)
(* of the whole map-side output, SQL applied to a bucket gives that bucket *)
(* of the answer, and every bucket in which the answer has a tuple is      *)
(* planned.                                                                *)
(***************************************************************************)
EXTENDS DagRunInvariants, ShuffleProofs


-----------------------------------------------------------------------------
(* Partial functions *)

LEMMA NoEntriesPartial ==
    ASSUME NEW D, NEW R
    PROVE  IsPartial(NoEntries, D, R) /\ DOMAIN NoEntries = {}
  BY DEF IsPartial, NoEntries

LEMMA OverwritePartial ==
    ASSUME NEW D, NEW R, NEW f, NEW g, IsPartial(f, D, R), IsPartial(g, D, R)
    PROVE  IsPartial(Overwrite(f, g), D, R)
  BY DEF IsPartial, Overwrite

LEMMA ExceptPartial ==
    ASSUME NEW D, NEW R, NEW f, NEW i \in DOMAIN f, NEW r \in R, IsPartial(f, D, R)
    PROVE  /\ IsPartial([f EXCEPT ![i] = r], D, R)
           /\ DOMAIN [f EXCEPT ![i] = r] = DOMAIN f
  BY DEF IsPartial

-----------------------------------------------------------------------------
(* The constants *)

LEMMA TableFacts ==
    /\ Left \in Table
    /\ Query = "join" => Table = {Left, Right} /\ Left # Right
    /\ Query # "join" => Table = {Left}
    /\ Scan \subseteq Table
    /\ Query # "passthrough" => Scan = Table
    /\ Sink \in Stage /\ Sink \notin Table
    /\ Stage = Scan \cup {Sink}
  BY QueryAssumption, DagAssumption DEF Table, Scan, Stage

LEMMA TaskFacts ==
    /\ "make_work_dir" \in Task /\ "finalize" \in Task /\ Table \subseteq Task
    /\ Table \cap {"make_work_dir", "finalize", "gather", "plan_width"} = {}
    /\ "gather" \in Task <=> Query # "passthrough"
    /\ "plan_width" \in Task <=> Query # "passthrough" /\ Adaptive
  BY TableFacts, DagAssumption, QueryAssumption DEF Task, Scan, Table

LEMMA StageFacts ==
    ASSUME NEW s \in Stage
    PROVE  /\ PlannerOf(s) \in Task
           /\ s \in Scan => SourceFed(s) /\ SourceOf(s) = s /\ PlannerOf(s) = s
           /\ SourceFed(s) => SourceOf(s) \in Table /\ PlannerOf(s) = SourceOf(s)
           /\ ~SourceFed(s) => s = Sink /\ Query # "passthrough" /\ PlannerOf(s) = "gather"
  BY TableFacts, TaskFacts DEF PlannerOf, SourceFed, SourceOf

-----------------------------------------------------------------------------
(* Types of what the tasks produce *)

LEMMA MetadataType ==
    ASSUME TypeOK, NEW t \in Table
    PROVE  MetadataOf(t) \in Metadata
  <1>1. source[t] \in Seq(SUBSET Row)
    BY DEF TypeOK
  <1>2. RowsIn(source[t]) \subseteq Row
    BY <1>1 DEF RowsIn
  <1>3. Cardinality(RowsIn(source[t])) \in Nat
    BY <1>2, QueryAssumption, FS_Subset, FS_CardinalityType
  <1> QED
    BY <1>1, <1>3 DEF MetadataOf, Metadata

LEMMA GroupMetadataType ==
    ASSUME TypeOK
    PROVE  GroupMetadata \in Metadata
  <1>1. ASSUME NEW m \in Metadata, NEW n \in Metadata
        PROVE  AddMetadata(m, n) \in Metadata
    BY DEF AddMetadata, Metadata, OrZero, NoEstimate
  <1>2. MetadataOf(Left) \in Metadata
    BY MetadataType, TableFacts
  <1>3. CASE Query = "join"
    <2>1. MetadataOf(Right) \in Metadata
      BY <1>3, MetadataType, TableFacts
    <2> QED
      BY <1>1, <1>2, <1>3, <2>1 DEF GroupMetadata
  <1>4. CASE Query # "join"
    BY <1>2, <1>4 DEF GroupMetadata
  <1> QED
    BY <1>3, <1>4

LEMMA NumBucketsType ==
    ASSUME TypeOK, NEW t \in Table
    PROVE  NumBuckets(t) \in Nat \ {0}
  <1>1. Policy.num_buckets \in Nat \ {0}
    BY DagAssumption DEF BucketingPolicy
  <1> QED
    BY <1>1 DEF NumBuckets, TypeOK

LEMMA ListedNumBuckets ==
    ASSUME TypeOK, NEW t \in Table, NEW i \in DOMAIN listing[t]
    PROVE  listing[t][i].num_buckets \in Nat \ {0}
  BY DEF TypeOK, IsPartial

LEMMA ReportedType ==
    ASSUME TypeOK, NEW s \in Stage
    PROVE  Reported(s) \in SUBSET File
  <1>1. \A i \in DOMAIN inst[s] : inst[s][i] \in Instance
    BY DEF TypeOK, IsPartial
  <1>2. \A i \in DOMAIN inst[s] : inst[s][i].files \in SUBSET File
    BY <1>1 DEF Instance
  <1> QED
    BY <1>2 DEF Reported

LEMMA DataFileType ==
    ASSUME TypeOK, PlanningInv, NEW t \in Table, NEW i \in DOMAIN listing[t]
    PROVE  source[t][listing[t][i].ref] \in SUBSET Row
  <1>1. source[t] \in Seq(SUBSET Row)
    BY DEF TypeOK
  <1>3. i \in Nat
    BY DEF TypeOK, IsPartial
  <1>2. listing[t][i].ref = i + 1 /\ i + 1 <= Len(source[t])
    <2>1. /\ listing[t][i] = [ref |-> i + 1, num_buckets |-> NumBuckets(t)]
          /\ i + 1 <= Len(source[t])
      BY DEF PlanningInv, ListingValid
    <2> QED
      BY <2>1
  <1> QED
    BY <1>1, <1>2, <1>3

LEMMA PlanForType ==
    ASSUME TypeOK, Query # "passthrough"
    PROVE  IsPartial(PlanFor([t \in Table |-> Reported(t)]), Nat, [Table -> SUBSET Path])
  <1> DEFINE files == [t \in Table |-> Reported(t)]
  <1>1. \A t \in Table : \A f \in files[t] : f.path \in Path /\ f.bucket \in Nat
    <2>1. \A t \in Table : Reported(t) \in SUBSET File
      BY ReportedType, TableFacts
    <2> QED
      BY <2>1 DEF File
  <1>2. files = [t \in Table |-> files[t]]
    OBVIOUS
  <1>3. BroadcastThreshold \in Nat
    BY DagAssumption
  <1> HIDE DEF files
  <1>4. CASE Query = "join"
    <2>1. IsPartial(ChooseJoinStrategy(files, BroadcastThreshold), Nat, [Table -> SUBSET Path])
      BY <1>1, <1>2, <1>3, <1>4, ChooseJoinStrategyType
    <2> QED
      BY <2>1, <1>4 DEF PlanFor, files
  <1>5. CASE Query # "join"
    <2>1. IsPartial(GatherMulti(files), Nat, [Table -> SUBSET Path])
      BY <1>1, <1>2, GatherMultiType
    <2> QED
      BY <2>1, <1>5 DEF PlanFor, files
  <1> QED
    BY <1>4, <1>5

LEMMA InputType ==
    ASSUME TypeOK, PlanningInv, NEW s \in Stage, NEW i \in DOMAIN inst[s],
           Readable(s, i)
    PROVE  InputOf(s, i) \in [Table -> SUBSET Tuple]
  <1>1. i \in DOMAIN Kwargs(s)
    BY DEF PlanningInv, GroupsFollowPlans
  <1>2. CASE SourceFed(s)
    <2>1. SourceOf(s) \in Table /\ i \in DOMAIN listing[SourceOf(s)]
      BY <1>1, <1>2, StageFacts DEF Kwargs
    <2>2. TuplesOf(source[SourceOf(s)][listing[SourceOf(s)][i].ref]) \in SUBSET Tuple
      BY <2>1, DataFileType, TuplesOfType
    <2> QED
      BY <1>2, <2>2 DEF InputOf
  <1>3. CASE ~SourceFed(s)
    <2>1. \A t \in Table : plan[i][t] \subseteq DOMAIN disk
      BY <1>3 DEF Readable
    <2>2. \A p \in DOMAIN disk : disk[p] \in SUBSET Tuple
      BY DEF TypeOK, IsPartial
    <2>3. \A t \in Table : UNION {disk[p] : p \in plan[i][t]} \in SUBSET Tuple
      BY <2>1, <2>2
    <2>4. InputOf(s, i) = [t \in Table |-> UNION {disk[p] : p \in plan[i][t]}]
      BY <1>3 DEF InputOf
    <2> QED
      BY <2>3, <2>4
  <1> QED
    BY <1>2, <1>3

LEMMA InstanceType ==
    ASSUME TypeOK, NEW s \in Stage, NEW i \in DOMAIN inst[s]
    PROVE  inst[s][i] \in Instance /\ i \in Nat
  BY DEF TypeOK, IsPartial

\* Changing one instance to another of the type keeps the type of them all.
LEMMA ChangeInstanceType ==
    ASSUME TypeOK, NEW s \in Stage, NEW i \in DOMAIN inst[s], NEW r \in Instance,
           inst' = [inst EXCEPT ![s] = [@ EXCEPT ![i] = r]]
    PROVE  /\ \A u \in Stage : IsPartial(inst'[u], Nat, Instance)
           /\ \A u \in Stage : DOMAIN inst'[u] = DOMAIN inst[u]
  <1>1. \A u \in Stage : IsPartial(inst[u], Nat, Instance)
    BY DEF TypeOK
  <1>2. inst'[s] = [inst[s] EXCEPT ![i] = r] /\ \A u \in Stage : u # s => inst'[u] = inst[u]
    BY DEF TypeOK
  <1>3. IsPartial(inst'[s], Nat, Instance) /\ DOMAIN inst'[s] = DOMAIN inst[s]
    <2>1. IsPartial(inst[s], Nat, Instance)
      BY <1>1
    <2>2. /\ IsPartial([inst[s] EXCEPT ![i] = r], Nat, Instance)
          /\ DOMAIN [inst[s] EXCEPT ![i] = r] = DOMAIN inst[s]
      BY <2>1, ExceptPartial
    <2> QED
      BY <2>2, <1>2
  <1> QED
    BY <1>1, <1>2, <1>3

-----------------------------------------------------------------------------
(* The type invariant is preserved *)

\* Updating fields of an instance with values of their types.
LEMMA WriteUpdate ==
    ASSUME NEW r \in Instance, NEW phase \in Phase, NEW files \in SUBSET File
    PROVE  [r EXCEPT !.pc = phase, !.files = files] \in Instance
  BY DEF Instance

LEMMA ReadUpdate ==
    ASSUME NEW r \in Instance, NEW phase \in Phase, NEW n \in Nat,
           NEW scratch \in [Table -> SUBSET Tuple]
    PROVE  [r EXCEPT !.pc = phase, !.tries = n, !.scratch = scratch] \in Instance
  BY DEF Instance

LEMMA ComputeUpdate ==
    ASSUME NEW r \in Instance, NEW phase \in Phase, NEW n \in Nat,
           NEW result \in SUBSET Tuple
    PROVE  [r EXCEPT !.pc = phase, !.tries = n, !.result = result] \in Instance
  BY DEF Instance

LEMMA TryUpdate ==
    ASSUME NEW r \in Instance, NEW phase \in Phase, NEW n \in Nat, NEW late \in BOOLEAN
    PROVE  [r EXCEPT !.tries = n, !.late = late, !.pc = phase] \in Instance
  BY DEF Instance

LEMMA GivenUpType ==
    ASSUME NEW r \in Instance
    PROVE  GivenUp(r) \in Instance
  <1> DEFINE phase == PhaseAfterGiveUp(r)
             late == r.late \/ r.pc = "write"
             n == r.tries + 1
  <1>1. phase \in Phase
    BY DEF PhaseAfterGiveUp, Phase, Instance
  <1>2. n \in Nat
    BY DEF Instance
  <1>3. late \in BOOLEAN
    OBVIOUS
  <1>4. GivenUp(r) = [r EXCEPT !.tries = n, !.late = late, !.pc = phase]
    BY DEF GivenUp
  <1> HIDE DEF phase, late, n
  <1>5. [r EXCEPT !.tries = n, !.late = late, !.pc = phase] \in Instance
    BY <1>1, <1>2, <1>3, TryUpdate, Zenon
  <1> QED
    BY <1>4, <1>5, Zenon

LEMMA BucketFilesType ==
    ASSUME TypeOK, PlanningInv, NEW s \in Scan, NEW i \in DOMAIN inst[s]
    PROVE  /\ DOMAIN Buckets(s, i) \subseteq Nat
           /\ \A b \in DOMAIN Buckets(s, i) :
                /\ BucketFile(s, i, b) \in Path
                /\ Buckets(s, i)[b] \in SUBSET Tuple
                /\ [path |-> BucketFile(s, i, b), bucket |-> b,
                    rows |-> Cardinality(Buckets(s, i)[b])] \in File
  <1>1. s \in Stage /\ s \in Table
    BY TableFacts
  <1>2. inst[s][i].result \in SUBSET Tuple /\ i \in Nat
    BY <1>1, InstanceType DEF Instance
  <1>3. i \in DOMAIN listing[s]
    BY <1>1, StageFacts DEF PlanningInv, GroupsFollowPlans, Kwargs
  <1>4. listing[s][i].num_buckets \in Nat \ {0}
    BY <1>1, <1>3, ListedNumBuckets
  <1> DEFINE T == inst[s][i].result
             n == listing[s][i].num_buckets
  <1>5. /\ DOMAIN HashPartition(T, n) \subseteq 0..(n - 1)
        /\ \A b \in DOMAIN HashPartition(T, n) :
             /\ HashPartition(T, n)[b] \in SUBSET T
             /\ Cardinality(HashPartition(T, n)[b]) \in Nat
    BY <1>2, <1>4, HashPartitionType
  <1>6. Buckets(s, i) = HashPartition(T, n)
    BY DEF Buckets
  <1> HIDE DEF T, n
  <1>7. T \in SUBSET Tuple
    BY <1>2 DEF T
  <1>8. DOMAIN Buckets(s, i) \subseteq Nat
    BY <1>5, <1>6, <1>4 DEF n
  <1>9. ASSUME NEW b \in DOMAIN Buckets(s, i)
        PROVE  /\ BucketFile(s, i, b) \in Path
               /\ Buckets(s, i)[b] \in SUBSET Tuple
               /\ [path |-> BucketFile(s, i, b), bucket |-> b,
                    rows |-> Cardinality(Buckets(s, i)[b])] \in File
    <2>1. b \in Nat /\ Cardinality(Buckets(s, i)[b]) \in Nat /\ Buckets(s, i)[b] \in SUBSET T
      BY <1>5, <1>6, <1>8
    <2>2. BucketFile(s, i, b) \in Path
      BY <1>1, <1>2, <2>1 DEF BucketFile, Path
    <2> QED
      BY <1>7, <2>1, <2>2 DEF File
  <1> QED
    BY <1>8, <1>9

LEMMA TypeInit == Init => TypeOK
  <1> SUFFICES ASSUME Init PROVE TypeOK
    OBVIOUS
  <1>1. source \in [Table -> Seq(SUBSET Row)]
    BY SourceAssumption DEF Init, IsSource
  <1>2. opened \in [Table -> Nat]
    BY <1>1 DEF Init
  <1>3. 1 \in 1..Policy.num_buckets
    BY DagAssumption DEF BucketingPolicy
  <1>4. 0 \in 0..MaxDeaths
    BY DagAssumption
  <1>5. /\ IsPartial(plan, Nat, [Table -> SUBSET Path])
        /\ IsPartial(disk, Path, SUBSET Tuple)
        /\ IsPartial(sinkDir, Nat, SUBSET Tuple)
    BY NoEntriesPartial DEF Init
  <1>6. \A t \in Table :
          IsPartial(listing[t], Nat, [ref : Nat \ {0}, num_buckets : Nat \ {0}])
    BY NoEntriesPartial DEF Init
  <1>7. \A s \in Stage : IsPartial(inst[s], Nat, Instance)
    BY NoEntriesPartial DEF Init
  <1> QED
    BY <1>1, <1>2, <1>3, <1>4, <1>5, <1>6, <1>7 DEF Init, TypeOK, TaskState

\* Steps that run or resolve a task outside the mapped groups.
LEMMA TypePlannerStep ==
    ASSUME TypeOK, PlanningInv, PlannerStep
    PROVE  TypeOK'
  <1>1. CASE MakeWorkDir
    BY <1>1 DEF MakeWorkDir, Succeed, TypeOK, TaskState, planVars, sinkVars
  <1>2. CASE PlanWidth
    <2>1. width' \in 1..Policy.num_buckets
      BY <1>2, GroupMetadataType, ComputeInRange, DagAssumption DEF PlanWidth
    <2> QED
      BY <1>2, <2>1 DEF PlanWidth, Succeed, TypeOK, TaskState, planVars, sinkVars
  <1>3. ASSUME NEW t \in Table, Prepare(t)
        PROVE  TypeOK'
    <2> DEFINE entries == [i \in 0..(Len(source[t]) - 1) |->
                              [ref |-> i + 1, num_buckets |-> NumBuckets(t)]]
    <2>1. IsPartial(entries, Nat, [ref : Nat \ {0}, num_buckets : Nat \ {0}])
      <3>1. NumBuckets(t) \in Nat \ {0} /\ Len(source[t]) \in Nat
        BY NumBucketsType DEF TypeOK
      <3>2. \A i \in 0..(Len(source[t]) - 1) :
              [ref |-> i + 1, num_buckets |-> NumBuckets(t)]
                \in [ref : Nat \ {0}, num_buckets : Nat \ {0}]
        BY <3>1
      <3>3. 0..(Len(source[t]) - 1) \subseteq Nat
        BY <3>1
      <3> QED
        BY <3>2, <3>3 DEF IsPartial
    <2>2. listing' = [listing EXCEPT ![t] = entries]
      BY <1>3 DEF Prepare
    <2> HIDE DEF entries
    <2>3. /\ DOMAIN listing' = Table
          /\ \A u \in Table :
               IsPartial(listing'[u], Nat, [ref : Nat \ {0}, num_buckets : Nat \ {0}])
      BY <2>1, <2>2 DEF TypeOK
    <2> QED
      BY <1>3, <2>3 DEF Prepare, Succeed, TypeOK, TaskState, planVars, sinkVars
  <1>4. CASE Gather
    <2>1. Query # "passthrough"
      BY <1>4, TaskFacts DEF Gather, Runnable
    <2>2. plan' = PlanFor([t \in Table |-> Reported(t)])
      BY <1>4 DEF Gather, PlanFor
    <2>3. IsPartial(plan', Nat, [Table -> SUBSET Path])
      BY <2>1, <2>2, PlanForType
    <2> QED
      BY <1>4, <2>3 DEF Gather, Succeed, TypeOK, TaskState, planVars, sinkVars
  <1>5. CASE Finalize
    <2>1. Metas \subseteq Nat
      BY TableFacts DEF Metas, TypeOK, IsPartial
    <2> QED
      BY <1>5, <2>1 DEF Finalize, Publish, Succeed, TypeOK, TaskState, planVars, sinkVars
  <1> QED
    BY <1>1, <1>2, <1>3, <1>4, <1>5 DEF PlannerStep

\* Steps of the tasks of a mapped instance.
LEMMA TypeInstanceStep ==
    ASSUME TypeOK, PlanningInv, InstanceStep
    PROVE  TypeOK'
  <1>1. ASSUME NEW s \in Stage, NEW i \in DOMAIN inst[s], Read(s, i)
        PROVE  TypeOK'
    <2>1. InputOf(s, i) \in [Table -> SUBSET Tuple]
      BY <1>1, InputType DEF Read
    <2>2. [inst[s][i] EXCEPT !.pc = "compute", !.tries = 0, !.scratch = InputOf(s, i)]
            \in Instance
      BY <2>1, InstanceType, ReadUpdate DEF Phase
    <2>3. \A u \in Stage : IsPartial(inst'[u], Nat, Instance)
      BY <1>1, <2>2, ChangeInstanceType DEF Read
    <2> QED
      BY <1>1, <2>3 DEF Read, TypeOK, planVars, sinkVars
  <1>2. ASSUME NEW s \in Stage, NEW i \in DOMAIN inst[s], ComputeResult(s, i)
        PROVE  TypeOK'
    <2>1. inst[s][i].scratch \in [Table -> SUBSET Tuple]
      BY InstanceType DEF Instance
    <2>2. StageSql(s, inst[s][i].scratch) \in SUBSET Tuple
      <3>1. s # Sink => s \in Table
        BY TableFacts
      <3> QED
        BY <2>1, <3>1, ScanSqlType, SinkSqlType DEF StageSql
    <2>3. [inst[s][i] EXCEPT !.pc = "write", !.tries = 0,
                             !.result = StageSql(s, inst[s][i].scratch)] \in Instance
      BY <2>2, InstanceType, ComputeUpdate DEF Phase
    <2>4. \A u \in Stage : IsPartial(inst'[u], Nat, Instance)
      BY <1>2, <2>3, ChangeInstanceType DEF ComputeResult
    <2> QED
      BY <1>2, <2>4 DEF ComputeResult, TypeOK, planVars, sinkVars
  <1>3. ASSUME NEW s \in Scan, NEW i \in DOMAIN inst[s], WriteBuckets(s, i)
        PROVE  TypeOK'
    <2> DEFINE sub == Buckets(s, i)
               written == [p \in {BucketFile(s, i, b) : b \in DOMAIN sub} |-> sub[p.bucket]]
               files == {[path |-> BucketFile(s, i, b), bucket |-> b,
                          rows |-> Cardinality(sub[b])] : b \in DOMAIN sub}
    <2>1. s \in Stage
      BY TableFacts
    <2>2. IsPartial(written, Path, SUBSET Tuple)
      <3>1. \A b \in DOMAIN sub : /\ BucketFile(s, i, b) \in Path
                                  /\ BucketFile(s, i, b).bucket = b
                                  /\ sub[b] \in SUBSET Tuple
        BY BucketFilesType DEF BucketFile
      <3> HIDE DEF sub
      <3> QED
        BY <3>1 DEF IsPartial
    <2>3. files \in SUBSET File
      BY BucketFilesType
    <2>4. /\ disk' = Overwrite(disk, written)
          /\ inst' = [inst EXCEPT ![s][i] = [@ EXCEPT !.pc = "success", !.files = files]]
      BY <1>3 DEF WriteBuckets, FilesWritten
    <2> HIDE DEF sub, written, files
    <2>5. IsPartial(disk', Path, SUBSET Tuple)
      BY <2>2, <2>4, OverwritePartial DEF TypeOK
    <2>6. [inst[s][i] EXCEPT !.pc = "success", !.files = files] \in Instance
      BY <2>1, <2>3, InstanceType, WriteUpdate DEF Phase
    <2>7. \A u \in Stage : IsPartial(inst'[u], Nat, Instance)
      BY <2>1, <2>4, <2>6, ChangeInstanceType
    <2> QED
      BY <1>3, <2>4, <2>5, <2>7 DEF WriteBuckets, TypeOK, planVars, sinkVars
  <1>4. ASSUME NEW i \in DOMAIN inst[Sink], WriteToSink(i)
        PROVE  TypeOK'
    <2>1. inst[Sink][i] \in Instance /\ i \in Nat
      BY TableFacts, InstanceType
    <2>2. IsPartial([j \in {i} |-> inst[Sink][i].result], Nat, SUBSET Tuple)
      BY <2>1 DEF IsPartial, Instance
    <2>3. IsPartial(sinkDir', Nat, SUBSET Tuple)
      BY <1>4, <2>2, OverwritePartial DEF WriteToSink, TypeOK
    <2>4. [inst[Sink][i] EXCEPT !.pc = "success"] \in Instance
      BY <2>1 DEF Instance, Phase
    <2>5. \A u \in Stage : IsPartial(inst'[u], Nat, Instance)
      BY <1>4, <2>4, TableFacts, ChangeInstanceType DEF WriteToSink
    <2> QED
      BY <1>4, <2>3, <2>5 DEF WriteToSink, TypeOK, planVars, sinkVars
  <1> QED
    BY <1>1, <1>2, <1>3, <1>4 DEF InstanceStep

\* Steps of the scheduler.
LEMMA TypeSchedulerStep ==
    ASSUME TypeOK, PlanningInv, SchedulerStep
    PROVE  TypeOK'
  <1>1. ASSUME NEW s \in Stage, ExpandStage(s)
        PROVE  TypeOK'
    <2>1. DOMAIN Kwargs(s) \subseteq Nat
      BY StageFacts DEF TypeOK, IsPartial, Kwargs
    <2>2. NewInstance \in Instance
      BY DEF NewInstance, Instance, Phase
    <2>3. IsPartial([i \in DOMAIN Kwargs(s) |-> NewInstance], Nat, Instance)
      BY <2>1, <2>2 DEF IsPartial
    <2>4. inst' = [inst EXCEPT ![s] = [i \in DOMAIN Kwargs(s) |-> NewInstance]]
      BY <1>1 DEF ExpandStage
    <2>5. DOMAIN inst' = Stage /\ \A u \in Stage : IsPartial(inst'[u], Nat, Instance)
      BY <2>3, <2>4 DEF TypeOK
    <2> QED
      BY <1>1, <2>5 DEF ExpandStage, TypeOK, planVars, sinkVars
  <1>2. ASSUME NEW s \in Stage, PropagateToStage(s)
        PROVE  TypeOK'
    BY <1>2 DEF PropagateToStage, TypeOK, planVars, sinkVars
  <1>3. ASSUME NEW x \in Task, Propagate(x)
        PROVE  TypeOK'
    BY <1>3 DEF Propagate, TypeOK, TaskState, planVars, sinkVars
  <1>4. ASSUME NEW s \in Stage, NEW i \in DOMAIN inst[s], SettleFailure(s, i)
        PROVE  TypeOK'
    <2>1. [inst[s][i] EXCEPT !.pc = "failed"] \in Instance
      BY InstanceType DEF Instance, Phase
    <2>2. \A u \in Stage : IsPartial(inst'[u], Nat, Instance)
      BY <1>4, <2>1, ChangeInstanceType DEF SettleFailure
    <2> QED
      BY <1>4, <2>2 DEF SettleFailure, TypeOK, planVars, sinkVars
  <1> QED
    BY <1>1, <1>2, <1>3, <1>4 DEF SchedulerStep

\* Attempts that die, and what they still write.
LEMMA TypeFaultStep ==
    ASSUME TypeOK, PlanningInv, FaultStep
    PROVE  TypeOK'
  <1>0. ASSUME CountDeath PROVE deaths' \in 0..MaxDeaths
    BY <1>0, DagAssumption DEF CountDeath, TypeOK
  <1>1. ASSUME NEW x \in Task, GiveUpTask(x)
        PROVE  TypeOK'
    <2>1. deaths' \in 0..MaxDeaths
      BY <1>0, <1>1 DEF GiveUpTask
    <2>2. tries' \in [Task -> Nat] /\ ti' \in [Task -> TaskState] /\ lateFinalize' \in BOOLEAN
      BY <1>1 DEF GiveUpTask, TypeOK, TaskState
    <2> QED
      BY <1>1, <2>1, <2>2 DEF GiveUpTask, TypeOK, planVars, sinkVars
  <1>2. ASSUME NEW s \in Stage, NEW i \in DOMAIN inst[s], GiveUpInstance(s, i)
        PROVE  TypeOK'
    <2>1. deaths' \in 0..MaxDeaths
      BY <1>0, <1>2 DEF GiveUpInstance
    <2>2. GivenUp(inst[s][i]) \in Instance
      BY InstanceType, GivenUpType
    <2>3. inst' = [inst EXCEPT ![s][i] = GivenUp(inst[s][i])]
      BY <1>2 DEF GiveUpInstance
    <2>4. \A u \in Stage : IsPartial(inst'[u], Nat, Instance)
      BY <2>2, <2>3, ChangeInstanceType
    <2>5. DOMAIN inst' = Stage
      BY <2>3 DEF TypeOK
    <2> QED
      BY <1>2, <2>1, <2>4, <2>5 DEF GiveUpInstance, TypeOK, planVars, sinkVars
  <1>3. ASSUME NEW s \in Scan, NEW i \in DOMAIN inst[s], LateWrite(s, i)
        PROVE  TypeOK'
    <2>1. PICK b \in DOMAIN Buckets(s, i) :
            disk' = Overwrite(disk, [p \in {BucketFile(s, i, b)} |-> Buckets(s, i)[b]])
      BY <1>3 DEF LateWrite
    <2>2. IsPartial([p \in {BucketFile(s, i, b)} |-> Buckets(s, i)[b]], Path, SUBSET Tuple)
      BY BucketFilesType DEF IsPartial
    <2>3. IsPartial(disk', Path, SUBSET Tuple)
      BY <2>1, <2>2, OverwritePartial DEF TypeOK
    <2> QED
      BY <1>3, <2>3 DEF LateWrite, TypeOK, planVars, sinkVars
  <1>4. ASSUME NEW i \in DOMAIN inst[Sink], LateSinkWrite(i)
        PROVE  TypeOK'
    <2>1. inst[Sink][i] \in Instance /\ i \in Nat
      BY TableFacts, InstanceType
    <2>2. IsPartial([j \in {i} |-> inst[Sink][i].result], Nat, SUBSET Tuple)
      BY <2>1 DEF IsPartial, Instance
    <2>3. IsPartial(sinkDir', Nat, SUBSET Tuple)
      BY <1>4, <2>2, OverwritePartial DEF LateSinkWrite, TypeOK
    <2> QED
      BY <1>4, <2>3 DEF LateSinkWrite, TypeOK, planVars, sinkVars
  <1>5. CASE LateCommit
    <2>1. Metas \subseteq Nat
      BY TableFacts DEF Metas, TypeOK, IsPartial
    <2> QED
      BY <1>5, <2>1 DEF LateCommit, Publish, TypeOK, planVars, sinkVars
  <1> QED
    BY <1>1, <1>2, <1>3, <1>4, <1>5 DEF FaultStep

LEMMA TypeStep ==
    ASSUME TypeOK, PlanningInv, [Next]_vars
    PROVE  TypeOK'
  <1>1. CASE Grow
    <2>1. PICK t \in Table : AppendPartition(t)
      BY <1>1 DEF Grow
    <2>2. PICK rows \in SUBSET (TableRows[t] \ RowsIn(source[t])) :
            source' = [source EXCEPT ![t] = Append(@, rows)]
      BY <2>1 DEF AppendPartition
    <2>3. rows \in SUBSET Row
      BY <2>2, SourceAssumption
    <2>4. source' \in [Table -> Seq(SUBSET Row)]
      BY <2>2, <2>3 DEF TypeOK
    <2> QED
      BY <1>1, <2>4 DEF Grow, TypeOK, planVars, sinkVars
  <1>2. CASE UNCHANGED vars
    BY <1>2 DEF TypeOK, vars, planVars, sinkVars
  <1> QED
    BY <1>1, <1>2, TypePlannerStep, TypeInstanceStep, TypeSchedulerStep, TypeFaultStep
       DEF Next, Progress, Done

-----------------------------------------------------------------------------
(* What no step takes back *)

\* A resolved task stays as it is, and a task succeeds by running.
TasksFrame ==
    /\ \A x \in Task : ti[x] # "none" => ti'[x] = ti[x]
    /\ \A t \in Table : Prepare(t) \/ (ti'[t] = "success" => ti[t] = "success")
    /\ "gather" \in Task =>
         (Gather \/ (ti'["gather"] = "success" => ti["gather"] = "success"))

\* The planners' results change only when the planner runs.
PlansFrame ==
    /\ \A t \in Table : Prepare(t) \/ listing'[t] = listing[t]
    /\ ("plan_width" \in Task /\ ti["plan_width"] = "none") \/ width' = width
    /\ Gather \/ plan' = plan

\* Groups are expanded once, and keep their instances.
GroupsFrame ==
    \A s \in Stage :
        \/ ExpandStage(s)
        \/ /\ DOMAIN inst'[s] = DOMAIN inst[s]
           /\ group'[s] = "expanded" <=> group[s] = "expanded"

\* Data files are only ever added.
SourcesFrame ==
    \A t \in Table :
        /\ Len(source[t]) <= Len(source'[t])
        /\ \A k \in 1..Len(source[t]) : source'[t][k] = source[t][k]

Frame == TasksFrame /\ PlansFrame /\ GroupsFrame /\ SourcesFrame

LEMMA SourcesUnchanged ==
    ASSUME TypeOK, source' = source
    PROVE  SourcesFrame
  BY DEF TypeOK, SourcesFrame

LEMMA FramePlannerStep ==
    ASSUME TypeOK, PlannerStep
    PROVE  Frame
  <1>1. SourcesFrame
    BY SourcesUnchanged DEF PlannerStep, MakeWorkDir, PlanWidth, Prepare, Gather, Finalize
  <1>2. GroupsFrame
    BY DEF GroupsFrame, PlannerStep, MakeWorkDir, PlanWidth, Prepare, Gather, Finalize
  <1>3. TasksFrame /\ PlansFrame
    <2>1. CASE MakeWorkDir
      BY <2>1, TaskFacts DEF TypeOK, TasksFrame, PlansFrame, MakeWorkDir, Runnable, Succeed, planVars
    <2>2. CASE PlanWidth
      BY <2>2, TaskFacts DEF TypeOK, TasksFrame, PlansFrame, PlanWidth, Runnable, Succeed, planVars
    <2>3. ASSUME NEW t \in Table, Prepare(t)
          PROVE  TasksFrame /\ PlansFrame
      BY <2>3, TaskFacts DEF TypeOK, TasksFrame, PlansFrame, Prepare, Runnable, Succeed, planVars
    <2>4. CASE Gather
      BY <2>4, TaskFacts DEF TypeOK, TasksFrame, PlansFrame, Gather, Runnable, Succeed, planVars
    <2>5. CASE Finalize
      BY <2>5, TaskFacts DEF TypeOK, TasksFrame, PlansFrame, Finalize, Runnable, Succeed, planVars
    <2> QED
      BY <2>1, <2>2, <2>3, <2>4, <2>5 DEF PlannerStep
  <1> QED
    BY <1>1, <1>2, <1>3 DEF Frame

\* A step that changes one instance of one stage at most.
LEMMA FrameInstance ==
    ASSUME TypeOK, NEW s \in Stage, NEW i \in DOMAIN inst[s], NEW r,
           \/ inst' = [inst EXCEPT ![s] = [@ EXCEPT ![i] = r]]
           \/ inst' = inst,
           group' = group
    PROVE  GroupsFrame
  BY DEF GroupsFrame, TypeOK

LEMMA FrameInstanceStep ==
    ASSUME TypeOK, InstanceStep
    PROVE  Frame
  <1>1. /\ UNCHANGED <<source, ti, planVars, group>>
        /\ \E s \in Stage : \E i \in DOMAIN inst[s] : \E r :
             inst' = [inst EXCEPT ![s] = [@ EXCEPT ![i] = r]]
    BY TableFacts DEF InstanceStep, Read, ComputeResult, WriteBuckets, WriteToSink
  <1>2. GroupsFrame
    BY <1>1, FrameInstance
  <1>3. SourcesFrame
    BY <1>1, SourcesUnchanged
  <1>4. TasksFrame /\ PlansFrame
    BY <1>1 DEF TasksFrame, PlansFrame, planVars
  <1> QED
    BY <1>2, <1>3, <1>4 DEF Frame

LEMMA FrameFaultStep ==
    ASSUME TypeOK, FaultStep
    PROVE  Frame
  <1>1. ASSUME NEW x \in Task, GiveUpTask(x)
        PROVE  Frame
    <2>1. UNCHANGED <<source, planVars, group, inst>>
      BY <1>1 DEF GiveUpTask
    <2>2. ti[x] = "none" /\ \E v \in {"none", "failed"} : ti' = [ti EXCEPT ![x] = v]
      BY <1>1 DEF GiveUpTask, Runnable
    <2>3. TasksFrame
      BY <2>2, TaskFacts DEF TasksFrame, TypeOK
    <2> QED
      BY <2>1, <2>3, SourcesUnchanged DEF Frame, PlansFrame, GroupsFrame, planVars
  <1>2. ASSUME NEW s \in Stage, NEW i \in DOMAIN inst[s], GiveUpInstance(s, i)
        PROVE  Frame
    <2>1. /\ UNCHANGED <<source, ti, planVars, group>>
          /\ inst' = [inst EXCEPT ![s] = [@ EXCEPT ![i] = GivenUp(inst[s][i])]]
      BY <1>2 DEF GiveUpInstance
    <2>2. GroupsFrame
      BY <2>1, FrameInstance
    <2> QED
      BY <2>1, <2>2, SourcesUnchanged DEF Frame, TasksFrame, PlansFrame, planVars
  <1>3. ASSUME UNCHANGED <<source, ti, planVars, group, inst>>
        PROVE  Frame
    BY <1>3, SourcesUnchanged DEF Frame, TasksFrame, PlansFrame, GroupsFrame, planVars
  <1> QED
    BY <1>1, <1>2, <1>3 DEF FaultStep, LateWrite, LateSinkWrite, LateCommit

LEMMA FrameSchedulerStep ==
    ASSUME TypeOK, SchedulerStep
    PROVE  Frame
  <1>1. ASSUME NEW s \in Stage, ExpandStage(s)
        PROVE  Frame
    <2>1. UNCHANGED <<source, ti, planVars>>
      BY <1>1 DEF ExpandStage
    <2>2. \A u \in Stage \ {s} : inst'[u] = inst[u] /\ group'[u] = group[u]
      BY <1>1 DEF ExpandStage, TypeOK
    <2>3. GroupsFrame
      BY <1>1, <2>2 DEF GroupsFrame
    <2> QED
      BY <2>1, <2>3, SourcesUnchanged DEF Frame, TasksFrame, PlansFrame, planVars
  <1>2. ASSUME NEW s \in Stage, PropagateToStage(s)
        PROVE  Frame
    <2>1. UNCHANGED <<source, ti, planVars, inst>>
      BY <1>2 DEF PropagateToStage
    <2>2. GroupsFrame
      BY <1>2 DEF GroupsFrame, PropagateToStage, TypeOK
    <2> QED
      BY <2>1, <2>2, SourcesUnchanged DEF Frame, TasksFrame, PlansFrame, planVars
  <1>3. ASSUME NEW x \in Task, Propagate(x)
        PROVE  Frame
    <2>1. UNCHANGED <<source, planVars, group, inst>>
      BY <1>3 DEF Propagate
    <2>2. /\ ti[x] = "none"
          /\ \E v \in {"upstream_failed", "skipped"} : ti' = [ti EXCEPT ![x] = v]
      BY <1>3 DEF Propagate
    <2>3. TasksFrame
      BY <2>2, TaskFacts DEF TasksFrame, TypeOK
    <2> QED
      BY <2>1, <2>3, SourcesUnchanged DEF Frame, PlansFrame, GroupsFrame, planVars
  <1>4. ASSUME NEW s \in Stage, NEW i \in DOMAIN inst[s], SettleFailure(s, i)
        PROVE  Frame
    <2>1. /\ UNCHANGED <<source, ti, planVars, group>>
          /\ \E r : inst' = [inst EXCEPT ![s] = [@ EXCEPT ![i] = r]]
      BY <1>4 DEF SettleFailure
    <2>2. GroupsFrame
      BY <2>1, FrameInstance
    <2> QED
      BY <2>1, <2>2, SourcesUnchanged DEF Frame, TasksFrame, PlansFrame, planVars
  <1> QED
    BY <1>1, <1>2, <1>3, <1>4 DEF SchedulerStep

LEMMA FrameStep ==
    ASSUME TypeOK, [Next]_vars
    PROVE  Frame
  <1>1. CASE Grow
    <2>1. UNCHANGED <<ti, planVars, group, inst>>
      BY <1>1 DEF Grow
    <2>2. PICK t \in Table : \E rows \in SUBSET Row :
            source' = [source EXCEPT ![t] = Append(@, rows)]
      BY <1>1, SourceAssumption DEF Grow, AppendPartition
    <2>3. \A u \in Table : source[u] \in Seq(SUBSET Row)
      BY DEF TypeOK
    <2>4. \A u \in Table : u # t => source'[u] = source[u]
      BY <2>2 DEF TypeOK
    <2>5. PICK rows \in SUBSET Row : source'[t] = Append(source[t], rows)
      BY <2>2 DEF TypeOK
    <2>6. SourcesFrame
      BY <2>3, <2>4, <2>5 DEF SourcesFrame
    <2> QED
      BY <2>1, <2>6 DEF Frame, TasksFrame, PlansFrame, GroupsFrame, planVars
  <1>2. CASE UNCHANGED vars
    BY <1>2, SourcesUnchanged
       DEF Frame, TasksFrame, PlansFrame, GroupsFrame, vars, planVars
  <1> QED
    BY <1>1, <1>2, FramePlannerStep, FrameInstanceStep, FrameSchedulerStep, FrameFaultStep
       DEF Next, Progress, Done

-----------------------------------------------------------------------------
(* The planners' part of the invariant *)

LEMMA PlanningInit == Init => PlanningInv
  <1> SUFFICES ASSUME Init PROVE PlanningInv
    OBVIOUS
  <1>1. PlannersInOrder
    BY TaskFacts DEF Init, PlannersInOrder
  <1>2. ListingValid
    BY NoEntriesPartial DEF Init, ListingValid
  <1>3. GroupsFollowPlans
    BY NoEntriesPartial DEF Init, GroupsFollowPlans
  <1> QED
    BY <1>1, <1>2, <1>3 DEF PlanningInv

\* A listing is made after the width of the shuffle is settled.
LEMMA PreparedAfterWidth ==
    ASSUME NEW t \in Table, Prepare(t), "plan_width" \in Task
    PROVE  ti["plan_width"] = "success" /\ width' = width
  BY TaskFacts DEF Prepare, Runnable, Upstream, Accepted, TriggerRule

LEMMA NumBucketsSettled ==
    ASSUME TypeOK, PlanningInv, Frame, NEW t \in Table, ti[t] = "success"
    PROVE  NumBuckets(t)' = NumBuckets(t)
  <1>1. CASE "plan_width" \in Task
    <2>1. width' = width
      BY <1>1 DEF PlanningInv, PlannersInOrder, Frame, PlansFrame
    <2> QED
      BY <2>1 DEF NumBuckets
  <1>2. CASE "plan_width" \notin Task
    BY <1>2, TaskFacts DEF NumBuckets, Scan
  <1> QED
    BY <1>1, <1>2

LEMMA PlanningStep ==
    ASSUME TypeOK, PlanningInv, [Next]_vars
    PROVE  PlanningInv'
  <1>1. Frame
    BY FrameStep
  <1>2. PlannersInOrder'
    <2> SUFFICES ASSUME NEW t \in Table, ti'[t] = "success", "plan_width" \in Task
                 PROVE  ti'["plan_width"] = "success"
      BY DEF PlannersInOrder
    <2>1. ti["plan_width"] = "success"
      <3>1. CASE Prepare(t)
        BY <3>1, PreparedAfterWidth
      <3>2. CASE ti[t] = "success"
        BY <3>2 DEF PlanningInv, PlannersInOrder
      <3> QED
        BY <1>1, <3>1, <3>2 DEF Frame, TasksFrame
    <2> QED
      BY <1>1, <2>1 DEF Frame, TasksFrame
  <1>3. ListingValid'
    <2> SUFFICES ASSUME NEW t \in Table
                 PROVE  /\ ti'[t] # "success" => DOMAIN listing'[t] = {}
                        /\ \A i \in DOMAIN listing'[t] :
                             /\ listing'[t][i] =
                                  [ref |-> i + 1, num_buckets |-> NumBuckets(t)']
                             /\ i + 1 <= Len(source'[t])
      BY DEF ListingValid
    <2>1. CASE Prepare(t)
      <3>1. ti'[t] = "success" /\ source' = source
        BY <2>1, TaskFacts DEF Prepare, Succeed, TypeOK
      <3>2. NumBuckets(t)' = NumBuckets(t)
        BY <2>1 DEF Prepare, NumBuckets
      <3>3. listing'[t] = [i \in 0..(Len(source[t]) - 1) |->
                             [ref |-> i + 1, num_buckets |-> NumBuckets(t)]]
        BY <2>1 DEF Prepare, TypeOK
      <3>4. Len(source[t]) \in Nat
        BY DEF TypeOK
      <3> QED
        BY <3>1, <3>2, <3>3, <3>4
    <2>2. CASE ~Prepare(t)
      <3>1. listing'[t] = listing[t] /\ (ti[t] = "success" => ti'[t] = "success")
        BY <1>1, <2>2, TaskFacts DEF Frame, PlansFrame, TasksFrame
      <3>2. ti[t] # "success" => DOMAIN listing[t] = {}
        BY DEF PlanningInv, ListingValid
      <3>3. ASSUME NEW i \in DOMAIN listing[t]
            PROVE  /\ listing'[t][i] = [ref |-> i + 1, num_buckets |-> NumBuckets(t)']
                   /\ i + 1 <= Len(source'[t])
        <4>1. ti[t] = "success"
          BY <3>2
        <4>2. NumBuckets(t)' = NumBuckets(t)
          BY <1>1, <4>1, NumBucketsSettled
        <4>3. /\ listing[t][i] = [ref |-> i + 1, num_buckets |-> NumBuckets(t)]
              /\ i + 1 <= Len(source[t])
          BY DEF PlanningInv, ListingValid
        <4>4. Len(source[t]) <= Len(source'[t])
          BY <1>1 DEF Frame, SourcesFrame
        <4>5. i \in Nat /\ Len(source[t]) \in Nat /\ Len(source'[t]) \in Nat
          BY TypeStep DEF TypeOK, IsPartial
        <4> QED
          BY <3>1, <4>2, <4>3, <4>4, <4>5
      <3> QED
        BY <3>1, <3>2, <3>3
    <2> QED
      BY <2>1, <2>2
  <1>4. GroupsFollowPlans'
    <2> SUFFICES ASSUME NEW s \in Stage
                 PROVE  /\ group'[s] # "expanded" => DOMAIN inst'[s] = {}
                        /\ group'[s] = "expanded" =>
                             /\ ti'[PlannerOf(s)] = "success"
                             /\ DOMAIN inst'[s] = DOMAIN Kwargs(s)'
      BY DEF GroupsFollowPlans, PlannerOf
    <2>0. ti[PlannerOf(s)] = "success" =>
            ti'[PlannerOf(s)] = "success" /\ DOMAIN Kwargs(s)' = DOMAIN Kwargs(s)
      <3> SUFFICES ASSUME ti[PlannerOf(s)] = "success"
                   PROVE  ti'[PlannerOf(s)] = "success" /\ Kwargs(s)' = Kwargs(s)
        OBVIOUS
      <3>1. ti'[PlannerOf(s)] = "success"
        BY <1>1, StageFacts DEF Frame, TasksFrame
      <3>2. CASE SourceFed(s)
        <4>1. SourceOf(s) \in Table /\ ti[SourceOf(s)] = "success"
          BY <3>2, StageFacts
        <4>2. ~Prepare(SourceOf(s))
          BY <4>1 DEF Prepare, Runnable
        <4>3. listing'[SourceOf(s)] = listing[SourceOf(s)]
          BY <1>1, <4>1, <4>2 DEF Frame, PlansFrame
        <4> QED
          BY <3>1, <3>2, <4>3 DEF Kwargs
      <3>3. CASE ~SourceFed(s)
        <4>1. ~Gather
          BY <3>3, StageFacts DEF Gather, Runnable
        <4> QED
          BY <1>1, <3>1, <3>3, <4>1 DEF Frame, PlansFrame, Kwargs
      <3> QED
        BY <3>2, <3>3
    <2>1. CASE ExpandStage(s)
      <3>1. /\ ti[PlannerOf(s)] = "success"
            /\ group' = [group EXCEPT ![s] = IF DOMAIN Kwargs(s) = {} THEN "skipped" ELSE "expanded"]
            /\ inst' = [inst EXCEPT ![s] = [i \in DOMAIN Kwargs(s) |-> NewInstance]]
        BY <2>1 DEF ExpandStage
      <3>2. DOMAIN inst'[s] = DOMAIN Kwargs(s)
        BY <3>1 DEF TypeOK
      <3>3. group'[s] = IF DOMAIN Kwargs(s) = {} THEN "skipped" ELSE "expanded"
        BY <3>1 DEF TypeOK
      <3> QED
        BY <2>0, <3>1, <3>2, <3>3
    <2>2. CASE ~ExpandStage(s)
      <3>1. DOMAIN inst'[s] = DOMAIN inst[s] /\ (group'[s] = "expanded" <=> group[s] = "expanded")
        BY <1>1, <2>2 DEF Frame, GroupsFrame
      <3> QED
        BY <2>0, <3>1 DEF PlanningInv, GroupsFollowPlans
    <2> QED
      BY <2>1, <2>2
  <1> QED
    BY <1>2, <1>3, <1>4 DEF PlanningInv

\* Type correctness: in every state of every run each variable has its type;
\* in particular the width that the scans shuffle into is in 1..num_buckets
\* and every planned path is that of a bucket file.
THEOREM TypeCorrect == Spec => []TypeOK
  <1>1. Init => TypeOK /\ PlanningInv
    BY TypeInit, PlanningInit
  <1>2. TypeOK /\ PlanningInv /\ [Next]_vars => (TypeOK /\ PlanningInv)'
    BY TypeStep, PlanningStep
  <1> QED
    BY <1>1, <1>2, PTL DEF Spec

\* What the planners hand out stays valid while the sources grow and attempts
\* die: a listing names existing data files in order, made after the width was
\* settled, and a mapped group has one instance per entry of its plan.
THEOREM PlanningCorrect == Spec => []PlanningInv
  <1>1. Init => TypeOK /\ PlanningInv
    BY TypeInit, PlanningInit
  <1>2. TypeOK /\ PlanningInv /\ [Next]_vars => (TypeOK /\ PlanningInv)'
    BY TypeStep, PlanningStep
  <1> QED
    BY <1>1, <1>2, PTL DEF Spec


-----------------------------------------------------------------------------
(* What a step can do to an instance, and to the files on disk *)

\* The ways in which instance i of stage s comes to be what it is after a step.
InstanceChange(s, i) ==
    \/ ExpandStage(s) /\ inst'[s][i] = NewInstance
    \/ i \in DOMAIN inst[s] /\ inst'[s][i] = inst[s][i]
    \/ /\ i \in DOMAIN inst[s]
       /\ \/ /\ Read(s, i)
             /\ inst'[s][i] = [inst[s][i] EXCEPT !.pc = "compute", !.tries = 0,
                                                 !.scratch = InputOf(s, i)]
          \/ /\ ComputeResult(s, i)
             /\ inst'[s][i] = [inst[s][i] EXCEPT !.pc = "write", !.tries = 0,
                                   !.result = StageSql(s, inst[s][i].scratch)]
          \/ /\ WriteBuckets(s, i)
             /\ inst'[s][i] = [inst[s][i] EXCEPT !.pc = "success",
                                                 !.files = FilesWritten(s, i)]
          \/ /\ s = Sink /\ WriteToSink(i)
             /\ inst'[s][i] = [inst[s][i] EXCEPT !.pc = "success"]
          \/ /\ SettleFailure(s, i)
             /\ inst'[s][i] = [inst[s][i] EXCEPT !.pc = "failed"]
          \/ /\ GiveUpInstance(s, i)
             /\ inst'[s][i] = GivenUp(inst[s][i])

\* A step that makes instance i of stage s into r leaves the others alone.
Becomes(s, i, r) == inst' = [inst EXCEPT ![s] = [@ EXCEPT ![i] = r]]

LEMMA OneInstanceChanged ==
    ASSUME TypeOK, NEW s \in Stage, NEW i \in DOMAIN inst[s], NEW r,
           Becomes(s, i, r),
           NEW u \in Stage, NEW j \in DOMAIN inst'[u]
    PROVE  /\ j \in DOMAIN inst[u]
           /\ u = s /\ j = i => inst'[u][j] = r
           /\ ~(u = s /\ j = i) => inst'[u][j] = inst[u][j]
  <1>1. DOMAIN inst = Stage
    BY DEF TypeOK
  <1>2. CASE u = s
    BY <1>1, <1>2 DEF Becomes
  <1>3. CASE u # s
    BY <1>1, <1>3 DEF Becomes
  <1> QED
    BY <1>2, <1>3

LEMMA InstanceSteps ==
    ASSUME TypeOK, [Next]_vars, NEW u \in Stage, NEW j \in DOMAIN inst'[u]
    PROVE  InstanceChange(u, j)
  <1> USE DEF InstanceChange
  <1>1. ASSUME NEW s \in Stage, NEW i \in DOMAIN inst[s], Read(s, i)
        PROVE  InstanceChange(u, j)
    <2> DEFINE r == [inst[s][i] EXCEPT !.pc = "compute", !.tries = 0,
                                       !.scratch = InputOf(s, i)]
    <2>1. Becomes(s, i, r)
      BY <1>1 DEF Read, Becomes
    <2>2. /\ j \in DOMAIN inst[u]
          /\ u = s /\ j = i => inst'[u][j] = r
          /\ ~(u = s /\ j = i) => inst'[u][j] = inst[u][j]
      BY <2>1, OneInstanceChanged
    <2> QED
      BY <1>1, <2>2, Zenon
  <1>2. ASSUME NEW s \in Stage, NEW i \in DOMAIN inst[s], ComputeResult(s, i)
        PROVE  InstanceChange(u, j)
    <2> DEFINE r == [inst[s][i] EXCEPT !.pc = "write", !.tries = 0,
                                       !.result = StageSql(s, inst[s][i].scratch)]
    <2>1. Becomes(s, i, r)
      BY <1>2 DEF ComputeResult, Becomes
    <2>2. /\ j \in DOMAIN inst[u]
          /\ u = s /\ j = i => inst'[u][j] = r
          /\ ~(u = s /\ j = i) => inst'[u][j] = inst[u][j]
      BY <2>1, OneInstanceChanged
    <2> QED
      BY <1>2, <2>2, Zenon
  <1>3. ASSUME NEW s \in Scan, NEW i \in DOMAIN inst[s], WriteBuckets(s, i)
        PROVE  InstanceChange(u, j)
    <2> DEFINE r == [inst[s][i] EXCEPT !.pc = "success", !.files = FilesWritten(s, i)]
    <2>0. s \in Stage
      BY TableFacts
    <2>1. Becomes(s, i, r)
      BY <1>3 DEF WriteBuckets, Becomes
    <2>2. /\ j \in DOMAIN inst[u]
          /\ u = s /\ j = i => inst'[u][j] = r
          /\ ~(u = s /\ j = i) => inst'[u][j] = inst[u][j]
      <3> HIDE DEF r
      <3> QED
        BY <2>0, <2>1, OneInstanceChanged, Zenon
    <2> QED
      BY <1>3, <2>2, Zenon
  <1>4. ASSUME NEW i \in DOMAIN inst[Sink], WriteToSink(i)
        PROVE  InstanceChange(u, j)
    <2> DEFINE r == [inst[Sink][i] EXCEPT !.pc = "success"]
    <2>1. Becomes(Sink, i, r) /\ Sink \in Stage
      BY <1>4, TableFacts DEF WriteToSink, Becomes
    <2>2. /\ j \in DOMAIN inst[u]
          /\ u = Sink /\ j = i => inst'[u][j] = r
          /\ ~(u = Sink /\ j = i) => inst'[u][j] = inst[u][j]
      BY <2>1, OneInstanceChanged
    <2> QED
      BY <1>4, <2>2, Zenon
  <1>5. ASSUME NEW s \in Stage, NEW i \in DOMAIN inst[s], SettleFailure(s, i)
        PROVE  InstanceChange(u, j)
    <2> DEFINE r == [inst[s][i] EXCEPT !.pc = "failed"]
    <2>1. Becomes(s, i, r)
      BY <1>5 DEF SettleFailure, Becomes
    <2>2. /\ j \in DOMAIN inst[u]
          /\ u = s /\ j = i => inst'[u][j] = r
          /\ ~(u = s /\ j = i) => inst'[u][j] = inst[u][j]
      BY <2>1, OneInstanceChanged
    <2> QED
      BY <1>5, <2>2, Zenon
  <1>6. ASSUME NEW s \in Stage, NEW i \in DOMAIN inst[s], GiveUpInstance(s, i)
        PROVE  InstanceChange(u, j)
    <2> DEFINE r == GivenUp(inst[s][i])
    <2>1. Becomes(s, i, r)
      BY <1>6 DEF GiveUpInstance, Becomes
    <2>2. /\ j \in DOMAIN inst[u]
          /\ u = s /\ j = i => inst'[u][j] = r
          /\ ~(u = s /\ j = i) => inst'[u][j] = inst[u][j]
      BY <2>1, OneInstanceChanged
    <2> QED
      BY <1>6, <2>2, Zenon
  <1>7. ASSUME NEW s \in Stage, ExpandStage(s)
        PROVE  InstanceChange(u, j)
    <2>1. inst' = [inst EXCEPT ![s] = [i \in DOMAIN Kwargs(s) |-> NewInstance]]
      BY <1>7 DEF ExpandStage
    <2>2. inst'[s] = [i \in DOMAIN Kwargs(s) |-> NewInstance]
          /\ (u # s => inst'[u] = inst[u])
      BY <2>1 DEF TypeOK
    <2>3. CASE u = s
      BY <1>7, <2>2, <2>3
    <2>4. CASE u # s
      BY <2>2, <2>4
    <2> QED
      BY <2>3, <2>4
  <1>8. ASSUME inst' = inst
        PROVE  InstanceChange(u, j)
    BY <1>8
  <1> HIDE DEF InstanceChange
  <1>9. CASE PlannerStep \/ Grow \/ Done \/ UNCHANGED vars
    BY <1>8, <1>9
       DEF PlannerStep, MakeWorkDir, PlanWidth, Prepare, Gather, Finalize, Grow, Done, vars
  <1>10. CASE InstanceStep
    BY <1>1, <1>2, <1>3, <1>4, <1>10 DEF InstanceStep
  <1>11. CASE SchedulerStep
    BY <1>5, <1>7, <1>8, <1>11 DEF SchedulerStep, PropagateToStage, Propagate
  <1>12. CASE FaultStep
    BY <1>6, <1>8, <1>12 DEF FaultStep, GiveUpTask, LateWrite, LateSinkWrite, LateCommit
  <1> QED
    BY <1>9, <1>10, <1>11, <1>12 DEF Next, Progress

\* Files appear on disk by being written, and are not removed.
LEMMA DiskSteps ==
    ASSUME TypeOK, [Next]_vars
    PROVE  /\ DOMAIN disk \subseteq DOMAIN disk'
           /\ \A p \in DOMAIN disk' :
                \/ p \in DOMAIN disk /\ disk'[p] = disk[p]
                \/ \E s \in Scan : \E i \in DOMAIN inst[s] : \E b \in DOMAIN Buckets(s, i) :
                     /\ p = BucketFile(s, i, b)
                     /\ disk'[p] = Buckets(s, i)[b]
                     /\ InPhase(s, i, "write") \/ inst[s][i].late
  <1> DEFINE Written(p) ==
               \E s \in Scan : \E i \in DOMAIN inst[s] : \E b \in DOMAIN Buckets(s, i) :
                 /\ p = BucketFile(s, i, b)
                 /\ disk'[p] = Buckets(s, i)[b]
                 /\ InPhase(s, i, "write") \/ inst[s][i].late
  <1> SUFFICES /\ DOMAIN disk \subseteq DOMAIN disk'
               /\ \A p \in DOMAIN disk' :
                    (p \in DOMAIN disk /\ disk'[p] = disk[p]) \/ Written(p)
    OBVIOUS
  <1>1. ASSUME NEW s \in Scan, NEW i \in DOMAIN inst[s], WriteBuckets(s, i)
        PROVE  /\ DOMAIN disk \subseteq DOMAIN disk'
               /\ \A p \in DOMAIN disk' :
                    (p \in DOMAIN disk /\ disk'[p] = disk[p]) \/ Written(p)
    <2>1. /\ InPhase(s, i, "write")
          /\ disk' = Overwrite(disk, [p \in {BucketFile(s, i, b) : b \in DOMAIN Buckets(s, i)}
                                        |-> Buckets(s, i)[p.bucket]])
      BY <1>1 DEF WriteBuckets
    <2>2. \A b : BucketFile(s, i, b).bucket = b
      BY DEF BucketFile
    <2> QED
      BY <2>1, <2>2 DEF Overwrite
  <1>2. ASSUME NEW s \in Scan, NEW i \in DOMAIN inst[s], LateWrite(s, i)
        PROVE  /\ DOMAIN disk \subseteq DOMAIN disk'
               /\ \A p \in DOMAIN disk' :
                    (p \in DOMAIN disk /\ disk'[p] = disk[p]) \/ Written(p)
    <2>1. inst[s][i].late
      BY <1>2 DEF LateWrite
    <2>2. PICK b \in DOMAIN Buckets(s, i) :
            disk' = Overwrite(disk, [p \in {BucketFile(s, i, b)} |-> Buckets(s, i)[b]])
      BY <1>2 DEF LateWrite
    <2> QED
      BY <2>1, <2>2 DEF Overwrite
  <1>3. CASE disk' = disk
    BY <1>3
  <1> HIDE DEF Written
  <1>4. CASE PlannerStep \/ Grow \/ Done \/ UNCHANGED vars
    BY <1>3, <1>4
       DEF PlannerStep, MakeWorkDir, PlanWidth, Prepare, Gather, Finalize, Grow, Done, vars
  <1>5. CASE InstanceStep
    BY <1>1, <1>3, <1>5 DEF InstanceStep, Read, ComputeResult, WriteToSink
  <1>6. CASE SchedulerStep
    BY <1>3, <1>6
       DEF SchedulerStep, ExpandStage, PropagateToStage, Propagate, SettleFailure
  <1>7. CASE FaultStep
    BY <1>2, <1>3, <1>7
       DEF FaultStep, GiveUpTask, GiveUpInstance, LateSinkWrite, LateCommit
  <1> QED
    BY <1>4, <1>5, <1>6, <1>7 DEF Next, Progress

-----------------------------------------------------------------------------
(* The map side *)

LEMMA ScanFacts ==
    ASSUME TypeOK, PlanningInv, NEW s \in Scan, NEW i \in DOMAIN inst[s]
    PROVE  /\ s \in Stage /\ s \in Table /\ s # Sink
           /\ SourceFed(s) /\ SourceOf(s) = s
           /\ group[s] = "expanded" /\ ti[s] = "success"
           /\ i \in Nat /\ i \in DOMAIN listing[s]
           /\ listing[s][i] = [ref |-> i + 1, num_buckets |-> NumBuckets(s)]
           /\ i + 1 \in 1..Len(source[s])
  <1>1. s \in Stage /\ s \in Table /\ s # Sink
    BY TableFacts
  <1>2. SourceFed(s) /\ SourceOf(s) = s /\ PlannerOf(s) = s
    BY <1>1, StageFacts
  <1>3. group[s] = "expanded" /\ ti[s] = "success" /\ i \in DOMAIN listing[s]
    BY <1>1, <1>2 DEF PlanningInv, GroupsFollowPlans, Kwargs
  <1>4. i \in Nat /\ Len(source[s]) \in Nat
    BY <1>1, InstanceType DEF TypeOK
  <1> QED
    BY <1>1, <1>2, <1>3, <1>4 DEF PlanningInv, ListingValid

\* What a listed data file holds, and how it is split, is settled for the run.
LEMMA ShardsSettled ==
    ASSUME TypeOK, PlanningInv, Frame, NEW s \in Scan, NEW i \in DOMAIN inst[s]
    PROVE  /\ listing'[s] = listing[s]
           /\ source'[s][listing'[s][i].ref] = source[s][listing[s][i].ref]
           /\ ScanOutput(s, i)' = ScanOutput(s, i)
           /\ Shards(s, i)' = Shards(s, i)
           /\ ShardFiles(s, i)' = ShardFiles(s, i)
  <1>1. listing'[s] = listing[s]
    <2>1. ~Prepare(s)
      BY ScanFacts DEF Prepare, Runnable
    <2> QED
      BY <2>1, ScanFacts DEF Frame, PlansFrame
  <1>2. source'[s][listing'[s][i].ref] = source[s][listing[s][i].ref]
    <2>1. listing[s][i] = [ref |-> i + 1, num_buckets |-> NumBuckets(s)]
          /\ i + 1 \in 1..Len(source[s]) /\ s \in Table
      BY ScanFacts
    <2>2. listing[s][i].ref \in 1..Len(source[s])
      BY <2>1
    <2>3. \A k \in 1..Len(source[s]) : source'[s][k] = source[s][k]
      BY <2>1 DEF Frame, SourcesFrame
    <2> QED
      BY <1>1, <2>2, <2>3
  <1>3. ScanOutput(s, i)' = ScanOutput(s, i)
    BY <1>1, <1>2 DEF ScanOutput
  <1>4. Shards(s, i)' = Shards(s, i)
    BY <1>1, <1>3 DEF Shards
  <1>5. ShardFiles(s, i)' = ShardFiles(s, i)
    BY <1>4 DEF ShardFiles
  <1> QED
    BY <1>1, <1>2, <1>3, <1>4, <1>5

\* An attempt writes the shards of its data file, on time or late.
LEMMA WritesShards ==
    ASSUME MapSideInv, NEW s \in Scan, NEW i \in DOMAIN inst[s],
           inst[s][i].pc = "write" \/ inst[s][i].late
    PROVE  Buckets(s, i) = Shards(s, i) /\ FilesWritten(s, i) = ShardFiles(s, i)
  <1>1. inst[s][i].result = ScanOutput(s, i)
    BY DEF MapSideInv, ScanInstanceValid
  <1>2. Buckets(s, i) = Shards(s, i)
    BY <1>1 DEF Buckets, Shards
  <1> QED
    BY <1>2 DEF FilesWritten, ShardFiles

LEMMA MapSideInit == Init => MapSideInv
  BY NoEntriesPartial, TableFacts DEF Init, MapSideInv

LEMMA ScanInstanceStep ==
    ASSUME TypeOK, PlanningInv, MapSideInv, [Next]_vars,
           NEW s \in Scan, NEW i \in DOMAIN inst'[s]
    PROVE  ScanInstanceValid(s, i)'
  <1> DEFINE r == inst[s][i]
             q == inst'[s][i]
             Valid == /\ q.pc = "compute" =>
                           q.scratch[s] = TuplesOf(source'[s][listing'[s][i].ref])
                      /\ (q.pc \in {"write", "success"} \/ q.late) =>
                           q.result = ScanOutput(s, i)'
                      /\ q.pc # "success" => q.files = {}
                      /\ q.pc = "success" =>
                           /\ q.files = ShardFiles(s, i)'
                           /\ {f.path : f \in ShardFiles(s, i)'} \subseteq DOMAIN disk'
  <1> SUFFICES Valid
    BY DEF ScanInstanceValid
  <1>1. s \in Stage /\ s \in Table /\ s # Sink
    BY TableFacts
  <1>2. InstanceChange(s, i)
    BY <1>1, InstanceSteps
  <1>3. CASE ExpandStage(s) /\ q = NewInstance
    BY <1>3 DEF NewInstance
  <1>4. ASSUME i \in DOMAIN inst[s]
        PROVE  /\ r \in Instance
               /\ r.pc = "compute" =>
                    r.scratch[s] = TuplesOf(source'[s][listing'[s][i].ref])
               /\ (r.pc \in {"write", "success"} \/ r.late) =>
                    r.result = ScanOutput(s, i)'
               /\ r.pc # "success" => r.files = {}
               /\ r.pc = "success" =>
                    /\ r.files = ShardFiles(s, i)'
                    /\ {f.path : f \in ShardFiles(s, i)'} \subseteq DOMAIN disk'
    <2>1. ScanInstanceValid(s, i)
      BY <1>4 DEF MapSideInv
    <2>2. Frame
      BY FrameStep
    <2>3. /\ source'[s][listing'[s][i].ref] = source[s][listing[s][i].ref]
          /\ ScanOutput(s, i)' = ScanOutput(s, i)
          /\ ShardFiles(s, i)' = ShardFiles(s, i)
      BY <1>4, <2>2, ShardsSettled
    <2>4. DOMAIN disk \subseteq DOMAIN disk'
      BY DiskSteps
    <2>5. r \in Instance
      BY <1>1, <1>4, InstanceType
    <2> QED
      BY <2>1, <2>3, <2>4, <2>5 DEF ScanInstanceValid
  <1>5. CASE i \in DOMAIN inst[s] /\ q = r
    BY <1>4, <1>5
  <1>6. ASSUME i \in DOMAIN inst[s], Read(s, i),
               q = [r EXCEPT !.pc = "compute", !.tries = 0, !.scratch = InputOf(s, i)]
        PROVE  Valid
    <2>1. r.pc = "read" /\ r \in Instance
      BY <1>4, <1>6 DEF Read, InPhase
    <2>2. /\ q.pc = "compute" /\ q.scratch = InputOf(s, i)
          /\ q.late = r.late /\ q.result = r.result /\ q.files = r.files
      BY <1>6, <2>1 DEF Instance
    <2>3. InputOf(s, i)[s] = TuplesOf(source[s][listing[s][i].ref])
      BY <1>1, <1>6, ScanFacts DEF InputOf
    <2>4. source'[s][listing'[s][i].ref] = source[s][listing[s][i].ref]
      BY <1>6, FrameStep, ShardsSettled
    <2> HIDE DEF q, r
    <2> QED
      BY <1>4, <1>6, <2>1, <2>2, <2>3, <2>4
  <1>7. ASSUME i \in DOMAIN inst[s], ComputeResult(s, i),
               q = [r EXCEPT !.pc = "write", !.tries = 0, !.result = StageSql(s, r.scratch)]
        PROVE  Valid
    <2>1. r.pc = "compute" /\ r \in Instance
      BY <1>4, <1>7 DEF ComputeResult, InPhase
    <2>2. /\ q.pc = "write" /\ q.result = StageSql(s, r.scratch) /\ q.files = r.files
      BY <1>7, <2>1 DEF Instance
    <2>3. StageSql(s, r.scratch) = ScanSql(r.scratch[s])
      BY <1>1 DEF StageSql
    <2>4. ScanOutput(s, i)' = ScanSql(TuplesOf(source'[s][listing'[s][i].ref]))
      BY DEF ScanOutput
    <2> HIDE DEF q, r
    <2> QED
      BY <1>4, <1>7, <2>1, <2>2, <2>3, <2>4
  <1>8. ASSUME i \in DOMAIN inst[s], WriteBuckets(s, i),
               q = [r EXCEPT !.pc = "success", !.files = FilesWritten(s, i)]
        PROVE  Valid
    <2>1. r.pc = "write" /\ r \in Instance
      BY <1>4, <1>8 DEF WriteBuckets, InPhase
    <2>2. /\ q.pc = "success" /\ q.result = r.result /\ q.files = FilesWritten(s, i)
      BY <1>8, <2>1 DEF Instance
    <2>3. FilesWritten(s, i) = ShardFiles(s, i)'
      BY <1>8, <2>1, FrameStep, ShardsSettled, WritesShards
    <2>4. {f.path : f \in FilesWritten(s, i)} \subseteq DOMAIN disk'
      BY <1>8 DEF WriteBuckets, FilesWritten, Overwrite
    <2> HIDE DEF q, r
    <2> QED
      BY <1>4, <1>8, <2>1, <2>2, <2>3, <2>4
  <1>9. ASSUME i \in DOMAIN inst[s], SettleFailure(s, i), q = [r EXCEPT !.pc = "failed"]
        PROVE  Valid
    <2>1. r.pc = "failing" /\ r \in Instance
      BY <1>4, <1>9 DEF SettleFailure, InPhase
    <2>2. /\ q.pc = "failed" /\ q.late = r.late /\ q.result = r.result
          /\ q.files = r.files
      BY <1>9, <2>1 DEF Instance
    <2> HIDE DEF q, r
    <2> QED
      BY <1>4, <1>9, <2>1, <2>2
  <1>10. ASSUME i \in DOMAIN inst[s], GiveUpInstance(s, i), q = GivenUp(r)
         PROVE  Valid
    <2>1. r.pc \in {"read", "compute", "write"} /\ r \in Instance
      BY <1>4, <1>10 DEF GiveUpInstance, InPhase
    <2>2. /\ q.pc \in {r.pc, "failed", "failing"}
          /\ q.late => r.late \/ r.pc = "write"
          /\ q.scratch = r.scratch /\ q.result = r.result /\ q.files = r.files
      BY <1>10, <2>1 DEF GivenUp, PhaseAfterGiveUp, Instance
    <2> HIDE DEF q, r
    <2> QED
      BY <1>4, <1>10, <2>1, <2>2
  <1> HIDE DEF Valid
  <1> QED
    BY <1>1, <1>2, <1>3, <1>5, <1>6, <1>7, <1>8, <1>9, <1>10 DEF InstanceChange

LEMMA MapSideStep ==
    ASSUME TypeOK, PlanningInv, MapSideInv, [Next]_vars
    PROVE  MapSideInv'
  <1>1. Frame
    BY FrameStep
  <1>2. \A s \in Scan : \A i \in DOMAIN inst'[s] : ScanInstanceValid(s, i)'
    BY ScanInstanceStep
  <1>3. ASSUME NEW s \in Scan, NEW i \in DOMAIN inst[s]
        PROVE  i \in DOMAIN inst'[s] /\ Shards(s, i)' = Shards(s, i)
    <2>1. ~ExpandStage(s) /\ s \in Stage
      BY ScanFacts DEF ExpandStage
    <2> QED
      BY <1>1, <2>1, ShardsSettled DEF Frame, GroupsFrame
  <1>4. ASSUME NEW p \in DOMAIN disk'
        PROVE  FileValid(p)'
    <2>1. CASE p \in DOMAIN disk /\ disk'[p] = disk[p]
      <3>1. FileValid(p)
        BY <2>1 DEF MapSideInv
      <3> QED
        BY <1>3, <2>1, <3>1 DEF FileValid
    <2>2. ASSUME NEW s \in Scan, NEW i \in DOMAIN inst[s], NEW b \in DOMAIN Buckets(s, i),
                 p = BucketFile(s, i, b), disk'[p] = Buckets(s, i)[b],
                 InPhase(s, i, "write") \/ inst[s][i].late
          PROVE  FileValid(p)'
      <3>1. Buckets(s, i) = Shards(s, i)
        BY <2>2, WritesShards DEF InPhase
      <3>2. p.stage = s /\ p.part = i /\ p.bucket = b
        BY <2>2 DEF BucketFile
      <3> QED
        BY <1>3, <2>2, <3>1, <3>2 DEF FileValid
    <2> QED
      BY <2>1, <2>2, DiskSteps
  <1> QED
    BY <1>2, <1>4 DEF MapSideInv

\* Both scans of a join shuffle into one width.
LEMMA OneWidth ==
    ASSUME TypeOK, PlanningInv, NEW s \in Scan, NEW t \in Scan,
           NEW i \in DOMAIN inst[s], NEW j \in DOMAIN inst[t]
    PROVE  listing[s][i].num_buckets = listing[t][j].num_buckets
  <1>1. NumBuckets(s) = NumBuckets(t)
    BY DEF NumBuckets
  <1>2. /\ listing[s][i] = [ref |-> i + 1, num_buckets |-> NumBuckets(s)]
        /\ listing[t][j] = [ref |-> j + 1, num_buckets |-> NumBuckets(t)]
    BY ScanFacts
  <1>3. /\ listing[s][i].num_buckets = NumBuckets(s)
        /\ listing[t][j].num_buckets = NumBuckets(t)
    BY <1>2
  <1> QED
    BY <1>1, <1>3

LEMMA CoPartitionedFiles ==
    ASSUME TypeOK, PlanningInv, MapSideInv
    PROVE  CoPartitioned
  <1> SUFFICES ASSUME NEW p \in DOMAIN disk, NEW q \in DOMAIN disk,
                      NEW t \in disk[p], NEW u \in disk[q], t.key = u.key
               PROVE  p.bucket = q.bucket
    BY DEF CoPartitioned
  <1>1. FileValid(p) /\ FileValid(q)
    BY DEF MapSideInv
  <1> DEFINE n(f) == listing[f.stage][f.part].num_buckets
  <1>2. ASSUME NEW f \in DOMAIN disk, FileValid(f), NEW v \in disk[f]
        PROVE  f.bucket = BucketOf(v.key, n(f))
    BY <1>2 DEF FileValid, Shards, HashPartition
  <1>3. n(p) = n(q)
    BY <1>1, OneWidth DEF FileValid
  <1> HIDE DEF n
  <1> QED
    BY <1>1, <1>2, <1>3

-----------------------------------------------------------------------------
(* The reduce side *)

LEMMA GatherInit == Init => GatherInv
  BY NoEntriesPartial, TaskFacts DEF Init, GatherInv

\* A file that a scan reported stays reported, with what it said.
LEMMA WrittenStays ==
    ASSUME TypeOK, PlanningInv, [Next]_vars, NEW s \in Stage, AllWritten(s)
    PROVE  AllWritten(s)' /\ Reported(s)' = Reported(s)
  <1>2. ~ExpandStage(s)
    BY DEF AllWritten, ExpandStage
  <1>3. DOMAIN inst'[s] = DOMAIN inst[s] /\ group'[s] = "expanded"
    BY <1>2, FrameStep DEF Frame, GroupsFrame, AllWritten
  <1>4. \A i \in DOMAIN inst[s] : inst'[s][i] = inst[s][i]
    <2> SUFFICES ASSUME NEW i \in DOMAIN inst[s]
                 PROVE  inst'[s][i] = inst[s][i]
      OBVIOUS
    <2>1. InstanceChange(s, i)
      BY <1>3, InstanceSteps
    <2>2. inst[s][i].pc = "success"
      BY DEF AllWritten
    <2>3. ~Read(s, i) /\ ~ComputeResult(s, i) /\ ~WriteBuckets(s, i)
          /\ ~SettleFailure(s, i) /\ ~GiveUpInstance(s, i)
          /\ ~(s = Sink /\ WriteToSink(i))
      BY <2>2 DEF Read, ComputeResult, WriteBuckets, WriteToSink, SettleFailure,
                  GiveUpInstance, InPhase
    <2> QED
      BY <1>2, <2>1, <2>3 DEF InstanceChange
  <1> QED
    BY <1>3, <1>4 DEF AllWritten, Reported

\* gather_shuffle runs once every scan has been expanded and written.
LEMMA GatherAfterScans ==
    ASSUME TypeOK, Gather, NEW s \in Scan
    PROVE  AllWritten(s)
  <1>1. StageStates(s) \subseteq {"success"}
    BY TaskFacts DEF Gather, Runnable, Upstream, TriggerRule, Accepted
  <1>2. group[s] # "success"
    BY TableFacts DEF TypeOK
  <1>3. group[s] = "expanded"
    BY <1>1, <1>2 DEF StageStates
  <1>4. \A i \in DOMAIN inst[s] : WriteState(s, i) = "success"
    BY <1>1, <1>3 DEF StageStates
  <1> QED
    BY <1>3, <1>4 DEF AllWritten, WriteState

LEMMA GatherStep ==
    ASSUME TypeOK, PlanningInv, GatherInv, [Next]_vars
    PROVE  GatherInv'
  <1>1. Frame
    BY FrameStep
  <1> DEFINE files == [t \in Table |-> Reported(t)]
  <1>2. CASE Gather
    <2>1. "gather" \in Task /\ ti'["gather"] = "success" /\ inst' = inst /\ group' = group
      BY <1>2, TaskFacts DEF Gather, Runnable, Succeed, TypeOK
    <2>2. plan' = PlanFor(files)
      BY <1>2 DEF Gather, PlanFor
    <2>3. \A s \in Scan : AllWritten(s)'
      BY <1>2, <2>1, GatherAfterScans DEF AllWritten
    <2>4. \A t \in Table : Reported(t)' = Reported(t)
      BY <2>1 DEF Reported
    <2> QED
      BY <2>1, <2>2, <2>3, <2>4 DEF GatherInv, PlanFor
  <1>3. CASE ~Gather
    <2>1. plan' = plan
      BY <1>1, <1>3 DEF Frame, PlansFrame
    <2>2. CASE "gather" \in Task /\ ti["gather"] = "success"
      <3>1. ti'["gather"] = "success"
        BY <1>1, <2>2 DEF Frame, TasksFrame
      <3>2. Scan = Table
        BY <2>2, TableFacts, TaskFacts
      <3>3. \A s \in Scan : AllWritten(s) /\ plan = PlanFor(files)
        BY <2>2 DEF GatherInv
      <3>4. \A s \in Scan : AllWritten(s)' /\ Reported(s)' = Reported(s)
        BY <3>3, WrittenStays, TableFacts
      <3>5. plan = PlanFor(files)
        BY <2>2 DEF GatherInv
      <3> QED
        BY <2>1, <2>2, <3>1, <3>2, <3>4, <3>5 DEF GatherInv, PlanFor
    <2>3. CASE ~("gather" \in Task /\ ti["gather"] = "success")
      BY <1>1, <1>3, <2>1, <2>3 DEF GatherInv, Frame, TasksFrame
    <2> QED
      BY <2>2, <2>3
  <1> QED
    BY <1>2, <1>3

LEMMA ReportedOnDisk ==
    ASSUME MapSideInv, NEW s \in Scan, AllWritten(s)
    PROVE  AllPaths(Reported(s)) \subseteq DOMAIN disk
  <1>1. \A i \in DOMAIN inst[s] : \A f \in inst[s][i].files : f.path \in DOMAIN disk
    BY DEF MapSideInv, ScanInstanceValid, AllWritten
  <1> QED
    BY <1>1 DEF AllPaths, Reported

LEMMA PlannedFilesExist ==
    ASSUME TypeOK, MapSideInv, GatherInv
    PROVE  NoDoomedRead
  <1> SUFFICES ASSUME NEW i \in DOMAIN plan, NEW t \in Table
               PROVE  plan[i][t] # {} /\ plan[i][t] \subseteq DOMAIN disk
    BY DEF NoDoomedRead
  <1> DEFINE files == [u \in Table |-> Reported(u)]
  <1>1. Query # "passthrough" /\ (\A s \in Scan : AllWritten(s)) /\ plan = PlanFor(files)
    BY TaskFacts DEF GatherInv
  <1>2. Scan = Table
    BY <1>1, TableFacts
  <1>3. files = [u \in Table |-> files[u]] /\ files[t] = Reported(t)
    OBVIOUS
  <1>4. BroadcastThreshold \in Nat
    BY DagAssumption
  <1>5. AllPaths(Reported(t)) \subseteq DOMAIN disk
    BY <1>1, <1>2, ReportedOnDisk
  <1> HIDE DEF files
  <1>6. CASE Query = "join"
    <2>1. plan = ChooseJoinStrategy(files, BroadcastThreshold)
      BY <1>1, <1>6 DEF PlanFor
    <2> QED
      BY <1>3, <1>4, <1>5, <1>6, <2>1, ChooseJoinStrategyReads
  <1>7. CASE Query # "join"
    <2>1. plan = GatherMulti(files)
      BY <1>1, <1>7 DEF PlanFor
    <2> QED
      BY <1>3, <1>5, <2>1, GatherMultiReads
  <1> QED
    BY <1>6, <1>7

\* Whatever is written again on disk is what was there.
LEMMA DiskStable ==
    ASSUME TypeOK, PlanningInv, MapSideInv, [Next]_vars, NEW p \in DOMAIN disk
    PROVE  p \in DOMAIN disk' /\ disk'[p] = disk[p]
  <1>1. p \in DOMAIN disk'
    BY DiskSteps
  <1>2. FileValid(p) /\ FileValid(p)'
    BY <1>1, MapSideStep DEF MapSideInv
  <1>3. Shards(p.stage, p.part)' = Shards(p.stage, p.part)
    BY <1>2, FrameStep, ShardsSettled DEF FileValid
  <1> QED
    BY <1>1, <1>2, <1>3 DEF FileValid

\* What a sink instance is told to read is settled for the run.
LEMMA SinkInputSettled ==
    ASSUME TypeOK, PlanningInv, MapSideInv, GatherInv, [Next]_vars,
           NEW i \in DOMAIN inst[Sink]
    PROVE  InputOf(Sink, i)' = InputOf(Sink, i)
  <1>1. Frame
    BY FrameStep
  <1>2. Sink \in Stage
    BY TableFacts
  <1>3. ti[PlannerOf(Sink)] = "success" /\ i \in DOMAIN Kwargs(Sink)
    BY <1>2 DEF PlanningInv, GroupsFollowPlans
  <1>4. CASE SourceFed(Sink)
    <2>1. SourceOf(Sink) = Left /\ PlannerOf(Sink) = Left /\ Left \in Table
      BY <1>4, TableFacts, StageFacts DEF SourceOf
    <2>2. ~Prepare(Left)
      BY <1>3, <2>1 DEF Prepare, Runnable
    <2>3. listing'[Left] = listing[Left]
      BY <1>1, <2>1, <2>2 DEF Frame, PlansFrame
    <2>4. i \in DOMAIN listing[Left]
      BY <1>3, <1>4, <2>1 DEF Kwargs
    <2>5. /\ listing[Left][i] = [ref |-> i + 1, num_buckets |-> NumBuckets(Left)]
          /\ i + 1 <= Len(source[Left]) /\ i \in Nat /\ Len(source[Left]) \in Nat
      BY <1>2, <2>1, <2>4, InstanceType DEF PlanningInv, ListingValid, TypeOK
    <2>6. listing[Left][i].ref \in 1..Len(source[Left])
      BY <2>5
    <2>7. source'[Left][listing'[Left][i].ref] = source[Left][listing[Left][i].ref]
      BY <1>1, <2>1, <2>3, <2>6 DEF Frame, SourcesFrame
    <2>8. \A t \in Table : t = Left =>
            TuplesOf(source'[t][listing'[t][i].ref]) = TuplesOf(source[t][listing[t][i].ref])
      BY <2>7
    <2> QED
      BY <1>4, <2>1, <2>8 DEF InputOf
  <1>5. CASE ~SourceFed(Sink)
    <2>1. ti["gather"] = "success" /\ ~Gather /\ i \in DOMAIN plan
      BY <1>2, <1>3, <1>5, StageFacts DEF Gather, Runnable, Kwargs
    <2>2. plan' = plan
      BY <1>1, <2>1 DEF Frame, PlansFrame
    <2>3. \A t \in Table : \A p \in plan[i][t] : disk'[p] = disk[p]
      BY <2>1, PlannedFilesExist, DiskStable DEF NoDoomedRead
    <2>4. \A t \in Table : UNION {disk'[p] : p \in plan'[i][t]}
                             = UNION {disk[p] : p \in plan[i][t]}
      BY <2>2, <2>3
    <2> QED
      BY <1>5, <2>4 DEF InputOf
  <1> QED
    BY <1>4, <1>5

-----------------------------------------------------------------------------
(* The sink *)

LEMMA SinkDirSteps ==
    ASSUME TypeOK, [Next]_vars
    PROVE  /\ DOMAIN sinkDir \subseteq DOMAIN sinkDir'
           /\ \A i \in DOMAIN inst[Sink] : WriteToSink(i) => i \in DOMAIN sinkDir'
           /\ \A i \in DOMAIN sinkDir' :
                \/ i \in DOMAIN sinkDir /\ sinkDir'[i] = sinkDir[i]
                \/ /\ i \in DOMAIN inst[Sink]
                   /\ sinkDir'[i] = inst[Sink][i].result
                   /\ InPhase(Sink, i, "write") \/ inst[Sink][i].late
  <1> DEFINE Goal ==
               /\ DOMAIN sinkDir \subseteq DOMAIN sinkDir'
               /\ \A i \in DOMAIN sinkDir' :
                    \/ i \in DOMAIN sinkDir /\ sinkDir'[i] = sinkDir[i]
                    \/ /\ i \in DOMAIN inst[Sink]
                       /\ sinkDir'[i] = inst[Sink][i].result
                       /\ InPhase(Sink, i, "write") \/ inst[Sink][i].late
  <1>1. \A i \in DOMAIN inst[Sink] : WriteToSink(i) => i \in DOMAIN sinkDir'
    BY DEF WriteToSink, Overwrite
  <1> SUFFICES Goal
    BY <1>1
  <1>2. ASSUME NEW i \in DOMAIN inst[Sink], WriteToSink(i)
        PROVE  Goal
    <2>1. /\ InPhase(Sink, i, "write")
          /\ sinkDir' = Overwrite(sinkDir, [j \in {i} |-> inst[Sink][i].result])
      BY <1>2 DEF WriteToSink
    <2> QED
      BY <2>1 DEF Overwrite
  <1>3. ASSUME NEW i \in DOMAIN inst[Sink], LateSinkWrite(i)
        PROVE  Goal
    <2>1. /\ inst[Sink][i].late
          /\ sinkDir' = Overwrite(sinkDir, [j \in {i} |-> inst[Sink][i].result])
      BY <1>3 DEF LateSinkWrite
    <2> QED
      BY <2>1 DEF Overwrite
  <1>4. CASE sinkDir' = sinkDir
    BY <1>4
  <1> HIDE DEF Goal
  <1>5. CASE PlannerStep \/ Grow \/ Done \/ UNCHANGED vars
    BY <1>4, <1>5
       DEF PlannerStep, MakeWorkDir, PlanWidth, Prepare, Gather, Finalize, Grow, Done,
           vars, sinkVars
  <1>6. CASE InstanceStep
    BY <1>2, <1>4, <1>6 DEF InstanceStep, Read, ComputeResult, WriteBuckets, sinkVars
  <1>7. CASE SchedulerStep
    BY <1>4, <1>7
       DEF SchedulerStep, ExpandStage, PropagateToStage, Propagate, SettleFailure, sinkVars
  <1>8. CASE FaultStep
    BY <1>3, <1>4, <1>8
       DEF FaultStep, GiveUpTask, GiveUpInstance, LateWrite, LateCommit, sinkVars
  <1> QED
    BY <1>5, <1>6, <1>7, <1>8 DEF Next, Progress

LEMMA SinkSideInit == Init => SinkSideInv
  BY NoEntriesPartial, TableFacts DEF Init, SinkSideInv

LEMMA SinkInstanceStep ==
    ASSUME TypeOK, PlanningInv, MapSideInv, GatherInv, SinkSideInv, [Next]_vars,
           NEW i \in DOMAIN inst'[Sink]
    PROVE  SinkInstanceValid(i)'
  <1> DEFINE r == inst[Sink][i]
             q == inst'[Sink][i]
             Valid == /\ q.pc = "compute" => q.scratch = InputOf(Sink, i)'
                      /\ (q.pc \in {"write", "success"} \/ q.late) =>
                           q.result = SinkOutput(i)'
                      /\ q.pc = "success" => i \in DOMAIN sinkDir'
  <1> SUFFICES Valid
    BY DEF SinkInstanceValid
  <1>1. Sink \in Stage
    BY TableFacts
  <1>2. InstanceChange(Sink, i)
    BY <1>1, InstanceSteps
  <1>3. CASE ExpandStage(Sink) /\ q = NewInstance
    BY <1>3 DEF NewInstance
  <1>4. ASSUME i \in DOMAIN inst[Sink]
        PROVE  /\ r \in Instance
               /\ InputOf(Sink, i)' = InputOf(Sink, i)
               /\ r.pc = "compute" => r.scratch = InputOf(Sink, i)'
               /\ (r.pc \in {"write", "success"} \/ r.late) =>
                    r.result = SinkOutput(i)'
               /\ r.pc = "success" => i \in DOMAIN sinkDir'
    <2>1. SinkInstanceValid(i)
      BY <1>4 DEF SinkSideInv
    <2>2. InputOf(Sink, i)' = InputOf(Sink, i)
      BY <1>4, SinkInputSettled
    <2>3. SinkOutput(i)' = SinkOutput(i)
      BY <2>2 DEF SinkOutput
    <2>4. DOMAIN sinkDir \subseteq DOMAIN sinkDir'
      BY SinkDirSteps
    <2>5. r \in Instance
      BY <1>1, <1>4, InstanceType
    <2> QED
      BY <2>1, <2>2, <2>3, <2>4, <2>5 DEF SinkInstanceValid
  <1>5. CASE i \in DOMAIN inst[Sink] /\ q = r
    BY <1>4, <1>5
  <1>6. ASSUME i \in DOMAIN inst[Sink], Read(Sink, i),
               q = [r EXCEPT !.pc = "compute", !.tries = 0, !.scratch = InputOf(Sink, i)]
        PROVE  Valid
    <2>1. r.pc = "read" /\ r \in Instance
      BY <1>4, <1>6 DEF Read, InPhase
    <2>2. /\ q.pc = "compute" /\ q.scratch = InputOf(Sink, i)
          /\ q.late = r.late /\ q.result = r.result
      BY <1>6, <2>1 DEF Instance
    <2> HIDE DEF q, r
    <2> QED
      BY <1>4, <1>6, <2>1, <2>2
  <1>7. ASSUME i \in DOMAIN inst[Sink], ComputeResult(Sink, i),
               q = [r EXCEPT !.pc = "write", !.tries = 0, !.result = StageSql(Sink, r.scratch)]
        PROVE  Valid
    <2>1. r.pc = "compute" /\ r \in Instance
      BY <1>4, <1>7 DEF ComputeResult, InPhase
    <2>2. q.pc = "write" /\ q.result = StageSql(Sink, r.scratch)
      BY <1>7, <2>1 DEF Instance
    <2>3. StageSql(Sink, r.scratch) = SinkSql(r.scratch)
      BY DEF StageSql
    <2>4. SinkOutput(i)' = SinkSql(InputOf(Sink, i)')
      BY DEF SinkOutput
    <2> HIDE DEF q, r
    <2> QED
      BY <1>4, <1>7, <2>1, <2>2, <2>3, <2>4
  <1>8. ASSUME i \in DOMAIN inst[Sink], WriteToSink(i), q = [r EXCEPT !.pc = "success"]
        PROVE  Valid
    <2>1. r.pc = "write" /\ r \in Instance
      BY <1>4, <1>8 DEF WriteToSink, InPhase
    <2>2. q.pc = "success" /\ q.result = r.result
      BY <1>8, <2>1 DEF Instance
    <2>3. i \in DOMAIN sinkDir'
      BY <1>8, SinkDirSteps
    <2> HIDE DEF q, r
    <2> QED
      BY <1>4, <1>8, <2>1, <2>2, <2>3
  <1>9. ASSUME i \in DOMAIN inst[Sink], SettleFailure(Sink, i), q = [r EXCEPT !.pc = "failed"]
        PROVE  Valid
    <2>1. r.pc = "failing" /\ r \in Instance
      BY <1>4, <1>9 DEF SettleFailure, InPhase
    <2>2. q.pc = "failed" /\ q.late = r.late /\ q.result = r.result
      BY <1>9, <2>1 DEF Instance
    <2> HIDE DEF q, r
    <2> QED
      BY <1>4, <1>9, <2>1, <2>2
  <1>10. ASSUME i \in DOMAIN inst[Sink], GiveUpInstance(Sink, i), q = GivenUp(r)
         PROVE  Valid
    <2>1. r.pc \in {"read", "compute", "write"} /\ r \in Instance
      BY <1>4, <1>10 DEF GiveUpInstance, InPhase
    <2>2. /\ q.pc \in {r.pc, "failed", "failing"}
          /\ q.late => r.late \/ r.pc = "write"
          /\ q.scratch = r.scratch /\ q.result = r.result
      BY <1>10, <2>1 DEF GivenUp, PhaseAfterGiveUp, Instance
    <2> HIDE DEF q, r
    <2> QED
      BY <1>4, <1>10, <2>1, <2>2
  <1>11. ~WriteBuckets(Sink, i)
    BY DEF WriteBuckets
  <1> HIDE DEF Valid
  <1> QED
    BY <1>2, <1>3, <1>5, <1>6, <1>7, <1>8, <1>9, <1>10, <1>11 DEF InstanceChange

LEMMA SinkSideStep ==
    ASSUME TypeOK, PlanningInv, MapSideInv, GatherInv, SinkSideInv, [Next]_vars
    PROVE  SinkSideInv'
  <1>1. \A i \in DOMAIN inst'[Sink] : SinkInstanceValid(i)'
    BY SinkInstanceStep
  <1>2. ASSUME NEW i \in DOMAIN inst[Sink]
        PROVE  i \in DOMAIN inst'[Sink] /\ SinkOutput(i)' = SinkOutput(i)
    <2>1. ~ExpandStage(Sink) /\ Sink \in Stage
      BY TableFacts DEF ExpandStage, PlanningInv, GroupsFollowPlans
    <2>2. i \in DOMAIN inst'[Sink]
      BY <2>1, FrameStep DEF Frame, GroupsFrame
    <2> QED
      BY <2>2, SinkInputSettled DEF SinkOutput
  <1>3. ASSUME NEW i \in DOMAIN sinkDir'
        PROVE  i \in DOMAIN inst'[Sink] /\ sinkDir'[i] = SinkOutput(i)'
    <2>1. CASE i \in DOMAIN sinkDir /\ sinkDir'[i] = sinkDir[i]
      BY <1>2, <2>1 DEF SinkSideInv
    <2>2. CASE /\ i \in DOMAIN inst[Sink] /\ sinkDir'[i] = inst[Sink][i].result
               /\ InPhase(Sink, i, "write") \/ inst[Sink][i].late
      <3>1. inst[Sink][i].result = SinkOutput(i)
        BY <2>2 DEF SinkSideInv, SinkInstanceValid, InPhase
      <3> QED
        BY <1>2, <2>2, <3>1
    <2> QED
      BY <2>1, <2>2, SinkDirSteps
  <1> QED
    BY <1>1, <1>3 DEF SinkSideInv

-----------------------------------------------------------------------------
(* Skipping and committing *)

\* A group that has been expanded, skipped or failed stays what it is.
LEMMA GroupSettled ==
    ASSUME TypeOK, [Next]_vars, NEW s \in Stage, group[s] # "none"
    PROVE  group'[s] = group[s]
  <1>1. ASSUME NEW u \in Stage, ExpandStage(u) \/ PropagateToStage(u)
        PROVE  group'[s] = group[s]
    BY <1>1 DEF ExpandStage, PropagateToStage, TypeOK
  <1>2. CASE group' = group
    BY <1>2
  <1>3. CASE PlannerStep \/ Grow \/ Done \/ UNCHANGED vars
    BY <1>2, <1>3
       DEF PlannerStep, MakeWorkDir, PlanWidth, Prepare, Gather, Finalize, Grow, Done, vars
  <1>4. CASE InstanceStep
    BY <1>2, <1>4 DEF InstanceStep, Read, ComputeResult, WriteBuckets, WriteToSink
  <1>5. CASE SchedulerStep
    BY <1>1, <1>2, <1>5 DEF SchedulerStep, Propagate, SettleFailure
  <1>6. CASE FaultStep
    BY <1>2, <1>6
       DEF FaultStep, GiveUpTask, GiveUpInstance, LateWrite, LateSinkWrite, LateCommit
  <1> QED
    BY <1>3, <1>4, <1>5, <1>6 DEF Next, Progress

\* The list that a group is mapped over is settled once its planner is done.
LEMMA KwargsSettled ==
    ASSUME TypeOK, [Next]_vars, NEW s \in Stage, ti[PlannerOf(s)] = "success"
    PROVE  ti'[PlannerOf(s)] = "success" /\ Kwargs(s)' = Kwargs(s)
  <1>1. Frame
    BY FrameStep
  <1>2. ti'[PlannerOf(s)] = "success"
    BY <1>1, StageFacts DEF Frame, TasksFrame
  <1>3. CASE SourceFed(s)
    <2>1. SourceOf(s) \in Table /\ PlannerOf(s) = SourceOf(s)
      BY <1>3, StageFacts
    <2>2. ~Prepare(SourceOf(s))
      BY <2>1 DEF Prepare, Runnable
    <2> QED
      BY <1>1, <1>2, <1>3, <2>1, <2>2 DEF Frame, PlansFrame, Kwargs
  <1>4. CASE ~SourceFed(s)
    <2>1. ~Gather
      BY <1>4, StageFacts DEF Gather, Runnable
    <2> QED
      BY <1>1, <1>2, <1>4, <2>1 DEF Frame, PlansFrame, Kwargs
  <1> QED
    BY <1>3, <1>4

\* The scheduler's own doing: which tasks a step can skip.
LEMMA SkipSteps ==
    ASSUME TypeOK, [Next]_vars, NEW x \in Task, ti'[x] = "skipped"
    PROVE  ti[x] = "skipped" \/ "skipped" \in Upstream(x)
  <1>1. CASE ti' = ti
    BY <1>1
  <1>2. ASSUME NEW y \in Task, Propagate(y)
        PROVE  ti[x] = "skipped" \/ "skipped" \in Upstream(x)
    <2>1. CASE x = y
      BY <1>2, <2>1 DEF Propagate, TypeOK
    <2>2. CASE x # y
      BY <1>2, <2>2 DEF Propagate, TypeOK
    <2> QED
      BY <2>1, <2>2
  <1>3. ASSUME NEW y \in Task, NEW v \in {"success", "failed", ti[y]},
               ti' = [ti EXCEPT ![y] = v]
        PROVE  ti[x] = "skipped"
    BY <1>3 DEF TypeOK
  <1>4. CASE PlannerStep
    <2>1. \E y \in Task : ti' = [ti EXCEPT ![y] = "success"]
      BY <1>4 DEF PlannerStep, MakeWorkDir, PlanWidth, Prepare, Gather, Finalize,
                  Runnable, Succeed
    <2> QED
      BY <1>3, <2>1
  <1>5. CASE Grow \/ Done \/ UNCHANGED vars \/ InstanceStep
    BY <1>1, <1>5 DEF Grow, Done, vars, InstanceStep, Read, ComputeResult, WriteBuckets,
                      WriteToSink
  <1>6. CASE SchedulerStep
    BY <1>1, <1>2, <1>6 DEF SchedulerStep, ExpandStage, PropagateToStage, SettleFailure
  <1>7. CASE FaultStep
    <2>1. ASSUME NEW y \in Task, GiveUpTask(y)
          PROVE  ti[x] = "skipped"
      <3>1. \E v \in {"failed", ti[y]} : ti' = [ti EXCEPT ![y] = v]
        BY <2>1 DEF GiveUpTask
      <3> QED
        BY <1>3, <3>1
    <2> QED
      BY <1>1, <1>7, <2>1
         DEF FaultStep, GiveUpInstance, LateWrite, LateSinkWrite, LateCommit
  <1> QED
    BY <1>4, <1>5, <1>6, <1>7 DEF Next, Progress

\* A scheduled stage that is not expanded has the state of its group.
LEMMA SkippedStage ==
    ASSUME TypeOK, NEW s \in Stage, "skipped" \in StageStates(s)
    PROVE  group[s] = "skipped"
  BY DEF StageStates, WriteState

\* The scheduler's own doing: which groups a step can skip.
LEMMA SkippedGroupSteps ==
    ASSUME TypeOK, [Next]_vars, NEW s \in Stage, group[s] # "skipped", group'[s] = "skipped"
    PROVE  \/ ti[PlannerOf(s)] = "success" /\ DOMAIN Kwargs(s) = {}
           \/ ti[PlannerOf(s)] = "skipped"
  <1> DEFINE Goal == \/ ti[PlannerOf(s)] = "success" /\ DOMAIN Kwargs(s) = {}
                     \/ ti[PlannerOf(s)] = "skipped"
  <1> SUFFICES Goal
    OBVIOUS
  <1>1. ASSUME NEW u \in Stage, ExpandStage(u)
        PROVE  Goal
    BY <1>1 DEF ExpandStage, TypeOK
  <1>2. ASSUME NEW u \in Stage, PropagateToStage(u)
        PROVE  Goal
    BY <1>2 DEF PropagateToStage, TypeOK
  <1>3. group' # group
    OBVIOUS
  <1> HIDE DEF Goal
  <1>4. ~(PlannerStep \/ Grow \/ Done \/ UNCHANGED vars)
    BY <1>3
       DEF PlannerStep, MakeWorkDir, PlanWidth, Prepare, Gather, Finalize, Grow, Done, vars
  <1>5. ~InstanceStep
    BY <1>3 DEF InstanceStep, Read, ComputeResult, WriteBuckets, WriteToSink
  <1>6. ~FaultStep
    BY <1>3 DEF FaultStep, GiveUpTask, GiveUpInstance, LateWrite, LateSinkWrite, LateCommit
  <1>7. SchedulerStep
    BY <1>4, <1>5, <1>6 DEF Next, Progress
  <1>8. \E u \in Stage : ExpandStage(u) \/ PropagateToStage(u)
    BY <1>3, <1>7 DEF SchedulerStep, Propagate, SettleFailure
  <1> QED
    BY <1>1, <1>2, <1>8

LEMMA SkippedInit == Init => SkippedForNothing
  BY StageFacts DEF Init, SkippedForNothing

LEMMA SkippedStep ==
    ASSUME TypeOK, SkippedForNothing, [Next]_vars
    PROVE  SkippedForNothing'
  <1>1. Frame
    BY FrameStep
  <1>2. ASSUME NEW x \in Task \ {"gather", "finalize"}
        PROVE  ti'[x] # "skipped"
    <2>1. ti[x] # "skipped" /\ x \in {"make_work_dir", "plan_width"} \cup Table
      BY DEF SkippedForNothing, Task
    <2>2. /\ ti["make_work_dir"] # "skipped"
          /\ "plan_width" \in Task => ti["plan_width"] # "skipped"
      BY TaskFacts DEF SkippedForNothing
    <2>3. "skipped" \notin Upstream(x)
      <3>1. CASE x \in {"make_work_dir", "plan_width"}
        BY <3>1, TaskFacts DEF Upstream
      <3>2. CASE x \in Table
        <4>1. x \notin {"make_work_dir", "plan_width"}
          BY <3>2, TaskFacts
        <4> QED
          BY <2>2, <3>2, <4>1 DEF Upstream
      <3> QED
        BY <2>1, <3>1, <3>2
    <2> QED
      BY <2>1, <2>3, SkipSteps
  <1>3. ASSUME NEW s \in Stage, group'[s] = "skipped"
        PROVE  IF ti'[PlannerOf(s)] = "success" THEN DOMAIN Kwargs(s)' = {}
                                                ELSE ti'[PlannerOf(s)] = "skipped"
    <2>1. PlannerOf(s) \in Task
      BY StageFacts
    <2>2. ti[PlannerOf(s)] = "success" =>
            ti'[PlannerOf(s)] = "success" /\ Kwargs(s)' = Kwargs(s)
      BY KwargsSettled
    <2>3. ti[PlannerOf(s)] = "skipped" => ti'[PlannerOf(s)] = "skipped"
      BY <1>1, <2>1 DEF Frame, TasksFrame
    <2> DEFINE Nothing ==
                 \/ ti[PlannerOf(s)] = "success" /\ DOMAIN Kwargs(s) = {}
                 \/ ti[PlannerOf(s)] = "skipped"
    <2>4. SUFFICES Nothing
      BY <2>2, <2>3
    <2>5. CASE group[s] = "skipped"
      BY <2>5 DEF SkippedForNothing
    <2>6. CASE group[s] # "skipped"
      BY <1>3, <2>6, SkippedGroupSteps
    <2> QED
      BY <2>5, <2>6
  <1>4. ASSUME "gather" \in Task, ti'["gather"] = "skipped"
        PROVE  \E s \in Scan : group'[s] = "skipped"
    <2>1. \E s \in Scan : group[s] = "skipped"
      <3>1. CASE ti["gather"] = "skipped"
        BY <1>4, <3>1 DEF SkippedForNothing
      <3>2. CASE "skipped" \in Upstream("gather")
        <4>1. "gather" \notin {"make_work_dir", "plan_width", "finalize"} \cup Table
          BY TaskFacts
        <4>2. Upstream("gather") =
                {ti["make_work_dir"]} \cup UNION {StageStates(s) : s \in Scan}
          BY <4>1 DEF Upstream
        <4>3. ti["make_work_dir"] # "skipped"
          BY TaskFacts DEF SkippedForNothing
        <4>4. PICK s \in Scan : "skipped" \in StageStates(s)
          BY <3>2, <4>2, <4>3
        <4> QED
          BY <4>4, SkippedStage, TableFacts
      <3> QED
        BY <1>4, <3>1, <3>2, SkipSteps
    <2> QED
      BY <2>1, GroupSettled, TableFacts
  <1> QED
    BY <1>2, <1>3, <1>4 DEF SkippedForNothing

-----------------------------------------------------------------------------

\* finalize runs once the sink stage is written, or skipped.
LEMMA SinkSettledForFinalize ==
    ASSUME TypeOK, Runnable("finalize")
    PROVE  AllWritten(Sink) \/ group[Sink] = "skipped"
  <1>1. StageStates(Sink) \subseteq {"success", "skipped"}
    BY TaskFacts DEF Runnable, Upstream, TriggerRule, Accepted
  <1>2. group[Sink] \notin {"success", "none", "upstream_failed"} \/ group[Sink] = "expanded"
    BY <1>1, TableFacts DEF TypeOK, StageStates
  <1>3. CASE group[Sink] = "expanded"
    <2>1. \A i \in DOMAIN inst[Sink] : WriteState(Sink, i) \in {"success", "skipped"}
      BY <1>1, <1>3 DEF StageStates
    <2> QED
      BY <1>3, <2>1 DEF AllWritten, WriteState
  <1> QED
    BY <1>2, <1>3, TableFacts DEF TypeOK

LEMMA SinkSettledStays ==
    ASSUME TypeOK, PlanningInv, [Next]_vars, AllWritten(Sink) \/ group[Sink] = "skipped"
    PROVE  /\ AllWritten(Sink)' \/ group'[Sink] = "skipped"
           /\ DOMAIN inst'[Sink] = DOMAIN inst[Sink]
           /\ Metas = DOMAIN inst[Sink]
  <1>1. Sink \in Stage
    BY TableFacts
  <1>2. AllWritten(Sink)' \/ group'[Sink] = "skipped"
    <2>1. CASE AllWritten(Sink)
      BY <1>1, <2>1, WrittenStays
    <2>2. CASE group[Sink] = "skipped"
      BY <1>1, <2>2, GroupSettled
    <2> QED
      BY <2>1, <2>2
  <1>3. ~ExpandStage(Sink)
    BY DEF ExpandStage, AllWritten
  <1>4. DOMAIN inst'[Sink] = DOMAIN inst[Sink]
    BY <1>1, <1>3, FrameStep DEF Frame, GroupsFrame
  <1>5. Metas = DOMAIN inst[Sink]
    BY <1>1 DEF Metas, AllWritten, PlanningInv, GroupsFollowPlans
  <1> QED
    BY <1>2, <1>4, <1>5

\* How a step can publish, or leave an attempt of finalize behind.
LEMMA CommitSteps ==
    ASSUME TypeOK, [Next]_vars
    PROVE  /\ published' \/ lateFinalize' =>
                published \/ lateFinalize \/ Runnable("finalize")
           /\ \/ published' = published /\ committed' = committed
              \/ committed' = Metas
  <1> DEFINE Goal ==
        /\ published' \/ lateFinalize' => published \/ lateFinalize \/ Runnable("finalize")
        /\ \/ published' = published /\ committed' = committed
           \/ committed' = Metas
  <1> SUFFICES Goal
    OBVIOUS
  <1>1. CASE published' = published /\ committed' = committed /\ lateFinalize' = lateFinalize
    BY <1>1
  <1>2. CASE Finalize
    BY <1>2 DEF Finalize, Publish
  <1>3. CASE LateCommit
    BY <1>3 DEF LateCommit, Publish
  <1>4. ASSUME NEW x \in Task, GiveUpTask(x)
        PROVE  Goal
    <2>1. /\ Runnable(x) /\ lateFinalize' = (lateFinalize \/ x = "finalize")
          /\ published' = published /\ committed' = committed
      BY <1>4 DEF GiveUpTask, sinkVars
    <2> QED
      BY <2>1, Zenon
  <1> HIDE DEF Goal
  <1>5. CASE PlannerStep \/ Grow \/ Done \/ UNCHANGED vars
    BY <1>1, <1>2, <1>5
       DEF PlannerStep, MakeWorkDir, PlanWidth, Prepare, Gather, Grow, Done, vars, sinkVars
  <1>6. CASE InstanceStep
    BY <1>1, <1>6 DEF InstanceStep, Read, ComputeResult, WriteBuckets, WriteToSink, sinkVars
  <1>7. CASE SchedulerStep
    BY <1>1, <1>7
       DEF SchedulerStep, ExpandStage, PropagateToStage, Propagate, SettleFailure, sinkVars
  <1>8. CASE FaultStep
    BY <1>1, <1>3, <1>4, <1>8
       DEF FaultStep, GiveUpInstance, LateWrite, LateSinkWrite, sinkVars
  <1> QED
    BY <1>5, <1>6, <1>7, <1>8 DEF Next, Progress

LEMMA CommitInit == Init => CommitInv
  BY DEF Init, CommitInv

LEMMA CommitStep ==
    ASSUME TypeOK, PlanningInv, CommitInv, [Next]_vars
    PROVE  CommitInv'
  <1>1. SUFFICES ASSUME published' \/ lateFinalize'
                 PROVE  /\ AllWritten(Sink)' \/ group'[Sink] = "skipped"
                        /\ published' => committed' = DOMAIN inst'[Sink]
    BY DEF CommitInv
  <1>2. published \/ lateFinalize \/ Runnable("finalize")
    BY <1>1, CommitSteps
  <1>3. AllWritten(Sink) \/ group[Sink] = "skipped"
    BY <1>2, SinkSettledForFinalize DEF CommitInv
  <1>4. /\ AllWritten(Sink)' \/ group'[Sink] = "skipped"
        /\ DOMAIN inst'[Sink] = DOMAIN inst[Sink]
        /\ Metas = DOMAIN inst[Sink]
    BY <1>3, SinkSettledStays
  <1>5. published => committed = DOMAIN inst[Sink]
    BY DEF CommitInv
  <1> QED
    BY <1>4, <1>5, CommitSteps

-----------------------------------------------------------------------------
(* The sources *)

LEMMA AppendSource ==
    ASSUME NEW D, NEW parts \in Seq(SUBSET D), NEW rows \in SUBSET D
    PROVE  RowsIn(Append(parts, rows)) = RowsIn(parts) \cup rows
  <1> DEFINE n == Len(parts)
             more == Append(parts, rows)
  <1>1. /\ n \in Nat /\ Len(more) = n + 1 /\ more[n + 1] = rows
        /\ \A i \in 1..n : more[i] = parts[i]
    OBVIOUS
  <1> HIDE DEF n, more
  <1>2. 1..(n + 1) = (1..n) \cup {n + 1}
    BY <1>1
  <1>3. {more[i] : i \in 1..(n + 1)} = {parts[i] : i \in 1..n} \cup {rows}
    BY <1>1, <1>2
  <1>4. UNION {more[i] : i \in 1..(n + 1)} = (UNION {parts[i] : i \in 1..n}) \cup rows
    BY <1>3
  <1> QED
    BY <1>1, <1>4 DEF RowsIn, n, more

LEMMA SourceStep ==
    ASSUME TypeOK, IsSource(source), [Next]_vars
    PROVE  IsSource(source')
  <1>1. CASE source' = source
    BY <1>1
  <1>2. ASSUME NEW t \in Table, AppendPartition(t)
        PROVE  IsSource(source')
    <2>1. PICK rows \in SUBSET (TableRows[t] \ RowsIn(source[t])) :
            source' = [source EXCEPT ![t] = Append(source[t], rows)]
      BY <1>2 DEF AppendPartition
    <2>2. TableRows[t] \in SUBSET Row /\ source[t] \in Seq(SUBSET Row)
      BY SourceAssumption DEF TypeOK
    <2>3. rows \in SUBSET Row
      BY <2>1, <2>2
    <2>4. Append(source[t], rows) \in Seq(SUBSET Row)
      BY <2>2, <2>3
    <2>5. /\ source' \in [Table -> Seq(SUBSET Row)]
          /\ source'[t] = Append(source[t], rows)
          /\ \A u \in Table : u # t => source'[u] = source[u]
      BY <2>1, <2>4 DEF TypeOK
    <2>6. RowsIn(source'[t]) = RowsIn(source[t]) \cup rows
      BY <2>2, <2>3, <2>5, AppendSource
    <2>7. RowsIn(source'[t]) \subseteq TableRows[t]
      BY <2>1, <2>6 DEF IsSource
    <2>8. ASSUME NEW i \in 1..Len(source'[t]), NEW j \in 1..Len(source'[t]), i # j
          PROVE  source'[t][i] \cap source'[t][j] = {}
      <3> DEFINE n == Len(source[t])
      <3>1. /\ n \in Nat /\ i \in 1..(n + 1) /\ j \in 1..(n + 1)
            /\ \A k \in 1..n : source'[t][k] = source[t][k]
            /\ source'[t][n + 1] = rows
        BY <2>2, <2>3, <2>5
      <3>2. \A k \in 1..n : source[t][k] \subseteq RowsIn(source[t])
        BY DEF RowsIn
      <3>3. \A k, l \in 1..n : k # l => source[t][k] \cap source[t][l] = {}
        BY DEF IsSource
      <3>4. \A k \in 1..n : source[t][k] \cap rows = {}
        BY <2>1, <3>2
      <3>5. CASE i \in 1..n /\ j \in 1..n
        BY <2>8, <3>1, <3>3, <3>5
      <3>6. CASE i = n + 1 /\ j \in 1..n
        BY <3>1, <3>4, <3>6
      <3>7. CASE j = n + 1 /\ i \in 1..n
        BY <3>1, <3>4, <3>7
      <3> HIDE DEF n
      <3> QED
        BY <2>8, <3>1, <3>5, <3>6, <3>7
    <2> QED
      BY <2>5, <2>7, <2>8 DEF IsSource
  <1>3. CASE PlannerStep \/ Done \/ UNCHANGED vars
    BY <1>1, <1>3
       DEF PlannerStep, MakeWorkDir, PlanWidth, Prepare, Gather, Finalize, Done, vars
  <1>4. CASE InstanceStep
    BY <1>1, <1>4 DEF InstanceStep, Read, ComputeResult, WriteBuckets, WriteToSink
  <1>5. CASE SchedulerStep
    BY <1>1, <1>5 DEF SchedulerStep, ExpandStage, PropagateToStage, Propagate, SettleFailure
  <1>6. CASE FaultStep
    BY <1>1, <1>6
       DEF FaultStep, GiveUpTask, GiveUpInstance, LateWrite, LateSinkWrite, LateCommit
  <1>7. CASE Grow
    BY <1>2, <1>7 DEF Grow
  <1> QED
    BY <1>3, <1>4, <1>5, <1>6, <1>7 DEF Next, Progress

LEMMA OpenedStays ==
    ASSUME [Next]_vars
    PROVE  /\ opened' = opened
           /\ source' = source \/ \E t \in Table : AppendPartition(t)
  <1>1. CASE PlannerStep \/ Grow \/ Done \/ UNCHANGED vars
    BY <1>1
       DEF PlannerStep, MakeWorkDir, PlanWidth, Prepare, Gather, Finalize, Grow, Done, vars
  <1>2. CASE InstanceStep
    BY <1>2 DEF InstanceStep, Read, ComputeResult, WriteBuckets, WriteToSink
  <1>3. CASE SchedulerStep
    BY <1>3 DEF SchedulerStep, ExpandStage, PropagateToStage, Propagate, SettleFailure
  <1>4. CASE FaultStep
    BY <1>4
       DEF FaultStep, GiveUpTask, GiveUpInstance, LateWrite, LateSinkWrite, LateCommit
  <1> QED
    BY <1>1, <1>2, <1>3, <1>4 DEF Next, Progress

LEMMA VersionInit == Init => VersionInv
  <1> SUFFICES ASSUME Init, NEW t \in Table
               PROVE  opened[t] <= Len(source[t]) /\ ti[t] # "success"
    BY DEF VersionInv
  <1>1. source \in [Table -> Seq(SUBSET Row)]
    BY SourceAssumption DEF Init, IsSource
  <1>2. Len(source[t]) \in Nat
    BY <1>1
  <1> QED
    BY <1>2, TaskFacts DEF Init

LEMMA VersionStep ==
    ASSUME TypeOK, PlanningInv, VersionInv, [Next]_vars
    PROVE  VersionInv'
  <1> SUFFICES ASSUME NEW t \in Table
               PROVE  /\ opened'[t] <= Len(source'[t])
                      /\ ti'[t] = "success" =>
                           \E k \in opened'[t]..Len(source'[t]) : DOMAIN listing'[t] = 0..(k - 1)
    BY DEF VersionInv
  <1>1. Frame /\ TypeOK' /\ opened' = opened
    BY FrameStep, TypeStep, OpenedStays
  <1>2. Len(source[t]) \in Nat /\ Len(source'[t]) \in Nat /\ opened[t] \in Nat
    BY <1>1 DEF TypeOK
  <1>3. opened[t] <= Len(source[t]) /\ Len(source[t]) <= Len(source'[t])
    BY <1>1 DEF VersionInv, Frame, SourcesFrame
  <1>4. CASE Prepare(t)
    <2>1. source' = source /\ DOMAIN listing'[t] = 0..(Len(source[t]) - 1)
      BY <1>4 DEF Prepare, TypeOK
    <2> QED
      BY <1>1, <1>2, <1>3, <2>1
  <1>5. CASE ~Prepare(t)
    <2>1. listing'[t] = listing[t] /\ (ti'[t] = "success" => ti[t] = "success")
      BY <1>1, <1>5 DEF Frame, PlansFrame, TasksFrame
    <2> QED
      BY <1>1, <1>2, <1>3, <2>1 DEF VersionInv
  <1> QED
    BY <1>4, <1>5

-----------------------------------------------------------------------------
(* The whole invariant, and what follows from it *)

LEMMA IInvInit == Init => IInv
  <1> SUFFICES ASSUME Init PROVE IInv
    OBVIOUS
  <1>1. IsSource(source)
    BY SourceAssumption DEF Init
  <1> QED
    BY <1>1, TypeInit, VersionInit, PlanningInit, MapSideInit, GatherInit, SinkSideInit, SkippedInit,
       CommitInit DEF IInv

LEMMA IInvStep == IInv /\ [Next]_vars => IInv'
  <1> SUFFICES ASSUME IInv, [Next]_vars PROVE IInv'
    OBVIOUS
  <1> USE DEF IInv
  <1>1. TypeOK'
    BY TypeStep
  <1>2. IsSource(source)'
    BY SourceStep
  <1>3. VersionInv' /\ PlanningInv'
    BY VersionStep, PlanningStep
  <1>4. MapSideInv'
    BY MapSideStep
  <1>5. GatherInv'
    BY GatherStep
  <1>6. SinkSideInv'
    BY SinkSideStep
  <1>7. SkippedForNothing'
    BY SkippedStep
  <1>8. CommitInv'
    BY CommitStep
  <1> QED
    BY <1>1, <1>2, <1>3, <1>4, <1>5, <1>6, <1>7, <1>8

\* The invariant behind every safety property of a run: listings, instances,
\* bucket files, the reduce plan, result files and the commit agree with one
\* another at every step, whatever attempts died and whoever else writes.
THEOREM InductiveInvariant == Spec => []IInv
  BY IInvInit, IInvStep, PTL DEF Spec

\* Two bucket files that hold the same key have the same bucket id, for any
\* number of tables, files, attempts and any policy: the scans of a group are
\* told one width, and every file is the shard of its instance's output.
THEOREM CoPartitionedAlways == Spec => []CoPartitioned
  <1>1. IInv => CoPartitioned
    BY CoPartitionedFiles DEF IInv
  <1> QED
    BY <1>1, InductiveInvariant, PTL

\* gather_shuffle never plans a reduce instance that read_concat would refuse:
\* each of its inputs is listed, and is on disk from then on.
THEOREM NoDoomedReadAlways == Spec => []NoDoomedRead
  <1>1. IInv => NoDoomedRead
    BY PlannedFilesExist DEF IInv
  <1> QED
    BY <1>1, InductiveInvariant, PTL

LEMMA SinkDirStable ==
    ASSUME IInv, [Next]_vars, NEW i \in DOMAIN sinkDir
    PROVE  i \in DOMAIN sinkDir' /\ sinkDir'[i] = sinkDir[i]
  <1>1. i \in DOMAIN sinkDir'
    BY SinkDirSteps DEF IInv
  <1>2. i \in DOMAIN inst[Sink] /\ sinkDir[i] = SinkOutput(i)
    BY DEF IInv, SinkSideInv
  <1>3. sinkDir'[i] = SinkOutput(i)'
    BY <1>1, SinkSideStep DEF IInv, SinkSideInv
  <1>4. SinkOutput(i)' = SinkOutput(i)
    BY <1>2, SinkInputSettled DEF IInv, SinkOutput
  <1> QED
    BY <1>1, <1>2, <1>3, <1>4

\* Retries and attempts that were given up on rewrite files with what they
\* held: no bucket file and no result file ever changes.
THEOREM FilesStableAlways == Spec => FilesStable
  <1> DEFINE Stays == /\ \A p \in DOMAIN disk : p \in DOMAIN disk' /\ disk'[p] = disk[p]
                      /\ \A i \in DOMAIN sinkDir :
                           i \in DOMAIN sinkDir' /\ sinkDir'[i] = sinkDir[i]
  <1>1. IInv /\ [Next]_vars => Stays
    BY DiskStable, SinkDirStable DEF IInv
  <1>2. IInv /\ [Next]_vars => [Stays]_vars
    BY <1>1
  <1> QED
    BY <1>2, InductiveInvariant, PTL DEF Spec, FilesStable

-----------------------------------------------------------------------------
(* A failed task and the commit *)

\* No table is listed and nothing gathered before make_work_dir has succeeded.
WorkDirFirst ==
    \A x \in Task \cap (Table \cup {"gather"}) :
        ti[x] = "success" => ti["make_work_dir"] = "success"

LEMMA WorkDirFirstStep ==
    ASSUME TypeOK, WorkDirFirst, [Next]_vars
    PROVE  WorkDirFirst'
  <1> SUFFICES ASSUME NEW x \in Task \cap (Table \cup {"gather"}), ti'[x] = "success"
               PROVE  ti["make_work_dir"] = "success"
    BY FrameStep, TaskFacts DEF WorkDirFirst, Frame, TasksFrame
  <1>1. CASE ti[x] = "success"
    BY <1>1 DEF WorkDirFirst
  <1>2. CASE x \in Table /\ Prepare(x)
    BY <1>2, TaskFacts DEF Prepare, Runnable, Upstream, TriggerRule, Accepted
  <1>3. CASE x = "gather" /\ Gather
    BY <1>3, TaskFacts DEF Gather, Runnable, Upstream, TriggerRule, Accepted
  <1> QED
    BY <1>1, <1>2, <1>3, FrameStep DEF Frame, TasksFrame

\* A table of a join had no data file to list, so that its scan is skipped.
EmptySide == Query = "join" /\ \E s \in Scan : group[s] = "skipped"

\* What must have gone well for a stage to be written or skipped.
LEMMA ScanSettled ==
    ASSUME IInv, NEW s \in Scan, AllWritten(s) \/ group[s] = "skipped"
    PROVE  /\ ti[s] = "success" /\ s \in Table
           /\ \A i \in DOMAIN inst[s] : inst[s][i].pc = "success"
  <1>1. s \in Stage /\ s \in Table /\ PlannerOf(s) = s /\ s \in Task \ {"gather", "finalize"}
    BY TableFacts, TaskFacts, StageFacts
  <1>2. CASE AllWritten(s)
    BY <1>1, <1>2 DEF IInv, PlanningInv, GroupsFollowPlans, AllWritten
  <1>3. CASE group[s] = "skipped"
    <2>1. ti[s] = "success"
      BY <1>1, <1>3 DEF IInv, SkippedForNothing
    <2>2. DOMAIN inst[s] = {}
      BY <1>1, <1>3 DEF IInv, PlanningInv, GroupsFollowPlans
    <2> QED
      BY <1>1, <2>1, <2>2
  <1> QED
    BY <1>2, <1>3

LEMMA CommittedUnfailed ==
    ASSUME IInv, WorkDirFirst, ~EmptySide, published
    PROVE  ~SomeTaskFailed
  <1>1. AllWritten(Sink) \/ group[Sink] = "skipped"
    BY DEF IInv, CommitInv
  <1>2. Sink \in Stage /\ PlannerOf(Sink) \in Task
    BY TableFacts, StageFacts
  <1>3. /\ ti[PlannerOf(Sink)] \in {"success", "skipped"}
        /\ \A i \in DOMAIN inst[Sink] : inst[Sink][i].pc = "success"
    BY <1>1, <1>2 DEF IInv, SkippedForNothing, PlanningInv, GroupsFollowPlans, AllWritten
  <1>4. \A s \in Scan : AllWritten(s) \/ group[s] = "skipped"
    <2>1. CASE Query = "passthrough"
      BY <2>1 DEF Scan
    <2>2. CASE Query # "passthrough"
      <3>1. PlannerOf(Sink) = "gather" /\ "gather" \in Task
        BY <2>2, TableFacts, TaskFacts DEF PlannerOf, SourceFed
      <3>2. CASE ti["gather"] = "success"
        BY <3>1, <3>2 DEF IInv, GatherInv
      <3>3. CASE ti["gather"] = "skipped"
        <4>1. PICK s \in Scan : group[s] = "skipped"
          BY <3>1, <3>3 DEF IInv, SkippedForNothing
        <4>2. Scan = {Left}
          BY <2>2, <4>1, TableFacts DEF EmptySide
        <4> QED
          BY <4>1, <4>2
      <3> QED
        BY <1>3, <3>1, <3>2, <3>3
    <2> QED
      BY <2>1, <2>2
  <1>5. \A s \in Scan : /\ ti[s] = "success" /\ s \in Table
                        /\ \A i \in DOMAIN inst[s] : inst[s][i].pc = "success"
    BY <1>4, ScanSettled
  <1>6. \A t \in Table : ti[t] = "success"
    <2>1. CASE Query = "passthrough"
      <3>1. Table = {Left} /\ PlannerOf(Sink) = Left
        BY <2>1, TableFacts DEF PlannerOf, SourceFed, SourceOf
      <3>2. Left \in Task \ {"gather", "finalize"}
        BY TableFacts, TaskFacts
      <3> QED
        BY <1>3, <3>1, <3>2 DEF IInv, SkippedForNothing
    <2>2. CASE Query # "passthrough"
      BY <1>5, <2>2, TableFacts
    <2> QED
      BY <2>1, <2>2
  <1>7. ti["make_work_dir"] = "success"
    BY <1>6, TableFacts, TaskFacts DEF WorkDirFirst
  <1>8. "plan_width" \in Task => ti["plan_width"] = "success"
    BY <1>6, TableFacts DEF IInv, PlanningInv, PlannersInOrder
  <1>9. "gather" \in Task => ti["gather"] \in {"success", "skipped"}
    BY <1>3, TableFacts, TaskFacts DEF PlannerOf, SourceFed
  <1>10. \A x \in Task \ {"finalize"} : ti[x] \notin Failure
    BY <1>6, <1>7, <1>8, <1>9 DEF Task, Failure
  <1>11. \A s \in Stage : \A i \in DOMAIN inst[s] : inst[s][i].pc \notin {"failing", "failed"}
    BY <1>3, <1>5, TableFacts
  <1> QED
    BY <1>10, <1>11 DEF SomeTaskFailed

\* A run with a failed task upstream of finalize does not commit, neither
\* before nor after the failure, except for a join of which a table was listed
\* with no data file: there the scheduler need not wait for the other side.
THEOREM FailurePreventsCommitUnlessEmpty == Spec => [](EmptySide \/ FailurePreventsCommit)
  <1>1. Init => WorkDirFirst
    BY DEF Init, WorkDirFirst
  <1>2. TypeOK /\ WorkDirFirst /\ [Next]_vars => WorkDirFirst'
    BY WorkDirFirstStep
  <1>3. IInv => TypeOK
    BY DEF IInv
  <1>4. IInv /\ WorkDirFirst => EmptySide \/ FailurePreventsCommit
    BY CommittedUnfailed DEF FailurePreventsCommit
  <1> QED
    BY <1>1, <1>2, <1>3, <1>4, InductiveInvariant, PTL DEF Spec

\* So a passthrough or a GROUP BY never commits with a failed task.
THEOREM FailurePreventsCommitOneTable == Query # "join" => (Spec => []FailurePreventsCommit)
  <1> SUFFICES ASSUME Query # "join"
               PROVE  Spec => []FailurePreventsCommit
    OBVIOUS
  <1>1. EmptySide \/ FailurePreventsCommit => FailurePreventsCommit
    BY DEF EmptySide
  <1> QED
    BY <1>1, FailurePreventsCommitUnlessEmpty, PTL

-----------------------------------------------------------------------------
(* The committed answer *)


\* All that the scan of table t outputs, and the one width it is shuffled by.
Whole(t) == UNION {ScanOutput(t, i) : i \in DOMAIN inst[t]}

Width == NumBuckets(Left)

WholeAnswer == Answer([t \in Table |-> RowsListed(t)])

-----------------------------------------------------------------------------
(* What the bucket files hold *)

LEMMA ShardsOfWidth ==
    ASSUME TypeOK, PlanningInv, NEW t \in Scan, NEW i \in DOMAIN inst[t]
    PROVE  /\ DOMAIN Shards(t, i) = {BucketOf(u.key, Width) : u \in ScanOutput(t, i)}
           /\ \A c \in DOMAIN Shards(t, i) :
                Shards(t, i)[c] = InBucket(ScanOutput(t, i), c, Width)
  <1>1. listing[t][i].num_buckets = Width
    <2>1. listing[t][i] = [ref |-> i + 1, num_buckets |-> NumBuckets(t)]
      BY ScanFacts
    <2> QED
      BY <2>1 DEF Width, NumBuckets
  <1>2. Shards(t, i) = HashPartition(ScanOutput(t, i), Width)
    BY <1>1 DEF Shards
  <1> QED
    BY <1>2 DEF HashPartition, InBucket

LEMMA ShardOnDisk ==
    ASSUME IInv, NEW t \in Scan, AllWritten(t), NEW i \in DOMAIN inst[t],
           NEW c \in DOMAIN Shards(t, i)
    PROVE  /\ inst[t][i].files = ShardFiles(t, i)
           /\ disk[BucketFile(t, i, c)] = InBucket(ScanOutput(t, i), c, Width)
  <1>1. /\ inst[t][i].files = ShardFiles(t, i)
        /\ {f.path : f \in ShardFiles(t, i)} \subseteq DOMAIN disk
    BY DEF IInv, MapSideInv, ScanInstanceValid, AllWritten
  <1> DEFINE f == [path |-> BucketFile(t, i, c), bucket |-> c,
                   rows |-> Cardinality(Shards(t, i)[c])]
             p == BucketFile(t, i, c)
  <1>2. f \in ShardFiles(t, i) /\ f.path = p
    BY DEF ShardFiles
  <1>3. p \in DOMAIN disk
    BY <1>1, <1>2
  <1>4. p.stage = t /\ p.part = i /\ p.bucket = c
    BY DEF BucketFile
  <1>5. disk[p] = Shards(t, i)[c]
    BY <1>3, <1>4 DEF IInv, MapSideInv, FileValid
  <1> QED
    BY <1>1, <1>5, ShardsOfWidth DEF IInv

\* A reported file holds one bucket of what its instance output, not empty.
LEMMA ReportedFile ==
    ASSUME IInv, NEW t \in Scan, AllWritten(t), NEW f \in Reported(t)
    PROVE  \E i \in DOMAIN inst[t] :
             /\ disk[f.path] = InBucket(ScanOutput(t, i), f.bucket, Width)
             /\ disk[f.path] # {}
  <1>1. PICK i \in DOMAIN inst[t] : f \in inst[t][i].files
    BY DEF Reported
  <1>2. inst[t][i].files = ShardFiles(t, i)
    BY DEF IInv, MapSideInv, ScanInstanceValid, AllWritten
  <1>3. PICK c \in DOMAIN Shards(t, i) :
          f = [path |-> BucketFile(t, i, c), bucket |-> c,
               rows |-> Cardinality(Shards(t, i)[c])]
    BY <1>1, <1>2 DEF ShardFiles
  <1>4. f.path = BucketFile(t, i, c) /\ f.bucket = c
    BY <1>3
  <1>5. disk[f.path] = InBucket(ScanOutput(t, i), f.bucket, Width)
    BY <1>4, ShardOnDisk
  <1>6. PICK u \in ScanOutput(t, i) : BucketOf(u.key, Width) = c
    BY ShardsOfWidth DEF IInv
  <1> QED
    BY <1>4, <1>5, <1>6 DEF InBucket

\* Every tuple that a scan output is in a reported file of its bucket.
LEMMA OutputReported ==
    ASSUME IInv, NEW t \in Scan, AllWritten(t), NEW u \in Whole(t)
    PROVE  \E f \in Reported(t) : f.bucket = BucketOf(u.key, Width) /\ u \in disk[f.path]
  <1>1. PICK i \in DOMAIN inst[t] : u \in ScanOutput(t, i)
    BY DEF Whole
  <1> DEFINE c == BucketOf(u.key, Width)
             f == [path |-> BucketFile(t, i, c), bucket |-> c,
                   rows |-> Cardinality(Shards(t, i)[c])]
  <1>2. c \in DOMAIN Shards(t, i)
    BY <1>1, ShardsOfWidth DEF IInv
  <1>3. f \in Reported(t)
    <2>1. f \in ShardFiles(t, i)
      BY <1>2 DEF ShardFiles
    <2> HIDE DEF f
    <2> QED
      BY <1>2, <2>1, ShardOnDisk DEF Reported
  <1>4. u \in disk[f.path]
    BY <1>1, <1>2, ShardOnDisk DEF InBucket
  <1>5. f.bucket = c
    OBVIOUS
  <1> QED
    BY <1>3, <1>4, <1>5

\* So the files of one bucket id hold that bucket of the whole output.
LEMMA BucketContents ==
    ASSUME IInv, NEW t \in Scan, AllWritten(t), NEW b
    PROVE  /\ UNION {disk[p] : p \in PathsIn(Reported(t), b)} = InBucket(Whole(t), b, Width)
           /\ PathsIn(Reported(t), b) = {} <=> InBucket(Whole(t), b, Width) = {}
           /\ b \in BucketsIn(Reported(t)) <=> InBucket(Whole(t), b, Width) # {}
  <1>1. ASSUME NEW f \in Reported(t)
        PROVE  /\ disk[f.path] # {}
               /\ disk[f.path] \subseteq InBucket(Whole(t), f.bucket, Width)
    BY ReportedFile DEF InBucket, Whole
  <1>2. ASSUME NEW u \in InBucket(Whole(t), b, Width)
        PROVE  \E f \in Reported(t) : f.bucket = b /\ u \in disk[f.path]
    BY OutputReported DEF InBucket
  <1> DEFINE files == Reported(t)
             B == InBucket(Whole(t), b, Width)
  <1>3. \A p : p \in PathsIn(files, b) <=> \E f \in files : f.bucket = b /\ p = f.path
    BY DEF PathsIn
  <1>4. b \in BucketsIn(files) <=> \E f \in files : f.bucket = b
    BY DEF BucketsIn
  <1>5. \A f \in files : f.bucket = b => disk[f.path] # {} /\ disk[f.path] \subseteq B
    BY <1>1
  <1> HIDE DEF files, B
  <1>6. (\E f \in files : f.bucket = b) <=> B # {}
    BY <1>2, <1>5 DEF files, B
  <1>7. UNION {disk[p] : p \in PathsIn(files, b)} = B
    <2>1. ASSUME NEW u, u \in B
          PROVE  u \in UNION {disk[p] : p \in PathsIn(files, b)}
      BY <1>2, <1>3, <2>1 DEF files, B
    <2>2. ASSUME NEW u, u \in UNION {disk[p] : p \in PathsIn(files, b)}
          PROVE  u \in B
      BY <1>3, <1>5, <2>2
    <2> QED
      BY <2>1, <2>2
  <1>8. PathsIn(files, b) = {} <=> B = {}
    BY <1>3, <1>6
  <1> QED
    BY <1>4, <1>6, <1>7, <1>8 DEF files, B

LEMMA AllContents ==
    ASSUME IInv, NEW t \in Scan, AllWritten(t)
    PROVE  /\ UNION {disk[p] : p \in AllPaths(Reported(t))} = Whole(t)
           /\ AllPaths(Reported(t)) = {} <=> Whole(t) = {}
  <1>1. \A f \in Reported(t) : disk[f.path] # {} /\ disk[f.path] \subseteq Whole(t)
    BY ReportedFile DEF InBucket, Whole
  <1>2. \A u \in Whole(t) : \E f \in Reported(t) : u \in disk[f.path]
    BY OutputReported
  <1>3. \A p : p \in AllPaths(Reported(t)) <=> \E f \in Reported(t) : p = f.path
    BY DEF AllPaths
  <1>4. ASSUME NEW u, u \in UNION {disk[p] : p \in AllPaths(Reported(t))}
        PROVE  u \in Whole(t)
    BY <1>1, <1>3, <1>4
  <1>5. ASSUME NEW u, u \in Whole(t)
        PROVE  u \in UNION {disk[p] : p \in AllPaths(Reported(t))}
    BY <1>2, <1>3, <1>5
  <1> QED
    BY <1>1, <1>2, <1>3, <1>4, <1>5

-----------------------------------------------------------------------------
(* The answer, from the map side's whole output *)

LEMMA AnswerOfWhole ==
    ASSUME IInv, Query # "passthrough", \A t \in Scan : AllWritten(t)
    PROVE  WholeAnswer = IF Query = "join" THEN InnerJoin(Whole(Left), Whole(Right))
                                           ELSE GroupBy(Whole(Left))
  <1> DEFINE data(t) == [i \in DOMAIN listing[t] |-> source[t][listing[t][i].ref]]
             rows == [t \in Table |-> RowsListed(t)]
  <1>1. Scan = Table
    BY TableFacts
  <1>2. ASSUME NEW t \in Table
        PROVE  /\ rows[t] = UNION {data(t)[i] : i \in DOMAIN listing[t]}
               /\ Whole(t) = UNION {ScanSql(TuplesOf(data(t)[i])) : i \in DOMAIN listing[t]}
    <2>1. DOMAIN inst[t] = DOMAIN listing[t]
      BY <1>1, TableFacts, StageFacts DEF IInv, PlanningInv, GroupsFollowPlans, AllWritten, Kwargs
    <2> QED
      BY <2>1 DEF RowsListed, Whole, ScanOutput
  <1> HIDE DEF data, rows
  <1>3. CASE Query = "join"
    <2>1. ASSUME NEW t \in Table
          PROVE  Whole(t) = TuplesOf(rows[t])
      <3> DEFINE I == DOMAIN listing[t]
                 part == data(t)
      <3>1. \A T : ScanSql(T) = T
        BY <1>3 DEF ScanSql
      <3>2. Whole(t) = UNION {TuplesOf(part[i]) : i \in I} /\ rows[t] = UNION {part[i] : i \in I}
        BY <1>2, <3>1
      <3> HIDE DEF I, part
      <3>3. TuplesOf(UNION {part[i] : i \in I}) = UNION {TuplesOf(part[i]) : i \in I}
        BY DEF TuplesOf
      <3> QED
        BY <3>2, <3>3
    <2>2. Left \in Table /\ Right \in Table
      BY <1>3, TableFacts
    <2>3. Answer(rows) = InnerJoin(TuplesOf(rows[Left]), TuplesOf(rows[Right]))
      BY <1>3 DEF Answer
    <2> QED
      BY <1>3, <2>1, <2>2, <2>3 DEF WholeAnswer, rows
  <1>4. CASE Query = "aggregate"
    <2> DEFINE I == DOMAIN listing[Left]
               part == data(Left)
               kept == [i \in I |-> Where(TuplesOf(part[i]))]
    <2>1. \A T : ScanSql(T) = GroupBy(Where(T))
      BY <1>4 DEF ScanSql
    <2>2. /\ rows[Left] = UNION {part[i] : i \in I}
          /\ Whole(Left) = UNION {GroupBy(Where(TuplesOf(part[i]))) : i \in I}
      BY <1>2, <2>1, TableFacts
    <2>3. Answer(rows) = GroupBy(Where(TuplesOf(rows[Left])))
      BY <1>4 DEF Answer
    <2> HIDE DEF I, part
    <2>4. Where(TuplesOf(rows[Left])) = UNION {Where(TuplesOf(part[i])) : i \in I}
      BY <2>2, TuplesOfParts
    <2>5. /\ Whole(Left) = UNION {GroupBy(kept[i]) : i \in I}
          /\ Where(TuplesOf(rows[Left])) = UNION {kept[i] : i \in I}
      BY <2>2, <2>4
    <2> HIDE DEF kept
    <2>6. GroupBy(Whole(Left)) = Answer(rows)
      BY <2>3, <2>5, TwoPhaseGroupBy, SMTT(30)
    <2> QED
      BY <1>4, <2>6 DEF WholeAnswer, rows
  <1> QED
    BY <1>3, <1>4, QueryAssumption

-----------------------------------------------------------------------------
(* What the reduce side computes *)

\* Instance b outputs bucket b of the answer, and no tuple of it is left out.
OutputsBuckets ==
    /\ \A b \in DOMAIN plan : SinkOutput(b) = InBucket(WholeAnswer, b, Width)
    /\ \A x \in WholeAnswer : BucketOf(x.key, Width) \in DOMAIN plan

LEMMA AggregateBuckets ==
    ASSUME IInv, Query = "aggregate", AllWritten(Left), plan = PlanFor([t \in Table |-> Reported(t)])
    PROVE  OutputsBuckets
  <1> DEFINE files == [t \in Table |-> Reported(t)]
             W == Whole(Left)
  <1>1. Table = {Left} /\ Scan = {Left}
    BY DEF Table, Scan
  <1>2. WholeAnswer = GroupBy(W)
    BY <1>1, AnswerOfWhole
  <1>3. plan = GatherMulti(files) /\ DOMAIN files = {Left} /\ files[Left] = Reported(Left)
    BY <1>1 DEF PlanFor
  <1>4. \A b : /\ PathsIn(Reported(Left), b) = {} <=> InBucket(W, b, Width) = {}
               /\ b \in BucketsIn(Reported(Left)) <=> InBucket(W, b, Width) # {}
               /\ UNION {disk[p] : p \in PathsIn(Reported(Left), b)} = InBucket(W, b, Width)
    BY <1>1, BucketContents
  <1> HIDE DEF files, W
  <1>5. DOMAIN plan = {b \in BucketsIn(files[Left]) : PathsIn(files[Left], b) # {}}
    BY <1>3 DEF GatherMulti
  <1>6. \A b \in DOMAIN plan : plan[b][Left] = PathsIn(files[Left], b)
    BY <1>3 DEF GatherMulti
  <1>7. ASSUME NEW b \in DOMAIN plan
        PROVE  SinkOutput(b) = InBucket(WholeAnswer, b, Width)
    <2>1. InputOf(Sink, b)[Left] = UNION {disk[p] : p \in plan[b][Left]}
      BY <1>1, TableFacts DEF InputOf, SourceFed
    <2>2. InputOf(Sink, b)[Left] = InBucket(W, b, Width)
      BY <1>3, <1>4, <1>6, <2>1
    <2>3. SinkOutput(b) = GroupBy(InputOf(Sink, b)[Left])
      BY DEF SinkOutput, SinkSql
    <2> QED
      BY <1>2, <2>2, <2>3, GroupByBucket
  <1>8. ASSUME NEW x \in WholeAnswer
        PROVE  BucketOf(x.key, Width) \in DOMAIN plan
    <2>1. PICK t \in W : x.key = t.key
      BY <1>2, GroupByIn
    <2>2. t \in InBucket(W, BucketOf(x.key, Width), Width)
      BY <2>1 DEF InBucket
    <2> QED
      BY <1>3, <1>4, <1>5, <2>2
  <1> QED
    BY <1>7, <1>8 DEF OutputsBuckets

LEMMA JoinBuckets ==
    ASSUME IInv, Query = "join", AllWritten(Left), AllWritten(Right),
           plan = PlanFor([t \in Table |-> Reported(t)])
    PROVE  OutputsBuckets
  <1> DEFINE files == [t \in Table |-> Reported(t)]
             whole == [t \in Table |-> Whole(t)]
  <1>1. Table = {Left, Right} /\ Scan = {Left, Right} /\ Left # Right
    BY TableFacts
  <1>2. WholeAnswer = InnerJoin(whole[Left], whole[Right])
    BY <1>1, AnswerOfWhole
  <1>3. FilesHold(files, disk, whole, Width)
    BY <1>1, BucketContents, AllContents DEF FilesHold, HeldBy
  <1>4. plan = ChooseJoinStrategy(files, BroadcastThreshold)
    BY DEF PlanFor
  <1>5. DOMAIN files = Table
    OBVIOUS
  <1>6. \A b \in DOMAIN plan :
           SinkOutput(b) = InnerJoin(HeldBy(disk, plan[b][Left]), HeldBy(disk, plan[b][Right]))
    BY <1>1, TableFacts DEF SinkOutput, SinkSql, InputOf, SourceFed, HeldBy
  <1> HIDE DEF files, whole
  <1>7. JoinsBuckets(plan, disk, whole, Width)
    BY <1>3, <1>4, <1>5, JoinPlanBuckets
  <1> QED
    BY <1>2, <1>6, <1>7 DEF OutputsBuckets, JoinsBuckets

-----------------------------------------------------------------------------
(* The published answer *)

\* Once the sink stage is written, or skipped, its result files are those that
\* its instances output.
LEMMA ResultFiles ==
    ASSUME IInv, AllWritten(Sink) \/ group[Sink] = "skipped"
    PROVE  /\ group[Sink] = "skipped" => DOMAIN inst[Sink] = {}
           /\ \A i \in DOMAIN inst[Sink] : sinkDir[i] = SinkOutput(i)
  <1>1. group[Sink] = "skipped" => DOMAIN inst[Sink] = {}
    BY TableFacts DEF IInv, PlanningInv, GroupsFollowPlans
  <1> QED
    BY <1>1 DEF IInv, SinkSideInv, SinkInstanceValid, AllWritten

\* There is one result file for each entry of the plan, or there was no plan
\* because a scan had nothing to read.
LEMMA PlannedOrSkipped ==
    ASSUME IInv, AllWritten(Sink) \/ group[Sink] = "skipped"
    PROVE  \/ ti[PlannerOf(Sink)] = "success" /\ DOMAIN inst[Sink] = DOMAIN Kwargs(Sink)
           \/ /\ Query # "passthrough" /\ DOMAIN inst[Sink] = {}
              /\ \E s \in Scan : ti[s] = "success" /\ DOMAIN listing[s] = {}
  <1>1. Sink \in Stage
    BY TableFacts
  <1>2. CASE AllWritten(Sink)
    BY <1>1, <1>2 DEF IInv, PlanningInv, GroupsFollowPlans, AllWritten
  <1>3. CASE group[Sink] = "skipped"
    <2>0. DOMAIN inst[Sink] = {}
      BY <1>3, ResultFiles
    <2>1. CASE ti[PlannerOf(Sink)] = "success"
      BY <1>1, <1>3, <2>0, <2>1 DEF IInv, SkippedForNothing
    <2>2. CASE ti[PlannerOf(Sink)] # "success"
      <3>1. ti[PlannerOf(Sink)] = "skipped"
        BY <1>1, <1>3, <2>2 DEF IInv, SkippedForNothing
      <3>2. PlannerOf(Sink) \notin Table
        BY <3>1, TaskFacts DEF IInv, SkippedForNothing
      <3>3. PlannerOf(Sink) = "gather" /\ Query # "passthrough" /\ "gather" \in Task
        BY <1>1, <3>2, StageFacts
      <3>4. PICK s \in Scan : group[s] = "skipped"
        BY <3>1, <3>3 DEF IInv, SkippedForNothing
      <3>5. /\ s \in Stage /\ s \in Table /\ SourceFed(s)
            /\ SourceOf(s) = s /\ PlannerOf(s) = s
        BY TableFacts, StageFacts
      <3>6. ti[s] # "skipped"
        BY <3>5, TaskFacts DEF IInv, SkippedForNothing
      <3>7. ti[s] = "success" /\ DOMAIN listing[s] = {}
        BY <3>4, <3>5, <3>6 DEF IInv, SkippedForNothing, Kwargs
      <3> QED
        BY <2>0, <3>3, <3>7
    <2> QED
      BY <2>1, <2>2
  <1> QED
    BY <1>2, <1>3

\* Without rows to scan on some side there is no answer tuple.
LEMMA NothingToScan ==
    ASSUME Query # "passthrough", NEW s \in Scan, NEW rows, rows[s] = {}
    PROVE  Answer(rows) = {}
  <1>1. s \in Table
    BY TableFacts
  <1>2. TuplesOf(rows[s]) = {}
    BY DEF TuplesOf
  <1>3. CASE Query = "join"
    <2>1. Answer(rows) = InnerJoin(TuplesOf(rows[Left]), TuplesOf(rows[Right]))
      BY <1>3 DEF Answer
    <2>2. TuplesOf(rows[Left]) = {} \/ TuplesOf(rows[Right]) = {}
      BY <1>1, <1>2, <1>3, TableFacts
    <2> QED
      BY <2>1, <2>2, InnerJoinIn
  <1>4. CASE Query = "aggregate"
    <2>1. Answer(rows) = GroupBy(Where({}))
      BY <1>1, <1>2, <1>4, TableFacts DEF Answer
    <2> QED
      BY <2>1 DEF Where, GroupBy
  <1> QED
    BY <1>3, <1>4, QueryAssumption

LEMMA PassthroughResult ==
    ASSUME IInv, Query = "passthrough", NEW K, K = DOMAIN listing[Left]
    PROVE  /\ UNION {SinkOutput(i) : i \in K} = WholeAnswer
           /\ \A i, j \in K : i # j => SinkOutput(i) \cap SinkOutput(j) = {}
  <1> DEFINE part == [i \in K |-> source[Left][listing[Left][i].ref]]
  <1>1. Left \in Table /\ SourceFed(Sink) /\ SourceOf(Sink) = Left
    BY TableFacts DEF SourceFed, SourceOf
  <1>2. \A i \in K : SinkOutput(i) = Where(TuplesOf(part[i]))
    BY <1>1 DEF SinkOutput, SinkSql, InputOf
  <1>3. WholeAnswer = Where(TuplesOf(UNION {part[i] : i \in K}))
    BY <1>1 DEF WholeAnswer, Answer, RowsListed
  <1>4. ASSUME NEW i \in K, NEW j \in K, i # j
        PROVE  part[i] \cap part[j] = {}
    <2>1. /\ listing[Left][i] = [ref |-> i + 1, num_buckets |-> NumBuckets(Left)]
          /\ listing[Left][j] = [ref |-> j + 1, num_buckets |-> NumBuckets(Left)]
          /\ i + 1 <= Len(source[Left]) /\ j + 1 <= Len(source[Left])
          /\ i \in Nat /\ j \in Nat /\ Len(source[Left]) \in Nat
      BY <1>1 DEF IInv, PlanningInv, ListingValid, TypeOK, IsPartial
    <2>2. /\ listing[Left][i].ref = i + 1 /\ listing[Left][j].ref = j + 1
          /\ i + 1 \in 1..Len(source[Left]) /\ j + 1 \in 1..Len(source[Left])
          /\ i + 1 # j + 1
      BY <1>4, <2>1
    <2>3. source[Left][i + 1] \cap source[Left][j + 1] = {}
      BY <1>1, <2>2 DEF IInv, IsSource
    <2> QED
      BY <2>2, <2>3
  <1> HIDE DEF part
  <1>5. WholeAnswer = UNION {Where(TuplesOf(part[i])) : i \in K}
    BY <1>3 DEF Where, TuplesOf
  <1> QED
    BY <1>2, <1>4, <1>5, TuplesOfDisjoint

LEMMA SettledResult ==
    ASSUME IInv, AllWritten(Sink) \/ group[Sink] = "skipped"
    PROVE  /\ UNION {sinkDir[i] : i \in DOMAIN inst[Sink]} = WholeAnswer
           /\ \A i, j \in DOMAIN inst[Sink] : i # j => sinkDir[i] \cap sinkDir[j] = {}
  <1> DEFINE K == DOMAIN inst[Sink]
  <1>1. \A i \in K : sinkDir[i] = SinkOutput(i)
    BY ResultFiles
  <1>2. UNION {sinkDir[i] : i \in K} = UNION {SinkOutput(i) : i \in K}
    BY <1>1
  <1> HIDE DEF K
  <1>3. CASE K = {} /\ Query # "passthrough" /\ \E s \in Scan : DOMAIN listing[s] = {}
    <2>1. PICK s \in Scan : DOMAIN listing[s] = {}
      BY <1>3
    <2>2. [t \in Table |-> RowsListed(t)][s] = {}
      BY <2>1, TableFacts DEF RowsListed
    <2>3. WholeAnswer = {}
      BY <1>3, <2>2, NothingToScan DEF WholeAnswer
    <2> QED
      BY <1>3, <2>3 DEF K
  <1>4. CASE Query = "passthrough" /\ K = DOMAIN Kwargs(Sink)
    <2>1. K = DOMAIN listing[Left]
      BY <1>4 DEF Kwargs, SourceFed, SourceOf
    <2> QED
      BY <1>1, <1>2, <1>4, <2>1, PassthroughResult DEF K
  <1>5. CASE /\ Query # "passthrough"
             /\ ti[PlannerOf(Sink)] = "success" /\ K = DOMAIN Kwargs(Sink)
    <2>1. ~SourceFed(Sink)
      BY <1>5, TableFacts DEF SourceFed
    <2>2. ti["gather"] = "success" /\ K = DOMAIN plan /\ "gather" \in Task
      BY <1>5, <2>1, TaskFacts DEF PlannerOf, Kwargs
    <2>3. /\ \A s \in Scan : AllWritten(s)
          /\ plan = PlanFor([t \in Table |-> Reported(t)])
      BY <2>2 DEF IInv, GatherInv
    <2>4. OutputsBuckets
      <3>1. CASE Query = "join"
        BY <2>3, <3>1, JoinBuckets, TableFacts
      <3>2. CASE Query = "aggregate"
        BY <2>3, <3>2, AggregateBuckets, TableFacts
      <3> QED
        BY <1>5, <3>1, <3>2, QueryAssumption
    <2>5. \A i \in K : sinkDir[i] = InBucket(WholeAnswer, i, Width)
      BY <1>1, <2>2, <2>4 DEF OutputsBuckets
    <2>6. \A x \in WholeAnswer : BucketOf(x.key, Width) \in K
      BY <2>2, <2>4 DEF OutputsBuckets
    <2> QED
      BY <2>5, <2>6 DEF InBucket, K
  <1> QED
    BY <1>3, <1>4, <1>5, PlannedOrSkipped DEF K

\* Whenever a run has committed, it has published the answer of the whole query
\* over the data files it listed, without a tuple lost or repeated: for every
\* query shape, source, key, hash function, bucketing policy and broadcast
\* threshold, with any number of attempts dying and writing late.
THEOREM ResultCorrectAlways == Spec => []ResultCorrect
  <1>1. ASSUME IInv
        PROVE  ResultCorrect
    <2>1. published => /\ committed = DOMAIN inst[Sink]
                       /\ AllWritten(Sink) \/ group[Sink] = "skipped"
      BY <1>1 DEF IInv, CommitInv
    <2> QED
      BY <1>1, <2>1, SettledResult DEF ResultCorrect, Result, WholeAnswer
  <1> QED
    BY <1>1, InductiveInvariant, PTL

-----------------------------------------------------------------------------
(* Refinement *)

\* The rows listed of a table are those of the version it had then.
LEMMA ListedVersion ==
    ASSUME IInv, NEW t \in Table, NEW k \in opened[t]..Len(source[t]),
           DOMAIN listing[t] = 0..(k - 1)
    PROVE  RowsListed(t) = RowsIn(SubSeq(source[t], 1, k))
  <1> DEFINE s == source[t]
             sub == SubSeq(s, 1, k)
  <1>1. s \in Seq(SUBSET Row) /\ Len(s) \in Nat /\ opened[t] \in Nat
    BY DEF IInv, TypeOK
  <1>2. k \in Nat /\ k <= Len(s)
    BY <1>1
  <1>3. Len(sub) = k /\ \A j \in 1..k : sub[j] = s[j]
    BY <1>1, <1>2
  <1>4. ASSUME NEW i \in 0..(k - 1)
        PROVE  listing[t][i].ref = i + 1
    <2>1. listing[t][i] = [ref |-> i + 1, num_buckets |-> NumBuckets(t)]
      BY DEF IInv, PlanningInv, ListingValid
    <2> QED
      BY <2>1
  <1>5. RowsListed(t) = UNION {s[i + 1] : i \in 0..(k - 1)}
    BY <1>4 DEF RowsListed
  <1>6. RowsIn(sub) = UNION {s[j] : j \in 1..k}
    BY <1>3 DEF RowsIn
  <1> HIDE DEF s, sub
  <1>7. \A r : (\E i \in 0..(k - 1) : r \in s[i + 1]) <=> (\E j \in 1..k : r \in s[j])
    <2>1. \A i \in 0..(k - 1) : i + 1 \in 1..k
      BY <1>2
    <2>2. \A j \in 1..k : j - 1 \in 0..(k - 1) /\ (j - 1) + 1 = j
      BY <1>2
    <2> QED
      BY <2>1, <2>2
  <1> QED
    BY <1>5, <1>6, <1>7 DEF s, sub

\* The answer is that over versions of the tables that the run has seen.
LEMMA AnswerOfVersions ==
    ASSUME IInv, AllWritten(Sink) \/ group[Sink] = "skipped"
    PROVE  \E v \in QR!VersionsSeen : WholeAnswer = Answer(QR!RowsAt(v))
  <1> DEFINE Is(t, k) == DOMAIN listing[t] = 0..(k - 1)
             ver(t) == IF ti[t] = "success"
                       THEN CHOOSE k \in opened[t]..Len(source[t]) : Is(t, k)
                       ELSE opened[t]
             v == [t \in Table |-> ver(t)]
             rows == QR!RowsAt(v)
  <1>1. ASSUME NEW t \in Table
        PROVE  /\ v[t] \in opened[t]..Len(source[t])
               /\ ti[t] = "success" => rows[t] = RowsListed(t) /\ Is(t, v[t])
    <2>1. /\ opened[t] \in Nat /\ Len(source[t]) \in Nat /\ opened[t] <= Len(source[t])
          /\ ti[t] = "success" => \E k \in opened[t]..Len(source[t]) : Is(t, k)
      BY DEF IInv, VersionInv, TypeOK
    <2> HIDE DEF Is
    <2>2. /\ v[t] \in opened[t]..Len(source[t])
          /\ ti[t] = "success" => Is(t, v[t])
      BY <2>1
    <2>3. rows[t] = RowsIn(SubSeq(source[t], 1, v[t]))
      BY DEF QR!RowsAt, QR!RowsIn, RowsIn, QR!Table, Table
    <2> HIDE DEF v, rows
    <2> QED
      BY <2>2, <2>3, ListedVersion DEF Is
  <1>2. v \in QR!VersionsSeen
    <2>1. v \in [Table -> UNION {opened[t]..Len(source[t]) : t \in Table}]
      BY <1>1
    <2> QED
      BY <1>1, <2>1 DEF QR!VersionsSeen, QR!Table, Table
  <1>3. DOMAIN rows = Table
    BY DEF QR!RowsAt, QR!Table, Table
  <1>4. rows = [t \in Table |-> rows[t]]
    BY DEF QR!RowsAt, QR!Table, Table
  <1> HIDE DEF v, rows, Is
  <1>5. CASE /\ Query # "passthrough"
             /\ \E s \in Scan : ti[s] = "success" /\ DOMAIN listing[s] = {}
    <2>1. PICK s \in Scan : ti[s] = "success" /\ DOMAIN listing[s] = {}
      BY <1>5
    <2>2. rows[s] = {} /\ RowsListed(s) = {}
      BY <1>1, <2>1, TableFacts DEF RowsListed
    <2>3. [t \in Table |-> RowsListed(t)][s] = {}
      BY <2>2, TableFacts
    <2> QED
      BY <1>2, <1>5, <2>2, <2>3, NothingToScan DEF WholeAnswer, rows
  <1>6. CASE ti[PlannerOf(Sink)] = "success"
    <2>1. \A t \in Table : ti[t] = "success"
      <3>1. CASE Query = "passthrough"
        BY <1>6, <3>1, TableFacts DEF PlannerOf, SourceFed, SourceOf
      <3>2. CASE Query # "passthrough"
        <4>1. ti["gather"] = "success" /\ "gather" \in Task /\ Scan = Table
          BY <1>6, <3>2, TableFacts, TaskFacts DEF PlannerOf, SourceFed
        <4>2. \A s \in Scan : AllWritten(s)
          BY <4>1 DEF IInv, GatherInv
        <4> QED
          BY <4>1, <4>2, StageFacts, TableFacts
             DEF IInv, PlanningInv, GroupsFollowPlans, AllWritten
      <3> QED
        BY <3>1, <3>2
    <2>2. rows = [t \in Table |-> RowsListed(t)]
      BY <1>1, <1>4, <2>1
    <2> QED
      BY <1>2, <2>2 DEF WholeAnswer, rows
  <1> QED
    BY <1>5, <1>6, PlannedOrSkipped

LEMMA SameAnswer == \A rows : QR!Answer(rows) = Answer(rows)
  BY DEF QR!Answer, QR!Where, QR!TuplesOf, QR!GroupBy, QR!InnerJoin, QR!Joined, QR!Matches,
         Answer, Where, TuplesOf, GroupBy, InnerJoin, Joined, Matches

\* The steps that publish change nothing else that a query run promises.
LEMMA PublishingSteps ==
    ASSUME [Next]_vars, published' # published
    PROVE  published' = TRUE /\ UNCHANGED <<source, opened, sinkDir>>
  <1>1. ~(Grow \/ Done \/ UNCHANGED vars)
    BY DEF Grow, Done, vars, sinkVars
  <1>2. ~InstanceStep
    BY DEF InstanceStep, Read, ComputeResult, WriteBuckets, WriteToSink, sinkVars
  <1>3. ~SchedulerStep
    BY DEF SchedulerStep, ExpandStage, PropagateToStage, Propagate, SettleFailure, sinkVars
  <1>4. CASE PlannerStep
    BY <1>4 DEF PlannerStep, MakeWorkDir, PlanWidth, Prepare, Gather, Finalize, Publish, sinkVars
  <1>5. CASE FaultStep
    BY <1>5
       DEF FaultStep, GiveUpTask, GiveUpInstance, LateWrite, LateSinkWrite, LateCommit,
           Publish, sinkVars
  <1> QED
    BY <1>1, <1>2, <1>3, <1>4, <1>5 DEF Next, Progress

\* What a run publishes, as QueryRun sees it.
Published == IF published THEN Result ELSE NoAnswer

LEMMA RefinePublish ==
    ASSUME IInv, [Next]_vars, published' # published
    PROVE  QR!Publish
  <1>1. published' = TRUE /\ published = FALSE /\ UNCHANGED <<source, opened, sinkDir>>
    BY PublishingSteps DEF IInv, TypeOK
  <1>2. AllWritten(Sink) \/ group[Sink] = "skipped"
    BY <1>1, CommitSteps, SinkSettledForFinalize DEF IInv, CommitInv
  <1>3. committed' = DOMAIN inst[Sink]
    BY <1>1, <1>2, CommitSteps, SinkSettledStays DEF IInv
  <1>4. Result' = WholeAnswer
    <2>1. Result' = UNION {sinkDir[i] : i \in DOMAIN inst[Sink]}
      BY <1>1, <1>3 DEF Result
    <2> QED
      BY <1>2, <2>1, SettledResult
  <1>5. \E v \in QR!VersionsSeen : Result' = QR!Answer(QR!RowsAt(v))
    BY <1>2, <1>4, AnswerOfVersions, SameAnswer
  <1> QED
    BY <1>1, <1>5 DEF QR!Publish

LEMMA RefineOthers ==
    ASSUME IInv, [Next]_vars, published' = published
    PROVE  [QR!Next]_(QR!vars)
  <1>1. Published' = Published
    <2>1. CASE published
      <3>1. committed = DOMAIN inst[Sink] /\ (AllWritten(Sink) \/ group[Sink] = "skipped")
        BY <2>1 DEF IInv, CommitInv
      <3>2. committed' = committed
        BY <3>1, CommitSteps, SinkSettledStays DEF IInv
      <3>3. \A i \in committed : i \in DOMAIN sinkDir
        BY <3>1, TableFacts
           DEF IInv, SinkSideInv, SinkInstanceValid, AllWritten, PlanningInv, GroupsFollowPlans
      <3>4. \A i \in committed : sinkDir'[i] = sinkDir[i]
        BY <3>3, SinkDirStable
      <3> QED
        BY <2>1, <3>2, <3>4 DEF Published, Result
    <2>2. CASE ~published
      BY <2>2 DEF Published
    <2> QED
      BY <2>1, <2>2
  <1>2. opened' = opened /\ (source' = source \/ \E t \in Table : AppendPartition(t))
    BY OpenedStays
  <1>3. CASE source' = source
    BY <1>1, <1>2, <1>3 DEF QR!vars, Published
  <1>4. ASSUME NEW t \in Table, AppendPartition(t)
        PROVE  QR!Next
    <2>1. QR!AppendPartition(t)
      BY <1>4 DEF AppendPartition, QR!AppendPartition, RowsIn, QR!RowsIn
    <2> QED
      BY <1>1, <1>2, <2>1 DEF QR!Next, QR!Grow, QR!Table, Table, Published
  <1> QED
    BY <1>2, <1>3, <1>4

\* A DAG run implements the promise of a query run: it publishes at most once,
\* the answer is that of the whole query over versions of the tables that were
\* current during the run, and no retry, late attempt or other writer changes
\* it afterwards.
THEOREM Refinement == Spec => RefinesQueryRun
  <1>1. Init => QR!Init
    <2> SUFFICES ASSUME Init PROVE QR!Init
      OBVIOUS
    <2> QED
      BY DEF Init, QR!Init, QR!Table, Table
  <1>2. IInv /\ [Next]_vars => [QR!Next]_(QR!vars)
    BY RefinePublish, RefineOthers DEF QR!Next
  <1> QED
    BY <1>1, <1>2, InductiveInvariant, PTL DEF Spec, RefinesQueryRun, QR!Spec

-----------------------------------------------------------------------------
(* Every file of the map side is planned once *)

\* The path of a reported file tells its bucket, so that it is grouped under
\* one bucket id only.
LEMMA ReportedOnce ==
    ASSUME IInv, NEW t \in Scan, AllWritten(t)
    PROVE  \A f \in Reported(t) :
             /\ f.path \in AllPaths(Reported(t)) /\ f.bucket \in BucketsIn(Reported(t))
             /\ \A b : f.path \in PathsIn(Reported(t), b) <=> b = f.bucket
  <1>1. ASSUME NEW f \in Reported(t)
        PROVE  f.path.bucket = f.bucket
    <2>1. PICK i \in DOMAIN inst[t] : f \in inst[t][i].files
      BY <1>1 DEF Reported
    <2>2. inst[t][i].files = ShardFiles(t, i)
      BY DEF IInv, MapSideInv, ScanInstanceValid, AllWritten
    <2>3. PICK c \in DOMAIN Shards(t, i) :
            f = [path |-> BucketFile(t, i, c), bucket |-> c,
                 rows |-> Cardinality(Shards(t, i)[c])]
      BY <2>1, <2>2 DEF ShardFiles
    <2>4. f.path = BucketFile(t, i, c) /\ f.bucket = c /\ BucketFile(t, i, c).bucket = c
      BY <2>3 DEF BucketFile
    <2> QED
      BY <2>4
  <1> DEFINE files == Reported(t)
  <1>2. ASSUME NEW f \in files, NEW b
        PROVE  f.path \in PathsIn(files, b) <=> b = f.bucket
    BY <1>1 DEF PathsIn
  <1> HIDE DEF files
  <1>3. \A f \in files : f.path \in AllPaths(files) /\ f.bucket \in BucketsIn(files)
    BY DEF AllPaths, BucketsIn
  <1> QED
    BY <1>2, <1>3 DEF files

\* Two tuples that match are in files of one bucket id.
LEMMA MatchesShareBucket ==
    ASSUME IInv, Query = "join", AllWritten(Left), AllWritten(Right),
           NEW f \in Reported(Left), NEW g \in Reported(Right),
           NEW l \in disk[f.path], NEW r \in disk[g.path], Matches(l, r)
    PROVE  f.bucket = g.bucket
  <1>1. Left \in Scan /\ Right \in Scan
    BY TableFacts
  <1>2. BucketOf(l.key, Width) = f.bucket
    BY <1>1, ReportedFile DEF InBucket
  <1>3. BucketOf(r.key, Width) = g.bucket
    BY <1>1, ReportedFile DEF InBucket
  <1> QED
    BY <1>2, <1>3 DEF Matches

\* A GROUP BY over bucket files reads each file once, and the two files of a
\* pair of rows that join meet in one reduce instance, whatever the strategy.
THEOREM PlanReadsOnceAlways == Query # "passthrough" => (Spec => []PlanReadsOnce)
  <1> SUFFICES ASSUME Query # "passthrough"
               PROVE  Spec => []PlanReadsOnce
    OBVIOUS
  <1>1. IInv => PlanReadsOnce
    <2> SUFFICES ASSUME IInv, ti["gather"] = "success"
                 PROVE  PlanReadsOnce
      BY DEF PlanReadsOnce
    <2> DEFINE files == [t \in Table |-> Reported(t)]
    <2>1. Scan = Table /\ (\A t \in Table : AllWritten(t)) /\ plan = PlanFor(files)
      BY TaskFacts, TableFacts DEF IInv, GatherInv
    <2>2. /\ \A t \in Table : files[t] = Reported(t)
          /\ DOMAIN files = Table
      OBVIOUS
    <2> HIDE DEF files
    <2>3. CASE Query = "aggregate"
      <3>1. plan = GatherMulti(files) /\ Table = {Left}
        BY <2>1, <2>3, TableFacts DEF PlanFor
      <3>2. \A b \in DOMAIN plan : plan[b][Left] = PathsIn(Reported(Left), b)
        BY <2>2, <3>1 DEF GatherMulti
      <3>3. ASSUME NEW f \in Reported(Left)
            PROVE  f.bucket \in DOMAIN plan
        <4>1. f.bucket \in BucketsIn(files[Left]) /\ PathsIn(files[Left], f.bucket) # {}
          BY <2>1, <2>2, <3>1, ReportedOnce
        <4> QED
          BY <2>2, <3>1, <4>1 DEF GatherMulti
      <3>4. ASSUME NEW f \in Reported(Left)
            PROVE  Cardinality({b \in DOMAIN plan : f.path \in plan[b][Left]}) = 1
        <4> DEFINE readers == {b \in DOMAIN plan : f.path \in plan[b][Left]}
        <4>1. \A b : b \in readers <=> b = f.bucket
          BY <2>1, <3>1, <3>2, <3>3, ReportedOnce
        <4>2. readers = {f.bucket}
          BY <4>1
        <4> QED
          BY <4>2, FS_Singleton
      <3> QED
        BY <2>3, <3>4 DEF PlanReadsOnce
    <2>4. CASE Query = "join"
      <3>0. Table = {Left, Right} /\ Left # Right /\ Left \in Scan /\ Right \in Scan
        BY <2>1, <2>4, TableFacts
      <3> SUFFICES ASSUME NEW f \in Reported(Left), NEW g \in Reported(Right),
                          NEW l \in disk[f.path], NEW r \in disk[g.path], Matches(l, r)
                   PROVE  Cardinality({b \in DOMAIN plan :
                              f.path \in plan[b][Left] /\ g.path \in plan[b][Right]}) = 1
        BY <2>4 DEF PlanReadsOnce
      <3>1. f.bucket = g.bucket
        BY <2>1, <2>4, <3>0, MatchesShareBucket
      <3>2. /\ f.path \in AllPaths(files[Left]) /\ g.path \in AllPaths(files[Right])
            /\ f.bucket \in BucketsIn(files[Left]) /\ f.bucket \in BucketsIn(files[Right])
            /\ \A b : f.path \in PathsIn(files[Left], b) <=> b = f.bucket
            /\ \A b : g.path \in PathsIn(files[Right], b) <=> b = f.bucket
        BY <2>1, <2>2, <3>0, <3>1, ReportedOnce
      <3> DEFINE readers == {b \in DOMAIN plan :
                                f.path \in plan[b][Left] /\ g.path \in plan[b][Right]}
      <3>3. \A b : b \in readers <=> b = f.bucket
        <4>1. \/ plan = GatherMulti(files)
              \/ plan = BroadcastPlan(files, Left, Right)
              \/ plan = BroadcastPlan(files, Right, Left)
          BY <2>1, <2>4 DEF PlanFor, ChooseJoinStrategy
        <4>2. CASE plan = GatherMulti(files)
          <5>1. f.bucket \in DOMAIN plan
            BY <2>2, <3>0, <3>2, <4>2 DEF GatherMulti
          <5>2. \A b \in DOMAIN plan : /\ plan[b][Left] = PathsIn(files[Left], b)
                                       /\ plan[b][Right] = PathsIn(files[Right], b)
            BY <2>2, <3>0, <4>2 DEF GatherMulti
          <5> QED
            BY <3>2, <5>1, <5>2
        <4>3. CASE plan = BroadcastPlan(files, Left, Right)
          <5>1. f.bucket \in DOMAIN plan
            BY <3>2, <4>3 DEF BroadcastPlan
          <5>2. \A b \in DOMAIN plan : /\ plan[b][Left] = PathsIn(files[Left], b)
                                       /\ plan[b][Right] = AllPaths(files[Right])
            BY <3>0, <4>3 DEF BroadcastPlan
          <5> QED
            BY <3>2, <5>1, <5>2
        <4>4. CASE plan = BroadcastPlan(files, Right, Left)
          <5>1. f.bucket \in DOMAIN plan
            BY <3>2, <4>4 DEF BroadcastPlan
          <5>2. \A b \in DOMAIN plan : /\ plan[b][Right] = PathsIn(files[Right], b)
                                       /\ plan[b][Left] = AllPaths(files[Left])
            BY <3>0, <4>4 DEF BroadcastPlan
          <5> QED
            BY <3>2, <5>1, <5>2
        <4> QED
          BY <4>1, <4>2, <4>3, <4>4
      <3>4. readers = {f.bucket}
        BY <3>3
      <3> QED
        BY <3>4, FS_Singleton
    <2> QED
      BY <2>3, <2>4, QueryAssumption
  <1> QED
    BY <1>1, InductiveInvariant, PTL
================================================================================
