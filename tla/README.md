# A verification development for sql-as-dag

`sql-as-dag` compiles a SQL query into a graph of stages, builds an Airflow DAG from the graph, and
runs it: scans shuffle their output into Parquet bucket files, a reduce side pairs the buckets, and a
sink publishes the result. Only paths and small metadata cross between tasks; every task is a separate
process that may die and be tried again. This directory models that system in TLA+, checks the models
with TLC on small instances, and proves the central results with TLAPS for every instance.

The question behind all of it is the one `docs/limitations.md` sets: the engine *never silently returns
a wrong number*. So the top-level statement is that what a run publishes is the answer of the whole
query, whatever interleaving, retry, late attempt or growing source the run met.

## 1. Inventory of the system

| Part | State it keeps | Operations | Talks to |
| --- | --- | --- | --- |
| DAG factory, `dag/factory.py` | none of its own at run time; Airflow keeps task states and XComs, the work directory keeps bucket files | `make_work_dir`, `plan_shuffle_width_*`, `plan_partitions_*`, `gather_shuffle_*`, mapped `read → compute → write`, `finalize` | all others, by XCom and files |
| Graph checks and wiring, `dag/factory.py` | a graph, at parse time | `_copartition_groups`, `_check_supported`, the wiring loop | Stage IR |
| Run identity, `dag/factory.py` | the work directory's path | `_mint_work_dir`, `run_key` | sinks, through every task's kwargs |
| Shuffle, `runtime/shuffle.py` | none | `hash_partition` | `write` of scan stages |
| Coordinator, `runtime/coordinator.py` | none | `gather_multi`, `choose_join_strategy`, `gather_shuffle` | gather tasks |
| Bucketing policy, `ir.py` | none | `compute` | width planner |
| Stage IR, `ir.py` | plain data | constructors, `validate` | compiler, factory |
| SQL compiler, `compiler/sql_compiler.py` | none | `_classify` and the refusals, `_extract_*`, `_emit_*`: the stages and their SQL | DataFusion, IR |
| Executor and I/O, `runtime/executor.py`, `runtime/io.py` | files | `execute_sql`, `read_concat`, `read_table`, `write_table` | stage runner |
| Source connectors | the source tables, which others may append to | `list_partitions`, `read_partition`, estimates | planners, `read` |
| Iceberg sink, `connectors/iceberg.py` | staged data files, the table's snapshots | `write`, `finalize` (`_ensure_table`, `_committed_paths`, `add_files`) | the catalog, other runs |
| Parquet sink, `connectors/parquet.py` | a result directory per run, `_SUCCESS`, `_LATEST` | `write`, `finalize` | other runs, and the consumers that follow `_LATEST` |
| Registry, XCom types, provider info | dictionaries and types | look-ups | - |

What is hard here is not in one function. It is in what happens between them: a width decided from
metadata that is out of date when the tables are listed; two scans planned at different times that must
agree on a width; a reduce side planned from the files that happen to exist; an attempt that Airflow gave
up on and that writes its file long after the retry; trigger rules that skip a task without waiting for
the others; a commit that succeeded and was not recorded; two runs that meet in one table; a consumer that
reads a result file by file while attempts of cleared runs still write. In the compiler it is the many ways
in which a query can be outside what two stages per partition compute, each of which must be refused.

What makes each part correct:

- *orchestration*: a committed run published the whole query's answer over the files it listed, never
  twice and never changed later; a failure upstream prevents the commit; every run ends;
- *shuffle and coordinator*: equal keys share a bucket everywhere, each pair of matching rows meets in
  exactly one reduce instance, no instance is planned that can only fail;
- *bucketing*: the least width that meets the target, never zero, never above the cap;
- *graph checks*: exactly the executable graphs are accepted; their scans are co-partitioned, and none of their
  tasks runs beside the chain that ends in the commit;
- *compiler*: exactly the documented queries are accepted (not so: findings 3 to 5); what is emitted is
  executable and gives, by value and NULLs included, what one engine gives;
- *Parquet sink*: a consumer that follows `_LATEST` reads one whole answer; results never change; the pointer
  does not fall behind a successful finalize;
- *Iceberg sink*: the table is a sequence of whole answers, each appended once, no data file rewritten;
- *run identity*: two runs do not share a key.

## 2. The modules

    QuerySemantics  Bucketing          RunKeys ------------ ParquetSink     StageGraph  SqlPlans
       |       \        \                 |                 /    |    :           \      /
     Shuffle   SourceTables \          IcebergSink         /     |  ResultRegister  Compiler
       |    \      |    :    \          |    :            /      |                     |
    MCShuffle \    |  QueryRun \        |  TableAppends  /   ParquetSinkProofs    CompiledQuery
               DagRun ...:......../  MCIcebergSink   MCParquetSink                     |
                 |                   IcebergSinkProofs                           MCStageGraph
            DagRunInvariants --- MCDagRun                                              |
                 |                                     CompiledQueryProofs --- StageGraphProofs
            DagRunProofs

(Solid lines are EXTENDS, dotted ones are refinement by INSTANCE; MCBucketing extends Bucketing.) The proofs:

| Module | About | Extends |
| --- | --- | --- |
| ShuffleProofs | lemmas on hashing, plans, sums of rows and the width policy | Shuffle, Bucketing |
| DagRunProofs | a run of the DAG: types, planning, result, refinement, failures | DagRunInvariants, ShuffleProofs |
| JoinPlanProofs | the join planner | MCShuffle, ShuffleProofs |
| BucketingProofs | the width policy over growing sources | MCBucketing, ShuffleProofs |
| StageGraphProofs | the checks at parse time, hand-written and compiled graphs | MCStageGraph |
| CompiledQueryProofs | which queries compile, and what the compiled ones give | StageGraphProofs |
| ParquetSinkProofs, IcebergSinkProofs | the two sinks | ParquetSink, IcebergSink |

Four proof modules build on an MC module because the property, and the way in which its inputs come about, are
stated there: for the planner, the width policy and the graph checks the MC module is the environment, and the
theorems hold for every value of its bounds and sets.

**QuerySemantics** says what the SQL of the three query shapes does. A tuple is a key and the set of
source rows it was made from: a scanned tuple stands for one row, an aggregate for the rows it folds, a
joined tuple for its pair. Column values are functions of those rows, so equality of results is exactly
"made of the same rows"; a row lost or sent to the wrong group changes the result, and so does a tuple that
appears twice. `GroupBy` takes the union of what it folds, so a row folded twice into one group does not show in
`ResultCorrect` or `RefinesQueryRun`: that no file is read twice is `PlanReadsOnce` and `IInv`, and CompiledQuery
sums and counts by value. `ScanSql` and
`SinkSql` are the stage SQL that the compiler emits; `Answer` is the reference, the query over all rows on
one engine. NULL is a key that groups with itself and matches nothing.

**Shuffle** is `hash_partition` over any hash function (a constant), `gather_multi` and
`choose_join_strategy`, file by file. **Bucketing** is `BucketingPolicy.compute` with the sums that the
width planner feeds it. **SourceTables** holds tables as lists of immutable data files to which other
writers append at any time.

**DagRun** is one run, every task that `dag_from_stages` creates as an action:

| Action | Code |
| --- | --- |
| `MakeWorkDir`, `PlanWidth`, `Prepare(t)`, `Gather`, `Finalize` | the tasks outside the mapped groups |
| `ExpandStage` | `expand_kwargs` over a planner's XCom; an empty list skips the group |
| `Read`, `ComputeResult`, `WriteBuckets`, `WriteToSink` | the three tasks of a mapped instance |
| `Propagate`, `PropagateToStage`, `SettleFailure` | trigger rules: `all_success`, and `none_failed` for finalize |
| `GiveUpTask`, `GiveUpInstance` | an attempt is declared dead; it is retried, or the task fails |
| `LateWrite`, `LateSinkWrite`, `LateCommit` | that attempt was alive and acts after all, a file at a time |
| `Grow` | another writer appends a data file to a source table |

The variables are what really persists: task states, the XComs (`width`, `listing`, `plan`, the reported
`files` of an instance), the bucket files `disk`, the sink's files `sinkDir`, and what `finalize` was given.
`read` and `compute` scratch files are fields of the instance. A death of an attempt at any point of its
write is a `GiveUp` followed by some of the late writes, in the loop's order, so partial writes are there.

**QueryRun** is the abstract specification of a run: it publishes at most once, the answer over some
version of each table that existed during the run, and the published answer never changes. DagRun refines it.

**StageGraph** is `StageGraph.validate`, `_copartition_groups`, `_check_supported`, and of the wiring loop the
widths, the tasks (`Tasks`) and which task is called with the output of which (`Feeds`), for any graph. **RunKeys** is `_mint_work_dir` and `run_key`: a path is a
sequence of segments and a segment a tuple of the names it is made of, so that dropping the DAG id or
replacing characters is what it is in the code, a loss of information. **IcebergSink** has several runs
writing and committing to one table; `finalize` is split where it touches the catalog, `LoadTable`,
`CreateTable`, `AddFiles`, and any number of its attempts may be under way. The duplicate-file check and
the optimistic commit of `pyiceberg` are external (`AddFilesAccepts`): a commit succeeds only on the
version that was loaded. **TableAppends** is its abstract specification: whole answers appended one at a
time, each once, read back from the files as they are *now*, so a rewritten file breaks the refinement.

**ParquetSink** has several runs writing under one base directory. A write puts a file at
`<run key>/<partition>`; `finalize` is split at its two markers, `WriteSuccess` and `WriteLatest`, and, as with
Iceberg, any number of its attempts may be under way. `LateWrite` is a write attempt that Airflow gave up on,
or one of a run that was cleared since: it may come at any time. `Clear` is a user clearing a run, which forgets
its work directory, task states and XComs and runs it again over sources that may have changed. The consumer of
`docs/connectors.md` is in the model: it reads `_LATEST`, lists the directory, reads file after file.
**ResultRegister** is the abstract specification: results appear whole, one under a name, never change, and the
pointer names one of them; the result is read back from the files as they are *now*.

**SqlPlans** has the logical plans that DataFusion hands to the compiler, as sequences of nodes, and what a
query means on one engine, by value: SUM, COUNT, MIN, MAX, AVG, DISTINCT, FILTER, NULL in keys and values,
subqueries that see the rows of whatever table they are run over, LIMIT. **Compiler** is `compile_sql`: the
classification and every refusal in the order of the code, the extraction of group keys, aggregates and output
columns by name, and the stages that are emitted, with their SQL as records of what the text says.
**CompiledQuery** runs emitted stages over partitioned tables: each scan once per partition, a hash by key tuple
(which depends on the stored type of the key, as `repr` does), the sink stage once per bucket. It leaves out how
tasks deliver files, which is the business of DagRun, so the two meet at the graph: `CompiledGraphsAccepted`
says that what the compiler emits is within what the factory builds.

Definitions named "Mutant" in comments are not used by the model. Each is a plausible bug in the
definition below it, and shows that a property would notice.

## 3. What is checked

| Run | States | Question |
| --- | --- | --- |
| `groupby` | 176 thousand | two-phase aggregation under an adaptive width: type and inductive invariant, right answer, each file read once, stable files, refinement of QueryRun |
| `join` | 1.25 million | the same for a join whose sides share a width and are broadcast or shuffled; co-partitioning; no doomed instance |
| `passthrough` | 55,962 | a one-stage query, with liveness: every run commits or fails |
| `empty_side` | 9 thousand | a join of which one table has no data file: skipped groups, the empty answer is still committed, liveness and refinement |
| `empty_side_failure` | violation | finding 1 |
| `shuffle` | 8,748 | the join planner for every distribution of six rows over two files a side, every width and threshold up to 3 |
| `bucketing` | 1,640 | the width policy for every strategy, cap and target up to 4 |
| `stage_graph` | 8.06 million | every hand-written graph of up to three stages over five exchanges and twelve input lists; and 6,972 queries, of which 287 compile and are run over every small table |
| `wrong_number` | violation | findings 3, 4 and 5 |
| `iceberg` | 440 thousand | two runs appending to one table |
| `iceberg_shared_key` | violation | finding 2 |
| `parquet` | 865 thousand | two runs under one base directory, one of them cleared and run again, with a consumer |

The deeper properties, in words: `ResultCorrect` (the published files together are the answer, no tuple in
two of them), `RefinesQueryRun` (once, over a version of each table seen in the run, immutable),
`PlanReadsOnce` and `JoinPlanCorrect` (each match meets exactly once), `CoPartitioned` (equal keys, equal
bucket, across tasks, tables and attempts), `NoDoomedRead`, `FilesStable` (rewrites are idempotent),
`FailurePreventsCommit`, `CommitsOrFails`; `AcceptsExactlySupported` (acceptance equals a declarative
definition of executable shapes), `ScansShareWidth`, `FinalizeWaitsForAll` (every task of an accepted graph is
upstream of finalize); `MetadataDescribesFiles`, `SuccessMeansCommitted`,
`RetryConverges`, `RefinesTableAppends`; `LeastWidthThatFits`, `NeverNarrower`; `RefusesExactlyDocumented` (the
compiler's refusals equal the lists of `docs/limitations.md`, derived tables in joins aside: finding 5), `CompiledGraphsAccepted`, `NeverAWrongNumber` (a
compiled query gives the rows of one engine, each once); `ReaderSeesOneAnswer` (a consumer that reads while
others write has one whole answer of one execution), `LatestNotStale`, `RefinesResultRegister`.

**Bounds, and why they are enough.** Every bound is a constant in a .cfg. Two data files a table, three
keys of which one is NULL and two share a bucket at every width that matters, and a growing table give each
way two files, two buckets and two sides can disagree: the hazards are pairwise. Two deaths per run allow a
late attempt to meet a retry of its own task, or of another. Two tries suffice because a third is again a
retry of what a dead attempt left. For Iceberg, two runs with three tries each and two deaths have every
race of load, create and commit between two attempts of one run and between runs. Graphs have three stages
because the checks compare stages in pairs beside the sink. Queries vary one thing at a time and in pairs:
filters (none, one, two stacked, with a subquery at the top, inside an expression, under another), node kinds
above and below, keys (none, one, two, an expression), aggregates (each function alone and in pairs that share
an argument or differ in it), projections (in order, swapped, repeated, aliased twice, computed), join types,
sides and casts. A side is a table, an alias, a join, or a derived table over a join; derived tables over a
scan are compiled where the documentation says that they are refused (finding 5): those that filter row by row are
in the run for `NeverAWrongNumber`, one with a LIMIT is in `wrong_number`. A table has three rows over two
partitions with every choice of three keys and three values (NULL among both), or two rows in each of two tables: a group that spans two partitions, one that has
only NULLs, one that is in a single partition, and a bucket with one side empty all occur. For Parquet, one clear,
one death, two tries of one run and a single try of the other let an abandoned attempt meet a retry, another run's
finalize, a re-run with fewer partitions, and each place of the consumer. The theorems below remove the bounds for
every invariant and action property; for the two that are about what a query means, `RefusesExactlyDocumented` and
`NeverAWrongNumber`, they replace the queries of the run by a description of a class of queries.

**Fairness.** Only the runs with liveness use `FairSpec`, weak fairness of `Progress`: while some task can be
run, expanded or resolved, Airflow eventually does one. That is what a scheduler does and no more; deaths,
late attempts and growth are never forced, and deaths are bounded, as retries are. The safety runs assume
no fairness.

Deadlock is checked in all DagRun runs (`Done` is the explicit end). It is switched off for `shuffle`,
`bucketing` and `stage_graph`, which grow data to a bound, and for `iceberg` and `parquet`, where the runs are
over.

## 4. What is proved

All for any rows, keys, hash function, policy, threshold, sources, tries and deaths, from the named
assumptions on constants (`QueryAssumption`, `SourceAssumption`, `HashAssumption`, `DagAssumption`),
which TLC evaluates in every run.
The theorems of MCShuffle, MCBucketing and MCStageGraph also rest on the `MCAssumption` of their module: a query
that is a join over typed rows and finitely many files, bounds that are naturals, exchanges and input lists that the
constructors of the IR let exist. The two sinks have hypotheses of their own, named below.

- `TypeCorrect`, `PlanningCorrect`, then `InductiveInvariant == Spec => []IInv`. `ResultCorrect` alone is not
  inductive: it speaks of the commit, which depends on everything before it. `IInv` follows the run:
  a listing names existing files in order with one width (`ListingValid`), and is a version of its table
  seen in the run (`VersionInv`); an instance holds what its phase calls for and every file on disk is its
  shard of a *function* of the listing (`MapSideInv`), which is why a retry or a late attempt can only
  rewrite what is there; once gathered, the plan is that of the files reported, and the map side is
  finished (`GatherInv`); result files likewise (`SinkSideInv`); a stage is skipped only for an empty list
  (`SkippedForNothing`); what is committed is the whole sink stage (`CommitInv`).
- `CoPartitionedAlways`, `NoDoomedReadAlways`, `FilesStableAlways` follow from it.
- `ResultCorrectAlways`: a reduce instance reads one bucket of the whole map-side output (or, broadcast, one
  bucket of one side and all of the other); GROUP BY and join commute with taking a bucket
  (`GroupByBucket`, `InnerJoinBucket`); two-phase aggregation is aggregation (`TwoPhaseGroupBy`); a bucket in
  which the answer has a tuple is planned; so the union of the files is the answer and they are disjoint.
- `Refinement == Spec => RefinesQueryRun`: `Finalize` is the publication, over the listed version, and every
  other step, a late commit or a late rewrite included, leaves the published answer as it is.
- `PlanReadsOnceAlways`: for a query with a reduce side. A bucket file has one bucket, the instances of a shuffled
  plan have different ones, and a broadcast plan divides the files of one side; a passthrough has no plan, which is
  the hypothesis.
- `FailurePreventsCommitUnlessEmpty`: the invariant adds to `IInv` that the work directory exists before any other
  task starts. The exception, `EmptySide`, is a join of which one scan was skipped; finding 1 shows that it is
  needed. `FailurePreventsCommitOneTable` is the property itself for the other two query shapes.
- `JoinPlanCorrectAlways`, `PlanNeverEmptySidedAlways` and `ReplicatedSideIsSmallAlways`: the join planner, for any
  rows on any finite set of files. The first is `JoinPlanBuckets` (bucket by bucket, or one side whole) over what
  `HashPartition` writes. The last compares sums over files with numbers of rows: `TotalRowsCount` shows that a sum
  of the rows of disjoint files is the cardinality of their union, by induction on the number of files.
- `LeastWidthThatFitsAlways` and `NeverNarrowerAlways`: rounding up gives the least multiple that reaches the load
  (`CeilDivLeast`) and is monotone, and so is clamping. `ComputeInRange` is the bound that DagRun rests on.
- `AcceptsExactlySupportedAlways`, `ScansShareWidthAlways`, `FinalizeWaitsForAllAlways`: for graphs of any length.
  Both sides are shown equal to `Shape(g, k)`, which says at which position the sink stage is. From the checks: a
  stage other than the sink must be a hash shuffle, hence `Groupable`, hence read one source; nothing but the sink
  stage can then read a stage, so each has the sink stage as its one consumer, all are in one group, and since an
  input resolves to an earlier stage the sink stage is the last. So, backwards from finalize: the sink stage feeds it,
  every scan the sink stage, and every width planner a scan (`ShapeUpstream`).
- `CompiledGraphsAcceptedAlways`: each of the three emitters makes such a graph, for any query whatever, valid or not,
  that gets past `WellFormed`.
- `ParquetTypeCorrect`, `ParquetReaderSeesOneAnswer`, `ParquetLatestNotStale` and `ParquetImplementsRegister`, for
  any runs, answers, tries, deaths and clears, under one hypothesis, `KeysApart`: executions do not share a run
  directory. It is a hypothesis and not an assumption of the model because the code does not see to it (finding 2,
  and section 6); TLC evaluates it for the instance it checks. The inductive invariant (`IInv` of
  ParquetSinkProofs) is about *executions*, a run key with the answer computed under it, cleared ones included
  (`Unreported`): an execution's key is its own (`KeysInv`); every file is what some execution computed for
  that partition, and all files of an execution that was offered to finalize are there (`FilesInv`), so that a late
  write can only rewrite what is there and `OfferedFiles` can read the directory back; what is marked was
  offered (`MarksInv`); what the consumer has read is part of the answer whose key it holds (`ReaderInv`); and the
  attempt that Airflow counts on is the last one, and its run has not been recorded before it wrote the
  pointer (`OrderInv`).
- `IcebergTypeCorrect`, `IcebergMetadataDescribesFiles`, `IcebergSuccessMeansCommitted`, `IcebergRetryConverges` and
  `IcebergImplementsAppends`, for any runs, answers, tries and deaths, under the hypothesis `RunKeysApart`, for the
  same reason. `RunKeysApartExactly` says what the hypothesis asks of a deployment: no two runs of DAGs with a
  `work_dir_base` have run_ids that become the same segment; TLC evaluates it in both runs, and
  finds it true of `iceberg` and false of `iceberg_shared_key`. The inductive invariant (`IInv` of IcebergSinkProofs): directories are the runs' own (`DirsInv`); every staged file is
  what its run computed for that partition, and what was reported is there (`FilesInv`); finalize begins with the
  whole answer reported (`BegunInv`); every snapshot adds the whole answer of one run, and no two the same
  (`LogInv`); and each attempt holds the version that it loaded, from which it added to the log or raised, with
  a recorded success standing for an answer in the table (`TasksInv`).

- `NeverAWrongNumberAlways == OrdinaryQueries => (Spec => []NeverAWrongNumber)`, for plans of any length, tables of any
  size in any partitions, any width and any hash function, and over `CompiledRight`, the same of one query. The
  hypothesis says of the queries that compile, and of nothing else, that they are `Ordinary`: an expression looks at
  one row unless it is or embeds a subquery; rows or a column are counted and values are summed, with no FILTER (not
  so: findings 3 and 4); joins compare the key columns, and a side keeps or drops each row by itself (not so:
  finding 5). Tables are rows with identities of their own, a number or NULL as value, and keys that hash into the
  buckets there are. `NullAssumption` says that NULL is no number.
  The argument follows what is emitted. A chain of filters keeps of a part of a table that part of what it keeps
  (`KeptPart`), which is why the compiler must refuse subqueries; so a passthrough partition gives its part of the answer. In
  a join, two rows that match have equal keys, hence meet in the one bucket of that key. For aggregates, the
  rows of a group are in one bucket, divided among the partitions; the partial stage gives the aggregate of each
  part, and `CombineRight` shows that `_COMBINE` of these is the aggregate of the group, for SUM, COUNT, MIN and MAX, NULLs
  and all-NULL parts included, by induction on a finite set of parts. `Exact` also asks that no row comes twice: results
  are tagged with the bucket or partition they come from, and the tag is shown to be a function of the row.
- `RefusesExactlyDocumentedAlways`: for any query that is `Described`, and any number of buckets above one.
  `Documented` speaks of the plan, and the compiler of what it finds on its way down: `ReachesScanIs` relates the loop that walks to a scan to the nodes of
  the plan, `ItemLetThrough` and `AggregateNames` the look-up of output columns by name to what the columns are, and
  `JoinLetThrough` the checks on both sides. `Described` is what DataFusion's planner sees to: the last node reads
  tables, tables that are scanned are registered, and a column above an Aggregate is one of its keys or aggregates.
  It leaves out what findings 3 to 5 are about, because there the equivalence is false: a count of an expression, a
  FILTER clause, and any derived table over a scan as a side of a join. And it leaves out joins under a condition
  beside the key pair (`ON a.k = b.k AND a.v < b.v`), which compile and of which the lists say nothing. What the
  documentation means by a bare two-table join (`BareTable`) is a scan under its name or an alias. Below a
  Projection or an Aggregate an alias makes the node that a sub-query makes, and both are refused; `Documented`
  reads the lists so.

Neither `Ordinary` nor `Described` is empty or too strong for the run: the assumption `MCOrdinary` has TLC evaluate, in
`stage_graph` and in `wrong_number`, that a query is `Described` if and only if it is not one of the three that violate the
property in `wrong_number`, nor a join of a derived table with WHERE or under a further condition (`MCRowLocal`);
that every query that is documented as supported is `Ordinary`, that those of `MCRowLocal` are, and that the three are
not; and that the tables are ordinary. So `NeverAWrongNumber` and its theorem cover the derived tables that filter
row by row, of which `RefusesExactlyDocumented` cannot speak.

**Only model-checked.** Liveness (`CommitsOrFails`) is beyond the prover. Every other property that a passing run checks
is also the subject of a theorem. What the two theorems about queries leave to TLC, and to section 6, is a join
on other columns than the keys, expressions beyond the few that `SqlPlans` gives a meaning, and a side of a join filtered
by a subquery. The library's induction theorems that take a predicate as a parameter are not available to the installed
provers; where induction is needed (`TotalRowsCount`, `CombineRight`) it is on a set of numbers, by `NatSetInduction`.

## 5. Findings

1. *A failure upstream does not always prevent the commit* (`empty_side_failure`). `docs/dag-mapping.md:89` and
   the comment at `factory.py:109` say it does. In a join with one table without data files, its scan is
   skipped, `gather_shuffle` is skipped at once under `all_success`, the sink stage with it, and `finalize`
   (`none_failed` over the sink stage) commits while the other scan is running or failing. The committed
   answer, an empty join, is right.
2. *Two runs can share a run key* (`iceberg_shared_key`). With `work_dir_base` the work directory is
   `<base>/<dag_id>/<run_id>` and unique, but `run_key` keeps its last segment only. Two DAGs on one
   schedule get the same `run_id` from Airflow; if they write to the same table they stage to the same
   files. The second rewrites data files that the first committed, against "an Iceberg data file must never
   be rewritten" (`iceberg.py:120`), and its `finalize` takes them for its own. In the `iceberg` run the
   second DAG has no base, and all properties hold.
3. *A count of an expression is taken for `COUNT(*)`* (`wrong_number`). `docs/limitations.md:3-5` says that what
   cannot be compiled correctly is rejected and that the engine "never silently returns a wrong number", and :27
   lists an aggregate over an expression among the rejected. `_extract_aggregates` (`sql_compiler.py:241`) takes any
   COUNT whose argument is not a plain column for `COUNT(*)`, so `COUNT(CASE WHEN v = 2 THEN v END)` counts the
   rows where the expression is NULL.
4. *The FILTER clause of an aggregate is dropped* (`wrong_number`, `sql_compiler.py:239`): the partial stage sums
   over every row of the group.
5. *A join side may be any chain of single-input nodes* (`wrong_number`, `sql_compiler.py:472`).
   `docs/limitations.md:15-16` supports a join "with no `WHERE` or `GROUP BY` in the same query", :32 rejects one
   combined with them because "only a bare two-table join is recognised", :34 and :37 reject LIMIT and window
   functions, and `sql_compiler.py:32-33` says that sub-queries raise. `_tablescan_name` descends to the scan through
   whatever has one input, so a join of a derived table, with any of these in it, compiles as a join of its
   table. With ORDER BY and LIMIT the join stage applies the LIMIT once per bucket and the answer is wrong, which is what
   the run shows. With a WHERE that looks at single rows the query is accepted against the documentation and its
   answer is right (`stage_graph`, and by theorem). A GROUP BY or a window function in a side is run once per bucket
   too; the models do not say what it gives.

   TLC stops at the first of the three; with `-continue` it reports all.

## 6. What is not modelled, and what abstraction hides

- DataFusion, PyArrow, Airflow and pyiceberg are external: modelled by what the code relies on them for.
- In DagRun and Shuffle, values of aggregates are abstracted to the rows folded; CompiledQuery has them by value
  and leaves out the tasks. Row order is left out; rows are distinct individuals, so a duplicate is two rows
  with equal values.
- Of the compiler: the text of SQL (`_quote_ident`, `_unparse`) is a record of what it says; an aggregate with
  several arguments; SQL that DataFusion itself does not parse or plan. A compiled join is run shuffled;
  that broadcasting gives the same is shown in Shuffle (`JoinPlanCorrect`).
- `repr` as hash input: the hash is a function of the SQL value; whether DataFusion takes values equal that
  Python prints differently (0.0 and -0.0) is outside.
- *A cleared run under `work_dir_base`.* Its directory is `<base>/<dag_id>/<run_id>` again, so the re-run rewrites,
  file by file, what carries a `_SUCCESS` and what consumers may be reading; with fewer buckets the rest of the old
  answer stays beside the new one. In the run `parquet` the cleared run is one without a base, which is given a
  new directory. With `Clearable = {"r1"}` in `parquet.cfg` the hypothesis `KeysApart` is false and TLC finds
  `ReaderSeesOneAnswer` and `RefinesResultRegister` violated. No page of the documentation promises otherwise for
  a cleared run, so this is a limit of the theorem and no finding. Clearing is not in DagRun or IcebergSink.
- A write to a path is atomic, as it is on an object store. On a local file system `open("wb")` truncates in
  place, so a late attempt that rewrites a file in use, or dies while it does, can tear it; listed as a hazard.
- Rounding of floats: `CeilDiv` is the exact ceiling, and `ir.py:78,80` take `math.ceil` of a float quotient, which may
  differ for more than 2^53 rows or bytes.
- `core.max_map_length`, schema drift between files, rewrites and deletes in source tables by other writers.
- The registry, provider info, examples: see PROJECT.json.

## 7. Plan

Done: QuerySemantics, Shuffle, SourceTables, Bucketing, DagRun with its invariant, result and refinement
proofs; StageGraph; RunKeys and IcebergSink; ParquetSink with its refinement and proofs; SqlPlans, Compiler and
CompiledQuery.

Proofs of every invariant and action property that the runs check, and of the three refinements.

Next:

1. **IcebergSink**: clearing a run, as in ParquetSink, with the hypothesis that it needs.
2. **CompiledQuery**: joins on any columns, and the theorem for them.
