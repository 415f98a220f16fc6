------------------------------- MODULE Shuffle -------------------------------
(***************************************************************************)
(* The two ends of a shuffle: the map side hashes a stage's output into    *)
(* bucket files, the reduce side pairs the files listed in the upstream    *)
(* XComs into one plan entry per reduce instance.                          *)
(*                                                                         *)
(* A listed file is [path, bucket, rows]; a plan maps each bucket id it    *)
(* emits to the paths that each input table reads there.                   *)
(***************************************************************************)
EXTENDS QuerySemantics, Integers, FiniteSetsExt

CONSTANT
    HashOf      \* _stable_row_hash of each key, the same in every process

ASSUME HashAssumption == HashOf \in [Key -> Nat]

\* f is a function from some elements of D into R.
IsPartial(f, D, R) ==
    /\ f = [x \in DOMAIN f |-> f[x]]
    /\ DOMAIN f \subseteq D
    /\ \A x \in DOMAIN f : f[x] \in R

BucketOf(key, num_buckets) ==
    IF num_buckets = 1 THEN 0 ELSE HashOf[key] % num_buckets

\* The sub-table of each populated bucket; empty buckets are not yielded.
HashPartition(T, num_buckets) ==
    [b \in {BucketOf(t.key, num_buckets) : t \in T}
        |-> {t \in T : BucketOf(t.key, num_buckets) = b}]

\* The bucket ids that appear among the listed files.
BucketsIn(files) == {f.bucket : f \in files}

\* Mutant: a later file of a bucket replaces the earlier ones.
OnePathIn(files, b) ==
    IF b \in BucketsIn(files)
    THEN {(CHOOSE f \in files : f.bucket = b).path}
    ELSE {}

\* The paths grouped under one bucket id.
PathsIn(files, b) == {f.path : f \in {g \in files : g.bucket = b}}

AllPaths(files) == {f.path : f \in files}

TotalRows(files) == MapThenSumSet(LAMBDA f : f.rows, files)

\* Mutant: a bucket that any table has files for is planned.
GatherAny(files) ==
    [b \in UNION {BucketsIn(files[t]) : t \in DOMAIN files}
        |-> [t \in DOMAIN files |-> PathsIn(files[t], b)]]

\* Align the inputs bucket by bucket; a bucket needs files of every table.
GatherMulti(files) ==
    [b \in {c \in UNION {BucketsIn(files[t]) : t \in DOMAIN files} :
               \A t \in DOMAIN files : PathsIn(files[t], c) # {}}
        |-> [t \in DOMAIN files |-> PathsIn(files[t], b)]]

\* Mutant: every instance reads the whole big table too.
BroadcastBoth(files, big, small) ==
    [b \in {c \in BucketsIn(files[big]) : AllPaths(files[small]) # {}}
        |-> [t \in {big, small} |-> AllPaths(files[t])]]

\* Mutant: an empty small table is broadcast as well.
BroadcastEmpty(files, big, small) ==
    [b \in BucketsIn(files[big])
        |-> [t \in {big, small} |->
               IF t = big THEN PathsIn(files[big], b) ELSE AllPaths(files[small])]]

\* Every populated bucket of the big table against the whole small table.
BroadcastPlan(files, big, small) ==
    [b \in {c \in BucketsIn(files[big]) : AllPaths(files[small]) # {}}
        |-> [t \in {big, small} |->
               IF t = big THEN PathsIn(files[big], b) ELSE AllPaths(files[small])]]

UsesBroadcast(files, threshold) ==
    /\ threshold > 0
    /\ \E t \in {Left, Right} : TotalRows(files[t]) <= threshold

\* Mutant: the comparison of the two totals is the wrong way round.
ChooseLarger(files, threshold) ==
    IF ~UsesBroadcast(files, threshold)
    THEN GatherMulti(files)
    ELSE IF TotalRows(files[Right]) > TotalRows(files[Left])
         THEN BroadcastPlan(files, Left, Right)
         ELSE BroadcastPlan(files, Right, Left)

ChooseJoinStrategy(files, threshold) ==
    IF ~UsesBroadcast(files, threshold)
    THEN GatherMulti(files)
    ELSE IF TotalRows(files[Right]) <= TotalRows(files[Left])
         THEN BroadcastPlan(files, Left, Right)
         ELSE BroadcastPlan(files, Right, Left)
=============================================================================
