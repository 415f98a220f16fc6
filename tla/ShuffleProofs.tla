----------------------------- MODULE ShuffleProofs -----------------------------
(***************************************************************************)
(* Facts about the relational operators, about the two ends of the shuffle *)
(* and about its width that do not depend on the run.                      *)
(***************************************************************************)
EXTENDS Shuffle, Bucketing, FiniteSetTheorems, FunctionTheorems, WellFoundedInduction, TLAPS

-----------------------------------------------------------------------------
(* Types *)

LEMMA TuplesOfType ==
    ASSUME NEW rows \in SUBSET Row
    PROVE  TuplesOf(rows) \in SUBSET Tuple
  BY QueryAssumption DEF TuplesOf, Tuple

LEMMA WhereType ==
    ASSUME NEW T \in SUBSET Tuple
    PROVE  Where(T) \in SUBSET Tuple
  BY DEF Where

LEMMA GroupByType ==
    ASSUME NEW T \in SUBSET Tuple
    PROVE  GroupBy(T) \in SUBSET Tuple
  BY DEF GroupBy, Tuple

LEMMA InnerJoinType ==
    ASSUME NEW L \in SUBSET Tuple, NEW R \in SUBSET Tuple
    PROVE  InnerJoin(L, R) \in SUBSET Tuple
  BY DEF InnerJoin, Joined, Tuple

LEMMA ScanSqlType ==
    ASSUME NEW T \in SUBSET Tuple
    PROVE  ScanSql(T) \in SUBSET Tuple
  BY WhereType, GroupByType DEF ScanSql

LEMMA SinkSqlType ==
    ASSUME NEW tables \in [Table -> SUBSET Tuple]
    PROVE  SinkSql(tables) \in SUBSET Tuple
  <1>1. CASE Query = "passthrough"
    <2>1. tables[Left] \in SUBSET Tuple
      BY DEF Table
    <2> QED
      BY <1>1, <2>1, WhereType DEF SinkSql
  <1>2. CASE Query = "aggregate"
    <2>1. tables[Left] \in SUBSET Tuple
      BY DEF Table
    <2> QED
      BY <1>2, <2>1, GroupByType DEF SinkSql
  <1>3. CASE Query = "join"
    <2>1. tables[Left] \in SUBSET Tuple /\ tables[Right] \in SUBSET Tuple
      BY <1>3 DEF Table
    <2> QED
      BY <1>3, <2>1, InnerJoinType DEF SinkSql
  <1> QED
    BY <1>1, <1>2, <1>3, QueryAssumption

LEMMA TupleFinite == IsFiniteSet(Tuple)
  <1> DEFINE P == Key \X SUBSET Row
  <1>1. IsFiniteSet(P)
    BY QueryAssumption, FS_Product, FS_SUBSET
  <1> DEFINE f == [p \in P |-> [key |-> p[1], from |-> p[2]]]
  <1>2. f \in Surjection(P, Tuple)
    <2>1. f \in [P -> Tuple]
      BY DEF Tuple
    <2>2. ASSUME NEW t \in Tuple
          PROVE  \E p \in P : f[p] = t
      <3>1. <<t.key, t.from>> \in P /\ t = [key |-> t.key, from |-> t.from]
        BY DEF Tuple
      <3> QED
        BY <3>1
    <2> QED
      BY <2>1, <2>2, Fun_IsSurj
  <1> QED
    BY <1>1, <1>2, FS_Surjection DEF ExistsSurjection

LEMMA BucketOfType ==
    ASSUME NEW k \in Key, NEW n \in Nat \ {0}
    PROVE  BucketOf(k, n) \in 0..(n - 1)
  BY HashAssumption DEF BucketOf

\* hash_partition yields sub-tables only, under bucket ids below the width.
LEMMA HashPartitionType ==
    ASSUME NEW T \in SUBSET Tuple, NEW n \in Nat \ {0}
    PROVE  /\ DOMAIN HashPartition(T, n) \subseteq 0..(n - 1)
           /\ \A b \in DOMAIN HashPartition(T, n) :
                /\ HashPartition(T, n)[b] \in SUBSET T
                /\ HashPartition(T, n)[b] # {}
                /\ Cardinality(HashPartition(T, n)[b]) \in Nat
  <1>1. \A t \in T : BucketOf(t.key, n) \in 0..(n - 1)
    BY BucketOfType DEF Tuple
  <1>2. ASSUME NEW b \in DOMAIN HashPartition(T, n)
        PROVE  /\ HashPartition(T, n)[b] \in SUBSET T
               /\ HashPartition(T, n)[b] # {}
    BY DEF HashPartition
  <1>3. ASSUME NEW b \in DOMAIN HashPartition(T, n)
        PROVE  Cardinality(HashPartition(T, n)[b]) \in Nat
    <2>1. IsFiniteSet(HashPartition(T, n)[b])
      BY <1>2, TupleFinite, FS_Subset
    <2> QED
      BY <2>1, FS_CardinalityType
  <1>4. DOMAIN HashPartition(T, n) = {BucketOf(t.key, n) : t \in T}
    BY DEF HashPartition
  <1> QED
    BY <1>1, <1>2, <1>3, <1>4

\* The reduce-side planners give every table paths of its own files, under the
\* bucket ids of listed files: whichever strategy they choose.
LEMMA GatherMultiType ==
    ASSUME NEW P, NEW files,
           files = [t \in Table |-> files[t]],
           \A t \in Table : \A f \in files[t] : f.path \in P /\ f.bucket \in Nat
    PROVE  IsPartial(GatherMulti(files), Nat, [Table -> SUBSET P])
  <1>1. DOMAIN files = Table
    OBVIOUS
  <1>2. \A t \in Table : \A b : PathsIn(files[t], b) \in SUBSET P
    BY DEF PathsIn
  <1>3. \A t \in Table : BucketsIn(files[t]) \subseteq Nat
    BY DEF BucketsIn
  <1>4. DOMAIN GatherMulti(files) \subseteq UNION {BucketsIn(files[t]) : t \in Table}
    BY <1>1 DEF GatherMulti
  <1> QED
    BY <1>1, <1>2, <1>3, <1>4 DEF GatherMulti, IsPartial

LEMMA BroadcastPlanType ==
    ASSUME NEW P, NEW files, NEW big, NEW small,
           {big, small} = Table, big # small,
           files = [t \in Table |-> files[t]],
           \A t \in Table : \A f \in files[t] : f.path \in P /\ f.bucket \in Nat
    PROVE  IsPartial(BroadcastPlan(files, big, small), Nat, [Table -> SUBSET P])
  <1>1. BucketsIn(files[big]) \subseteq Nat
    BY DEF BucketsIn
  <1>2. AllPaths(files[small]) \in SUBSET P /\ \A b : PathsIn(files[big], b) \in SUBSET P
    BY DEF AllPaths, PathsIn
  <1> QED
    BY <1>1, <1>2 DEF BroadcastPlan, IsPartial

LEMMA ChooseJoinStrategyType ==
    ASSUME Query = "join", NEW P, NEW files, NEW threshold \in Nat,
           files = [t \in Table |-> files[t]],
           \A t \in Table : \A f \in files[t] : f.path \in P /\ f.bucket \in Nat
    PROVE  IsPartial(ChooseJoinStrategy(files, threshold), Nat, [Table -> SUBSET P])
  <1>1. {Left, Right} = Table /\ Left # Right
    BY QueryAssumption DEF Table
  <1>2. {Right, Left} = Table /\ Right # Left
    BY <1>1
  <1>3. \/ ChooseJoinStrategy(files, threshold) = GatherMulti(files)
        \/ ChooseJoinStrategy(files, threshold) = BroadcastPlan(files, Left, Right)
        \/ ChooseJoinStrategy(files, threshold) = BroadcastPlan(files, Right, Left)
    BY DEF ChooseJoinStrategy
  <1>4. CASE ChooseJoinStrategy(files, threshold) = GatherMulti(files)
    BY <1>4, GatherMultiType
  <1>5. CASE ChooseJoinStrategy(files, threshold) = BroadcastPlan(files, Left, Right)
    BY <1>5, <1>1, BroadcastPlanType
  <1>6. CASE ChooseJoinStrategy(files, threshold) = BroadcastPlan(files, Right, Left)
    BY <1>6, <1>2, BroadcastPlanType
  <1> QED
    BY <1>3, <1>4, <1>5, <1>6

-----------------------------------------------------------------------------
(* What a plan reads *)

\* A planned instance is given files of every table, and of that table only.
LEMMA GatherMultiReads ==
    ASSUME NEW files, files = [t \in Table |-> files[t]],
           NEW b \in DOMAIN GatherMulti(files), NEW t \in Table
    PROVE  /\ GatherMulti(files)[b][t] # {}
           /\ GatherMulti(files)[b][t] \subseteq AllPaths(files[t])
  <1>1. DOMAIN files = Table
    OBVIOUS
  <1>2. PathsIn(files[t], b) # {} /\ GatherMulti(files)[b][t] = PathsIn(files[t], b)
    BY <1>1 DEF GatherMulti
  <1> QED
    BY <1>2 DEF PathsIn, AllPaths

LEMMA BroadcastPlanReads ==
    ASSUME NEW files, NEW big, NEW small, {big, small} = Table, big # small,
           NEW b \in DOMAIN BroadcastPlan(files, big, small), NEW t \in Table
    PROVE  /\ BroadcastPlan(files, big, small)[b][t] # {}
           /\ BroadcastPlan(files, big, small)[b][t] \subseteq AllPaths(files[t])
  <1>1. b \in BucketsIn(files[big]) /\ AllPaths(files[small]) # {}
    BY DEF BroadcastPlan
  <1>2. PathsIn(files[big], b) # {} /\ PathsIn(files[big], b) \subseteq AllPaths(files[big])
    BY <1>1 DEF BucketsIn, PathsIn, AllPaths
  <1>3. BroadcastPlan(files, big, small)[b][t]
          = IF t = big THEN PathsIn(files[big], b) ELSE AllPaths(files[small])
    BY DEF BroadcastPlan
  <1> QED
    BY <1>1, <1>2, <1>3

LEMMA ChooseJoinStrategyReads ==
    ASSUME Query = "join", NEW files, files = [t \in Table |-> files[t]],
           NEW threshold \in Nat,
           NEW b \in DOMAIN ChooseJoinStrategy(files, threshold), NEW t \in Table
    PROVE  /\ ChooseJoinStrategy(files, threshold)[b][t] # {}
           /\ ChooseJoinStrategy(files, threshold)[b][t] \subseteq AllPaths(files[t])
  <1>1. {Left, Right} = Table /\ {Right, Left} = Table /\ Left # Right
    BY QueryAssumption DEF Table
  <1>2. \/ ChooseJoinStrategy(files, threshold) = GatherMulti(files)
        \/ ChooseJoinStrategy(files, threshold) = BroadcastPlan(files, Left, Right)
        \/ ChooseJoinStrategy(files, threshold) = BroadcastPlan(files, Right, Left)
    BY DEF ChooseJoinStrategy
  <1>3. CASE ChooseJoinStrategy(files, threshold) = GatherMulti(files)
    BY <1>3, GatherMultiReads
  <1>4. CASE ChooseJoinStrategy(files, threshold) = BroadcastPlan(files, Left, Right)
    BY <1>1, <1>4, BroadcastPlanReads
  <1>5. CASE ChooseJoinStrategy(files, threshold) = BroadcastPlan(files, Right, Left)
    BY <1>1, <1>5, BroadcastPlanReads
  <1> QED
    BY <1>2, <1>3, <1>4, <1>5

-----------------------------------------------------------------------------
(* What SQL does to a table that is split by bucket, or by data file *)

\* The tuples of T that a shuffle into n buckets sends to bucket b.
InBucket(T, b, n) == {t \in T : BucketOf(t.key, n) = b}

LEMMA GroupByIn ==
    ASSUME NEW T, NEW x
    PROVE  x \in GroupBy(T) <=>
             \E t \in T : x = [key  |-> t.key,
                              from |-> UNION {u.from : u \in {v \in T : v.key = t.key}}]
  BY DEF GroupBy

LEMMA InnerJoinIn ==
    ASSUME NEW L, NEW R, NEW x
    PROVE  x \in InnerJoin(L, R) <=>
             \E l \in L, r \in R : Matches(l, r) /\ x = Joined(l, r)
  <1>1. ASSUME NEW l \in L, NEW r \in R, Matches(l, r), x = Joined(l, r)
        PROVE  x \in InnerJoin(L, R)
    <2> DEFINE p == <<l, r>>
    <2>1. p \in {q \in L \X R : Matches(q[1], q[2])} /\ x = Joined(p[1], p[2])
      BY <1>1
    <2> QED
      BY <2>1 DEF InnerJoin
  <1>2. ASSUME x \in InnerJoin(L, R)
        PROVE  \E l \in L, r \in R : Matches(l, r) /\ x = Joined(l, r)
    <2>1. PICK p \in {q \in L \X R : Matches(q[1], q[2])} : x = Joined(p[1], p[2])
      BY <1>2 DEF InnerJoin
    <2> QED
      BY <2>1
  <1> QED
    BY <1>1, <1>2

\* Grouping one bucket gives the groups of that bucket, whole.
LEMMA GroupByBucket ==
    ASSUME NEW T, NEW b, NEW n
    PROVE  GroupBy(InBucket(T, b, n)) = InBucket(GroupBy(T), b, n)
  <1> DEFINE B == InBucket(T, b, n)
             Of(S, k) == {v \in S : v.key = k}
             Group(S, k) == [key |-> k, from |-> UNION {u.from : u \in Of(S, k)}]
  <1>1. ASSUME NEW k, BucketOf(k, n) = b
        PROVE  Group(B, k) = Group(T, k)
    <2>1. Of(B, k) = Of(T, k)
      BY <1>1 DEF InBucket
    <2> QED
      BY <2>1
  <1>2. \A S, x : x \in GroupBy(S) <=> \E t \in S : x = Group(S, t.key)
    BY GroupByIn
  <1>3. \A S, k : Group(S, k).key = k
    OBVIOUS
  <1>4. \A t : t \in B <=> t \in T /\ BucketOf(t.key, n) = b
    BY DEF InBucket
  <1>5. \A x : x \in InBucket(GroupBy(T), b, n) <=>
                 x \in GroupBy(T) /\ BucketOf(x.key, n) = b
    BY DEF InBucket
  <1> HIDE DEF B, Group
  <1>6. ASSUME NEW x
        PROVE  x \in GroupBy(B) <=> x \in InBucket(GroupBy(T), b, n)
    BY <1>1, <1>2, <1>3, <1>4, <1>5
  <1> QED
    BY <1>6 DEF B

\* Two tuples that match are in the same bucket, so joining one bucket of
\* either side, or of both, gives the pairs of that bucket.
LEMMA InnerJoinBucket ==
    ASSUME NEW L, NEW R, NEW b, NEW n
    PROVE  /\ InnerJoin(InBucket(L, b, n), InBucket(R, b, n)) = InBucket(InnerJoin(L, R), b, n)
           /\ InnerJoin(InBucket(L, b, n), R) = InBucket(InnerJoin(L, R), b, n)
           /\ InnerJoin(L, InBucket(R, b, n)) = InBucket(InnerJoin(L, R), b, n)
  <1>1. \A l, r : Joined(l, r).key = l.key /\ (Matches(l, r) => l.key = r.key)
    BY DEF Joined, Matches
  <1>2. \A S, t : t \in InBucket(S, b, n) <=> t \in S /\ BucketOf(t.key, n) = b
    BY DEF InBucket
  <1> DEFINE InB(t) == BucketOf(t.key, n) = b
             Pair(x, l, r) == Matches(l, r) /\ x = Joined(l, r)
             LB == InBucket(L, b, n)
             RB == InBucket(R, b, n)
             Whole == InBucket(InnerJoin(L, R), b, n)
  <1>3. \A x : x \in Whole <=> \E l \in L, r \in R : Pair(x, l, r) /\ InB(l)
    BY <1>1, <1>2, InnerJoinIn
  <1>4. \A x, l, r : Pair(x, l, r) => (InB(l) <=> InB(r))
    BY <1>1
  <1>5. /\ \A x : x \in InnerJoin(LB, RB) <=> \E l \in LB, r \in RB : Pair(x, l, r)
        /\ \A x : x \in InnerJoin(LB, R) <=> \E l \in LB, r \in R : Pair(x, l, r)
        /\ \A x : x \in InnerJoin(L, RB) <=> \E l \in L, r \in RB : Pair(x, l, r)
    BY InnerJoinIn
  <1>6. (\A t : t \in LB <=> t \in L /\ InB(t)) /\ (\A t : t \in RB <=> t \in R /\ InB(t))
    BY <1>2
  <1> HIDE DEF InB, Pair, LB, RB, Whole
  <1>7. \A x : x \in InnerJoin(LB, RB) <=> x \in Whole
    BY <1>3, <1>4, <1>5, <1>6
  <1>8. \A x : x \in InnerJoin(LB, R) <=> x \in Whole
    BY <1>3, <1>4, <1>5, <1>6
  <1>9. \A x : x \in InnerJoin(L, RB) <=> x \in Whole
    BY <1>3, <1>4, <1>5, <1>6
  <1> QED
    BY <1>7, <1>8, <1>9 DEF LB, RB, Whole

\* Aggregation in two phases: grouping the groups of each part gives the
\* groups of the whole.
LEMMA TwoPhaseGroupBy ==
    ASSUME NEW I, NEW part
    PROVE  GroupBy(UNION {GroupBy(part[i]) : i \in I}) = GroupBy(UNION {part[i] : i \in I})
  <1> DEFINE From(S, k) == UNION {u.from : u \in {v \in S : v.key = k}}
             Group(S, k) == [key |-> k, from |-> From(S, k)]
             Whole == UNION {part[i] : i \in I}
             Parts == UNION {GroupBy(part[i]) : i \in I}
  <1>1. \A S, x : x \in GroupBy(S) <=> \E t \in S : x = Group(S, t.key)
    BY GroupByIn
  <1>2. \A S, k : Group(S, k).key = k /\ Group(S, k).from = From(S, k)
    OBVIOUS
  <1>3. \A S, k, r : r \in From(S, k) <=> \E v \in S : v.key = k /\ r \in v.from
    OBVIOUS
  <1>4. \A t : t \in Whole <=> \E i \in I : t \in part[i]
    OBVIOUS
  <1>5. \A x : x \in Parts <=> \E i \in I : x \in GroupBy(part[i])
    OBVIOUS
  <1>6. \A k : From(Parts, k) = From(Whole, k) => Group(Parts, k) = Group(Whole, k)
    OBVIOUS
  <1> HIDE DEF From, Group, Whole, Parts
  <1>7. ASSUME NEW k
        PROVE  From(Parts, k) = From(Whole, k)
    <2>1. ASSUME NEW r, r \in From(Parts, k)
          PROVE  r \in From(Whole, k)
      <3>1. PICK w \in Parts : w.key = k /\ r \in w.from
        BY <1>3, <2>1
      <3>2. PICK i \in I : w \in GroupBy(part[i])
        BY <1>5
      <3>3. w.from = From(part[i], k)
        BY <1>1, <1>2, <3>1, <3>2
      <3>4. PICK v \in part[i] : v.key = k /\ r \in v.from
        BY <1>3, <3>1, <3>3
      <3> QED
        BY <1>3, <1>4, <3>4
    <2>2. ASSUME NEW r, r \in From(Whole, k)
          PROVE  r \in From(Parts, k)
      <3>1. PICK v \in Whole : v.key = k /\ r \in v.from
        BY <1>3, <2>2
      <3>2. PICK i \in I : v \in part[i]
        BY <1>4
      <3>3. Group(part[i], k) \in Parts
        BY <1>1, <1>5, <3>1, <3>2
      <3>4. r \in From(part[i], k)
        BY <1>3, <3>1, <3>2
      <3> QED
        BY <1>2, <1>3, <3>3, <3>4
    <2> QED
      BY <2>1, <2>2
  <1>8. \A k : (\E w \in Parts : w.key = k) <=> (\E t \in Whole : t.key = k)
    BY <1>1, <1>2, <1>4, <1>5
  <1>9. ASSUME NEW x, x \in GroupBy(Parts)
        PROVE  x \in GroupBy(Whole)
    <2>1. PICK w \in Parts : x = Group(Parts, w.key)
      BY <1>1, <1>9
    <2>2. PICK t \in Whole : t.key = w.key
      BY <1>8
    <2> QED
      BY <1>1, <1>6, <1>7, <2>1, <2>2
  <1>10. ASSUME NEW x, x \in GroupBy(Whole)
         PROVE  x \in GroupBy(Parts)
    <2>1. PICK t \in Whole : x = Group(Whole, t.key)
      BY <1>1, <1>10
    <2>2. PICK w \in Parts : w.key = t.key
      BY <1>8
    <2> QED
      BY <1>1, <1>6, <1>7, <2>1, <2>2
  <1> QED
    BY <1>9, <1>10 DEF Parts, Whole

\* A table's tuples are those of its data files, disjoint as the files are.
LEMMA TuplesOfParts ==
    ASSUME NEW I, NEW part
    PROVE  /\ TuplesOf(UNION {part[i] : i \in I}) = UNION {TuplesOf(part[i]) : i \in I}
           /\ Where(TuplesOf(UNION {part[i] : i \in I}))
                = UNION {Where(TuplesOf(part[i])) : i \in I}
  <1>1. TuplesOf(UNION {part[i] : i \in I}) = UNION {TuplesOf(part[i]) : i \in I}
    BY DEF TuplesOf
  <1>2. Where(UNION {TuplesOf(part[i]) : i \in I}) = UNION {Where(TuplesOf(part[i])) : i \in I}
    BY DEF Where
  <1> QED
    BY <1>1, <1>2

LEMMA TuplesOfDisjoint ==
    ASSUME NEW rows, NEW others, rows \cap others = {}
    PROVE  Where(TuplesOf(rows)) \cap Where(TuplesOf(others)) = {}
  <1>1. ASSUME NEW t, t \in TuplesOf(rows), t \in TuplesOf(others)
        PROVE  FALSE
    <2>1. PICK r \in rows : t = [key |-> KeyOf[r], from |-> {r}]
      BY <1>1 DEF TuplesOf
    <2>2. PICK q \in others : t = [key |-> KeyOf[q], from |-> {q}]
      BY <1>1 DEF TuplesOf
    <2>3. t.from = {r} /\ t.from = {q}
      BY <2>1, <2>2
    <2> QED
      BY <2>3
  <1> QED
    BY <1>1 DEF Where
-----------------------------------------------------------------------------
(* What the reduce instances of a join are given, by whichever strategy, when *)
(* the files of a bucket id hold that bucket of the table's tuples.           *)

HeldBy(content, paths) == UNION {content[p] : p \in paths}

\* content is what each path holds, whole the tuples of each table.
FilesHold(files, content, whole, n) ==
    \A t \in Table :
        /\ \A b : /\ HeldBy(content, PathsIn(files[t], b)) = InBucket(whole[t], b, n)
                  /\ PathsIn(files[t], b) = {} <=> InBucket(whole[t], b, n) = {}
                  /\ b \in BucketsIn(files[t]) <=> InBucket(whole[t], b, n) # {}
        /\ HeldBy(content, AllPaths(files[t])) = whole[t]
        /\ AllPaths(files[t]) = {} <=> whole[t] = {}

\* Each planned instance joins what makes its bucket of the answer, and every
\* bucket in which the answer has a tuple is planned.
JoinsBuckets(plan, content, whole, n) ==
    /\ \A b \in DOMAIN plan :
          InnerJoin(HeldBy(content, plan[b][Left]), HeldBy(content, plan[b][Right]))
            = InBucket(InnerJoin(whole[Left], whole[Right]), b, n)
    /\ \A x \in InnerJoin(whole[Left], whole[Right]) : BucketOf(x.key, n) \in DOMAIN plan

LEMMA JoinPlanBuckets ==
    ASSUME Query = "join", NEW files, DOMAIN files = Table,
           NEW content, NEW whole, NEW n, FilesHold(files, content, whole, n),
           NEW threshold
    PROVE  JoinsBuckets(ChooseJoinStrategy(files, threshold), content, whole, n)
  <1> DEFINE plan == ChooseJoinStrategy(files, threshold)
             L == whole[Left]
             R == whole[Right]
             J == InnerJoin(L, R)
             Of(t, b) == InBucket(whole[t], b, n)
             Content(paths) == HeldBy(content, paths)
             Good == /\ \A b \in DOMAIN plan :
                          InnerJoin(Content(plan[b][Left]), Content(plan[b][Right]))
                            = InBucket(J, b, n)
                     /\ \A x \in J : BucketOf(x.key, n) \in DOMAIN plan
  <1> SUFFICES Good
    BY DEF JoinsBuckets
  <1>1. Table = {Left, Right} /\ Left # Right
    BY QueryAssumption DEF Table
  <1>2. DOMAIN files = {Left, Right}
    BY <1>1
  <1>3. ASSUME NEW t \in Table, NEW b
        PROVE  /\ PathsIn(files[t], b) = {} <=> Of(t, b) = {}
               /\ b \in BucketsIn(files[t]) <=> Of(t, b) # {}
               /\ Content(PathsIn(files[t], b)) = Of(t, b)
    BY DEF FilesHold
  <1>4. /\ Content(AllPaths(files[Left])) = L /\ Content(AllPaths(files[Right])) = R
        /\ AllPaths(files[Left]) = {} <=> L = {}
        /\ AllPaths(files[Right]) = {} <=> R = {}
    BY <1>1 DEF FilesHold
  <1>5. ASSUME NEW x \in J
        PROVE  /\ Of(Left, BucketOf(x.key, n)) # {}
               /\ Of(Right, BucketOf(x.key, n)) # {}
               /\ L # {} /\ R # {}
    <2>1. PICK l \in L, r \in R : x.key = l.key /\ x.key = r.key
      BY InnerJoinIn DEF Matches, Joined
    <2> QED
      BY <2>1 DEF InBucket
  <1>6. ASSUME NEW b
        PROVE  /\ InnerJoin(Of(Left, b), Of(Right, b)) = InBucket(J, b, n)
               /\ InnerJoin(Of(Left, b), R) = InBucket(J, b, n)
               /\ InnerJoin(L, Of(Right, b)) = InBucket(J, b, n)
    BY InnerJoinBucket
  <1>7. \/ plan = GatherMulti(files)
        \/ plan = BroadcastPlan(files, Left, Right)
        \/ plan = BroadcastPlan(files, Right, Left)
    BY DEF ChooseJoinStrategy
  <1> HIDE DEF Of, Content, L, R, J, Good, plan
  <1>8. CASE plan = GatherMulti(files)
    <2>1. /\ \A b : b \in DOMAIN plan <=>
                       /\ b \in BucketsIn(files[Left]) \/ b \in BucketsIn(files[Right])
                       /\ PathsIn(files[Left], b) # {} /\ PathsIn(files[Right], b) # {}
          /\ \A b \in DOMAIN plan : \A t \in Table : plan[b][t] = PathsIn(files[t], b)
      <3>1. UNION {BucketsIn(files[t]) : t \in DOMAIN files}
              = BucketsIn(files[Left]) \cup BucketsIn(files[Right])
        BY <1>2
      <3>2. DOMAIN plan = {c \in BucketsIn(files[Left]) \cup BucketsIn(files[Right]) :
                               \A t \in {Left, Right} : PathsIn(files[t], c) # {}}
        BY <1>2, <1>8, <3>1 DEF GatherMulti
      <3>3. \A b \in DOMAIN plan : plan[b] = [t \in {Left, Right} |-> PathsIn(files[t], b)]
        BY <1>2, <1>8 DEF GatherMulti
      <3> QED
        BY <1>1, <3>2, <3>3
    <2>2. ASSUME NEW b \in DOMAIN plan
          PROVE  InnerJoin(Content(plan[b][Left]), Content(plan[b][Right])) = InBucket(J, b, n)
      <3>1. Content(plan[b][Left]) = Of(Left, b) /\ Content(plan[b][Right]) = Of(Right, b)
        BY <1>1, <1>3, <2>1
      <3> QED
        BY <1>6, <3>1
    <2>3. \A x \in J : BucketOf(x.key, n) \in DOMAIN plan
      BY <1>1, <1>3, <1>5, <2>1
    <2> QED
      BY <2>2, <2>3 DEF Good
  <1>9. CASE plan = BroadcastPlan(files, Left, Right)
    <2>1. /\ DOMAIN plan = {c \in BucketsIn(files[Left]) : AllPaths(files[Right]) # {}}
          /\ \A b \in DOMAIN plan : /\ plan[b][Left] = PathsIn(files[Left], b)
                                    /\ plan[b][Right] = AllPaths(files[Right])
      BY <1>1, <1>9 DEF BroadcastPlan
    <2>2. ASSUME NEW b \in DOMAIN plan
          PROVE  InnerJoin(Content(plan[b][Left]), Content(plan[b][Right])) = InBucket(J, b, n)
      <3>1. Content(plan[b][Left]) = Of(Left, b) /\ Content(plan[b][Right]) = R
        BY <1>1, <1>3, <1>4, <2>1
      <3> QED
        BY <1>6, <3>1
    <2>3. \A x \in J : BucketOf(x.key, n) \in DOMAIN plan
      BY <1>1, <1>3, <1>4, <1>5, <2>1
    <2> QED
      BY <2>2, <2>3 DEF Good
  <1>10. CASE plan = BroadcastPlan(files, Right, Left)
    <2>1. /\ DOMAIN plan = {c \in BucketsIn(files[Right]) : AllPaths(files[Left]) # {}}
          /\ \A b \in DOMAIN plan : /\ plan[b][Right] = PathsIn(files[Right], b)
                                    /\ plan[b][Left] = AllPaths(files[Left])
      BY <1>1, <1>10 DEF BroadcastPlan
    <2>2. ASSUME NEW b \in DOMAIN plan
          PROVE  InnerJoin(Content(plan[b][Left]), Content(plan[b][Right])) = InBucket(J, b, n)
      <3>1. Content(plan[b][Left]) = L /\ Content(plan[b][Right]) = Of(Right, b)
        BY <1>1, <1>3, <1>4, <2>1
      <3> QED
        BY <1>6, <3>1
    <2>3. \A x \in J : BucketOf(x.key, n) \in DOMAIN plan
      BY <1>1, <1>3, <1>4, <1>5, <2>1
    <2> QED
      BY <2>2, <2>3 DEF Good
  <1> QED
    BY <1>7, <1>8, <1>9, <1>10

-----------------------------------------------------------------------------
(* How many rows a planner counts.  The library's induction principle takes  *)
(* an operator; stated of a set, it follows from the well-foundedness of <.  *)

LEMMA NatSetInduction ==
    ASSUME NEW N \in SUBSET Nat, 0 \in N, \A n \in N : n + 1 \in N
    PROVE  N = Nat
  <1> DEFINE T == Nat \ N
             R == OpToRel(<, Nat)
  <1> SUFFICES ASSUME T # {} PROVE FALSE
    OBVIOUS
  <1>1. \A m, n \in Nat : m < n => <<m, n>> \in R
    BY Zenon DEF OpToRel
  <1>2. T \subseteq Nat /\ IsWellFoundedOn(R, Nat)
    BY NatLessThanWellFounded, Zenon
  <1> HIDE DEF R
  <1>3. PICK x \in T : \A y \in T : ~(<<y, x>> \in R)
    <2> HIDE DEF T
    <2> QED
      BY <1>2, WFMin
  <1>4. x - 1 \in Nat /\ x - 1 < x
    OBVIOUS
  <1>5. x - 1 \notin T
    BY <1>1, <1>3, <1>4
  <1> QED
    BY <1>4, <1>5

\* One step of the sum over a set of listed files.
RowSum(g, s) ==
    IF s = {} THEN 0
    ELSE (CHOOSE f \in s : TRUE).rows + g[s \ {CHOOSE f \in s : TRUE}]

LEMMA TotalRowsUnfold ==
    ASSUME NEW files
    PROVE  TotalRows(files) = (CHOOSE g : g = [s \in SUBSET files |-> RowSum(g, s)])[files]
  BY DEF TotalRows, MapThenSumSet, MapThenFoldSet, RowSum

\* A non-empty finite set loses one in size with the file that is summed.
LEMMA OneFileLess ==
    ASSUME NEW s, IsFiniteSet(s), s # {}
    PROVE  LET f == CHOOSE f \in s : TRUE
           IN  /\ f \in s
               /\ IsFiniteSet(s \ {f})
               /\ Cardinality(s) \in Nat \ {0}
               /\ Cardinality(s \ {f}) = Cardinality(s) - 1
  <1> DEFINE f == CHOOSE f \in s : TRUE
  <1>1. f \in s
    OBVIOUS
  <1> HIDE DEF f
  <1>2. IsFiniteSet(s \ {f}) /\ Cardinality(s \ {f}) = Cardinality(s) - 1
    BY <1>1, FS_RemoveElement
  <1>3. Cardinality(s) \in Nat \ {0}
    BY FS_CardinalityType, FS_EmptySet
  <1> QED
    BY <1>1, <1>2, <1>3 DEF f

\* The recursion of the sum over a finite set has a solution.
LEMMA RowSumDefined ==
    ASSUME NEW files, IsFiniteSet(files)
    PROVE  \E g : g = [s \in SUBSET files |-> RowSum(g, s)]
  <1> DEFINE UpTo(n) == {s \in SUBSET files : Cardinality(s) <= n}
             N == {n \in Nat : \E g : g = [s \in UpTo(n) |-> RowSum(g, s)]}
  <1>1. \A s \in SUBSET files : IsFiniteSet(s) /\ Cardinality(s) \in Nat
    BY FS_Subset, FS_CardinalityType
  <1>2. ASSUME NEW s \in SUBSET files, s # {}
        PROVE  LET f == CHOOSE f \in s : TRUE
               IN  s \ {f} \in SUBSET files /\ Cardinality(s \ {f}) = Cardinality(s) - 1
    BY <1>1, <1>2, OneFileLess
  <1>3. 0 \in N
    <2> DEFINE g == [s \in UpTo(0) |-> 0]
    <2>1. \A s \in UpTo(0) : s = {}
      BY <1>1, FS_EmptySet
    <2>2. g = [s \in UpTo(0) |-> RowSum(g, s)]
      BY <2>1 DEF RowSum
    <2> QED
      BY <2>2
  <1>4. ASSUME NEW n \in N
        PROVE  n + 1 \in N
    <2>1. PICK g : g = [s \in UpTo(n) |-> RowSum(g, s)]
      OBVIOUS
    <2> DEFINE h == [s \in UpTo(n + 1) |-> IF Cardinality(s) <= n THEN g[s] ELSE RowSum(g, s)]
    <2>2. ASSUME NEW s \in UpTo(n + 1)
          PROVE  h[s] = RowSum(h, s)
      <3>1. h[s] = RowSum(g, s)
        <4>1. CASE Cardinality(s) <= n
          <5>1. s \in UpTo(n)
            BY <4>1
          <5>2. g[s] = RowSum(g, s)
            BY <2>1, <5>1
          <5> QED
            BY <4>1, <5>2
        <4>2. CASE ~(Cardinality(s) <= n)
          BY <4>2
        <4> QED
          BY <4>1, <4>2
      <3>2. CASE s = {}
        BY <3>1, <3>2 DEF RowSum
      <3>3. CASE s # {}
        <4> DEFINE u == s \ {CHOOSE f \in s : TRUE}
        <4>1. u \in SUBSET files /\ Cardinality(u) = Cardinality(s) - 1
          BY <1>2, <3>3
        <4>2. u \in UpTo(n + 1) /\ Cardinality(u) <= n
          BY <1>1, <4>1
        <4>3. h[u] = g[u]
          BY <4>2
        <4> QED
          BY <3>1, <3>3, <4>3 DEF RowSum
      <3> QED
        BY <3>2, <3>3
    <2>3. h = [s \in UpTo(n + 1) |-> RowSum(h, s)]
      <3>1. \A s \in UpTo(n + 1) : h[s] = RowSum(h, s)
        BY <2>2
      <3>2. h = [s \in UpTo(n + 1) |-> h[s]]
        OBVIOUS
      <3> HIDE DEF h, UpTo
      <3> QED
        BY <3>1, <3>2
    <2> HIDE DEF h
    <2> QED
      BY <2>3, SMTT(30)
  <1>5. N = Nat
    <2>1. N \in SUBSET Nat
      OBVIOUS
    <2> HIDE DEF N
    <2> QED
      BY <1>3, <1>4, <2>1, NatSetInduction
  <1>6. Cardinality(files) \in N
    BY <1>1, <1>5
  <1>7. \A s \in SUBSET files : Cardinality(s) <= Cardinality(files)
    BY FS_Subset
  <1>8. UpTo(Cardinality(files)) = SUBSET files
    BY <1>7
  <1> QED
    BY <1>6, <1>8

\* Files that share no tuple have as many rows together as there are tuples in
\* them, when each is listed with its own number.
LEMMA TotalRowsCount ==
    ASSUME NEW files, IsFiniteSet(files), NEW content,
           \A f \in files : IsFiniteSet(content[f]) /\ f.rows = Cardinality(content[f]),
           \A f, g \in files : f # g => content[f] \cap content[g] = {}
    PROVE  TotalRows(files) = Cardinality(UNION {content[f] : f \in files})
  <1> DEFINE g == CHOOSE g : g = [s \in SUBSET files |-> RowSum(g, s)]
             All(s) == UNION {content[f] : f \in s}
             N == {n \in Nat : \A s \in SUBSET files :
                      Cardinality(s) = n => IsFiniteSet(All(s)) /\ g[s] = Cardinality(All(s))}
  <1>1. g = [s \in SUBSET files |-> RowSum(g, s)]
    BY RowSumDefined
  <1>2. TotalRows(files) = g[files]
    BY TotalRowsUnfold
  <1> HIDE DEF g
  <1>3. \A s \in SUBSET files : IsFiniteSet(s) /\ Cardinality(s) \in Nat
    BY FS_Subset, FS_CardinalityType
  <1>4. 0 \in N
    <2>1. ASSUME NEW s \in SUBSET files, Cardinality(s) = 0
          PROVE  IsFiniteSet(All(s)) /\ g[s] = Cardinality(All(s))
      <3>1. s = {} /\ All(s) = {}
        BY <1>3, <2>1, FS_EmptySet
      <3>2. g[s] = 0
        BY <1>1, <3>1 DEF RowSum
      <3> QED
        BY <3>1, <3>2, FS_EmptySet
    <2> QED
      BY <2>1
  <1>5. ASSUME NEW n \in N
        PROVE  n + 1 \in N
    <2>1. ASSUME NEW s \in SUBSET files, Cardinality(s) = n + 1
          PROVE  IsFiniteSet(All(s)) /\ g[s] = Cardinality(All(s))
      <3>1. s # {}
        BY <2>1, FS_EmptySet
      <3> DEFINE f == CHOOSE f \in s : TRUE
                 u == s \ {f}
      <3>2. f \in s /\ u \in SUBSET files /\ Cardinality(u) = n
        BY <1>3, <2>1, <3>1, OneFileLess, SMTT(30)
      <3>3. g[s] = f.rows + g[u]
        BY <1>1, <3>1 DEF RowSum
      <3> HIDE DEF f
      <3>4. IsFiniteSet(All(u)) /\ g[u] = Cardinality(All(u))
        BY <3>2
      <3>5. IsFiniteSet(content[f]) /\ f.rows = Cardinality(content[f])
        BY <3>2
      <3>6. All(s) = content[f] \cup All(u) /\ content[f] \cap All(u) = {}
        BY <3>2
      <3>7. /\ IsFiniteSet(All(s))
            /\ Cardinality(All(s)) = Cardinality(content[f]) + Cardinality(All(u)) - 0
        <4> HIDE DEF All, u
        <4> QED
          BY <3>4, <3>5, <3>6, FS_Union, FS_EmptySet, SMTT(30)
      <3>8. Cardinality(content[f]) \in Nat /\ Cardinality(All(u)) \in Nat
        BY <3>4, <3>5, FS_CardinalityType
      <3> QED
        BY <3>3, <3>4, <3>5, <3>7, <3>8
    <2> QED
      BY <2>1
  <1>6. N = Nat
    <2>1. N \in SUBSET Nat
      OBVIOUS
    <2> HIDE DEF N
    <2> QED
      BY <1>4, <1>5, <2>1, NatSetInduction
  <1>7. Cardinality(files) \in N
    BY <1>3, <1>6
  <1> QED
    BY <1>2, <1>7

-----------------------------------------------------------------------------
(* The width *)

\* Rounding up keeps the quotient within one of the exact ratio.
LEMMA CeilDivBounds ==
    ASSUME NEW n \in Nat, NEW d \in Nat \ {0}
    PROVE  /\ CeilDiv(n, d) \in Nat
           /\ CeilDiv(n, d) * d >= n
           /\ CeilDiv(n, d) * d < n + d
  <1> DEFINE q == (n + d - 1) \div d
             r == (n + d - 1) % d
  <1>1. q \in Int /\ r \in 0..(d - 1) /\ n + d - 1 = d * q + r
    OBVIOUS
  <1>2. d * q >= n /\ d * q < n + d
    BY <1>1
  <1>3. q >= 0
    BY <1>1
  <1> QED
    BY <1>1, <1>2, <1>3 DEF CeilDiv

\* The width that compute returns: clamped to 1..num_buckets whatever the
\* metadata (BucketingPolicy.compute), so that hash_partition, which raises for
\* a width below one, can always use it.
THEOREM ComputeInRange ==
    ASSUME NEW policy \in BucketingPolicy, NEW m \in Metadata
    PROVE  Compute(policy, m) \in 1..policy.num_buckets
  <1>1. BaseWidth(policy, m) \in Nat
    <2>1. OrZero(m.rows) \in Nat /\ OrZero(m.bytes) \in Nat
      BY DEF OrZero, Metadata, NoEstimate
    <2> QED
      BY <2>1, CeilDivBounds DEF BaseWidth, BucketingPolicy, Strategy, Metadata
  <1> QED
    BY <1>1 DEF Compute, Lesser, Greater, BucketingPolicy
================================================================================
