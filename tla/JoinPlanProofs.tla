---------------------------- MODULE JoinPlanProofs ----------------------------
(***************************************************************************)
(* The planner of a join is right however the rows of the two tables are   *)
(* spread over their data files, for every width, threshold and hash.      *)
(***************************************************************************)
EXTENDS MCShuffle, ShuffleProofs

\* A row is in one data file of its table.
PlacementInv ==
    /\ rows \in [Table -> [Part -> SUBSET Row]]
    /\ width \in Nat \ {0} /\ threshold \in Nat
    /\ \A t \in Table : \A i, j \in Part : i # j => rows[t][i] \cap rows[t][j] = {}

LEMMA PlacementInit == Init => PlacementInv
  <1> SUFFICES ASSUME Init PROVE PlacementInv
    OBVIOUS
  <1>1. width \in Nat \ {0} /\ threshold \in Nat
    BY DEF Init
  <1> QED
    BY <1>1 DEF Init, PlacementInv

LEMMA PlacementStep == PlacementInv /\ [Next]_vars => PlacementInv'
  <1> SUFFICES ASSUME PlacementInv, [Next]_vars PROVE PlacementInv'
    OBVIOUS
  <1>1. ASSUME NEW t \in Table, NEW i \in Part, AddRow(t, i)
        PROVE  PlacementInv'
    <2>1. PICK r \in RowsOf[t] \ Placed(t) : rows' = [rows EXCEPT ![t][i] = @ \cup {r}]
      BY <1>1 DEF AddRow
    <2>2. r \in Row /\ \A j \in Part : r \notin rows[t][j]
      BY <2>1, MCAssumption DEF Placed
    <2>3. rows' \in [Table -> [Part -> SUBSET Row]]
      BY <2>1, <2>2 DEF PlacementInv
    <2>4. ASSUME NEW u \in Table, NEW j \in Part, NEW k \in Part, j # k
          PROVE  rows'[u][j] \cap rows'[u][k] = {}
      <3>1. rows[u][j] \cap rows[u][k] = {}
        BY <2>4 DEF PlacementInv
      <3>2. \A m \in Part : rows'[u][m] = IF u = t /\ m = i THEN rows[u][m] \cup {r} ELSE rows[u][m]
        BY <2>1 DEF PlacementInv
      <3> QED
        BY <2>2, <2>4, <3>1, <3>2
    <2>5. width' = width /\ threshold' = threshold
      BY <1>1 DEF AddRow
    <2> QED
      BY <2>3, <2>4, <2>5 DEF PlacementInv
  <1>2. CASE UNCHANGED vars
    BY <1>2 DEF vars, PlacementInv
  <1> QED
    BY <1>1, <1>2 DEF Next

-----------------------------------------------------------------------------
(* The listed files *)

\* What a data file's map instance writes to a bucket.
LEMMA BucketsIs ==
    ASSUME NEW t \in Table, NEW i \in Part, NEW b
    PROVE  /\ b \in DOMAIN Buckets(t, i) <=>
                \E u \in TuplesOf(rows[t][i]) : BucketOf(u.key, width) = b
           /\ b \in DOMAIN Buckets(t, i) =>
                Buckets(t, i)[b] = InBucket(TuplesOf(rows[t][i]), b, width)
  BY DEF Buckets, HashPartition, InBucket

LEMMA FileIs ==
    ASSUME NEW t \in Table, NEW f
    PROVE  f \in Files[t] <=>
             \E i \in Part : \E b \in DOMAIN Buckets(t, i) :
                 f = [path |-> <<t, i, b>>, bucket |-> b, rows |-> Cardinality(Buckets(t, i)[b])]
  BY DEF Files

\* What is at a path.
At(p) == Buckets(p[1], p[2])[p[3]]

LEMMA ListedFile ==
    ASSUME NEW t \in Table, NEW f \in Files[t]
    PROVE  \E i \in Part :
             /\ f.path = <<t, i, f.bucket>>
             /\ f.rows = Cardinality(At(f.path))
             /\ At(f.path) = InBucket(TuplesOf(rows[t][i]), f.bucket, width)
             /\ At(f.path) # {}
  <1>1. PICK i \in Part : \E b \in DOMAIN Buckets(t, i) :
          f = [path |-> <<t, i, b>>, bucket |-> b, rows |-> Cardinality(Buckets(t, i)[b])]
    BY FileIs
  <1>2. PICK b \in DOMAIN Buckets(t, i) :
          f = [path |-> <<t, i, b>>, bucket |-> b, rows |-> Cardinality(Buckets(t, i)[b])]
    BY <1>1
  <1>3. f.path = <<t, i, b>> /\ f.bucket = b /\ f.rows = Cardinality(Buckets(t, i)[b])
    BY <1>2
  <1>4. At(f.path) = Buckets(t, i)[b]
    BY <1>3 DEF At
  <1>5. Buckets(t, i)[b] = InBucket(TuplesOf(rows[t][i]), b, width)
    BY BucketsIs
  <1>6. PICK u \in TuplesOf(rows[t][i]) : BucketOf(u.key, width) = b
    BY BucketsIs
  <1>7. u \in InBucket(TuplesOf(rows[t][i]), b, width)
    BY <1>6 DEF InBucket
  <1> QED
    BY <1>3, <1>4, <1>5, <1>7

LEMMA TupleListed ==
    ASSUME NEW t \in Table, NEW i \in Part, NEW u \in TuplesOf(rows[t][i])
    PROVE  \E f \in Files[t] : f.bucket = BucketOf(u.key, width) /\ u \in At(f.path)
  <1> DEFINE b == BucketOf(u.key, width)
             f == [path |-> <<t, i, b>>, bucket |-> b, rows |-> Cardinality(Buckets(t, i)[b])]
  <1>1. b \in DOMAIN Buckets(t, i)
    BY BucketsIs
  <1>2. f \in Files[t]
    BY <1>1, FileIs
  <1>3. At(f.path) = Buckets(t, i)[b]
    BY DEF At
  <1>4. Buckets(t, i)[b] = InBucket(TuplesOf(rows[t][i]), b, width)
    BY <1>1, BucketsIs
  <1>5. u \in InBucket(TuplesOf(rows[t][i]), b, width)
    BY DEF InBucket
  <1> QED
    BY <1>2, <1>3, <1>4, <1>5

\* The files of a bucket id hold that bucket of the table, all of them all.
LEMMA FilesHoldTables ==
    LET all   == UNION {AllPaths(Files[t]) : t \in Table}
        whole == [t \in Table |-> TuplesOf(Placed(t))]
    IN  FilesHold(Files, [p \in all |-> At(p)], whole, width)
  <1> DEFINE all == UNION {AllPaths(Files[t]) : t \in Table}
             content == [p \in all |-> At(p)]
             Whole(t) == TuplesOf(Placed(t))
  <1>1. \A t \in Table : \A u : u \in Whole(t) <=> \E i \in Part : u \in TuplesOf(rows[t][i])
    BY DEF TuplesOf, Placed
  <1> HIDE DEF Whole
  <1>2. ASSUME NEW t \in Table
        PROVE  /\ \A b : /\ HeldBy(content, PathsIn(Files[t], b)) = InBucket(Whole(t), b, width)
                         /\ PathsIn(Files[t], b) = {} <=> InBucket(Whole(t), b, width) = {}
                         /\ b \in BucketsIn(Files[t]) <=> InBucket(Whole(t), b, width) # {}
               /\ HeldBy(content, AllPaths(Files[t])) = Whole(t)
               /\ AllPaths(Files[t]) = {} <=> Whole(t) = {}
    <2> DEFINE F == Files[t]
               W == Whole(t)
    <2>1. \A f \in F : f.path \in all /\ content[f.path] = At(f.path)
      BY DEF AllPaths
    <2>2. ASSUME NEW f \in F
          PROVE  content[f.path] # {} /\ content[f.path] \subseteq InBucket(W, f.bucket, width)
      <3>1. PICK i \in Part : /\ At(f.path) = InBucket(TuplesOf(rows[t][i]), f.bucket, width)
                              /\ At(f.path) # {}
        BY ListedFile
      <3>2. InBucket(TuplesOf(rows[t][i]), f.bucket, width) \subseteq InBucket(W, f.bucket, width)
        BY <1>1 DEF InBucket
      <3> QED
        BY <2>1, <3>1, <3>2
    <2>3. \A u \in W : \E f \in F : f.bucket = BucketOf(u.key, width) /\ u \in content[f.path]
      BY <1>1, <2>1, TupleListed
    <2>4. \A p, b : p \in PathsIn(F, b) <=> \E f \in F : f.bucket = b /\ p = f.path
      BY DEF PathsIn
    <2>5. \A p : p \in AllPaths(F) <=> \E f \in F : p = f.path
      BY DEF AllPaths
    <2>6. \A b : b \in BucketsIn(F) <=> \E f \in F : f.bucket = b
      BY DEF BucketsIn
    <2> HIDE DEF F, W, content
    <2>7. \A b, u : u \in InBucket(W, b, width) <=> u \in W /\ BucketOf(u.key, width) = b
      BY DEF InBucket
    <2>8. \A P, u : u \in HeldBy(content, P) <=> \E p \in P : u \in content[p]
      BY DEF HeldBy
    <2>9. \A b : (\E f \in F : f.bucket = b) <=> InBucket(W, b, width) # {}
      BY <2>2, <2>3, <2>7
    <2>10. ASSUME NEW b PROVE HeldBy(content, PathsIn(F, b)) = InBucket(W, b, width)
      <3>1. \A u : u \in HeldBy(content, PathsIn(F, b)) => u \in InBucket(W, b, width)
        BY <2>2, <2>4, <2>8
      <3>2. \A u : u \in InBucket(W, b, width) => u \in HeldBy(content, PathsIn(F, b))
        BY <2>3, <2>4, <2>7, <2>8
      <3> QED
        BY <3>1, <3>2
    <2>11. HeldBy(content, AllPaths(F)) = W
      <3>1. \A u : u \in HeldBy(content, AllPaths(F)) => u \in W
        BY <2>2, <2>5, <2>7, <2>8
      <3>2. \A u : u \in W => u \in HeldBy(content, AllPaths(F))
        BY <2>3, <2>5, <2>8
      <3> QED
        BY <3>1, <3>2
    <2>12. AllPaths(F) = {} <=> W = {}
      BY <2>2, <2>3, <2>5, <2>7
    <2>13. ASSUME NEW b PROVE PathsIn(F, b) = {} <=> InBucket(W, b, width) = {}
      <3>1. PathsIn(F, b) # {} <=> \E f \in F : f.bucket = b
        BY <2>4
      <3> QED
        BY <2>9, <3>1
    <2>14. \A b : b \in BucketsIn(F) <=> InBucket(W, b, width) # {}
      BY <2>6, <2>9
    <2> QED
      BY <2>10, <2>11, <2>12, <2>13, <2>14 DEF F, W
  <1> HIDE DEF content
  <1> QED
    BY <1>2 DEF FilesHold, content, Whole

-----------------------------------------------------------------------------
(* Theorems *)

LEMMA PlacementAlways == Spec => []PlacementInv
  BY PlacementInit, PlacementStep, PTL DEF Spec

LEMMA FilesDomain == DOMAIN Files = Table /\ Files = [t \in Table |-> Files[t]]
  BY DEF Files

\* A planned instance reads listed files only, of each table.
LEMMA PlanReads ==
    ASSUME PlacementInv, NEW b \in DOMAIN Plan, NEW t \in Table
    PROVE  Plan[b][t] # {} /\ Plan[b][t] \subseteq AllPaths(Files[t])
  <1>1. threshold \in Nat /\ Query = "join"
    BY MCAssumption DEF PlacementInv
  <1> QED
    BY <1>1, FilesDomain, ChooseJoinStrategyReads DEF Plan

\* What an instance joins is its bucket of the answer.
LEMMA ReducedBuckets ==
    ASSUME PlacementInv
    PROVE  LET J == Answer([t \in Table |-> Placed(t)])
           IN  /\ \A b \in DOMAIN Plan : Reduced(b) = InBucket(J, b, width)
               /\ \A x \in J : BucketOf(x.key, width) \in DOMAIN Plan
  <1> DEFINE all == UNION {AllPaths(Files[t]) : t \in Table}
             content == [p \in all |-> At(p)]
             whole == [t \in Table |-> TuplesOf(Placed(t))]
             J == Answer([t \in Table |-> Placed(t)])
  <1>1. Query = "join" /\ Table = {Left, Right}
    BY MCAssumption DEF Table
  <1>2. JoinsBuckets(Plan, content, whole, width)
    BY <1>1, FilesDomain, FilesHoldTables, JoinPlanBuckets DEF Plan
  <1>3. J = InnerJoin(whole[Left], whole[Right])
    BY <1>1 DEF Answer
  <1>4. ASSUME NEW b \in DOMAIN Plan, NEW t \in Table
        PROVE  Content(Plan[b][t]) = HeldBy(content, Plan[b][t])
    <2>1. Plan[b][t] \subseteq all
      BY PlanReads
    <2>2. \A p \in Plan[b][t] : content[p] = Buckets(p[1], p[2])[p[3]]
      BY <2>1 DEF At
    <2> HIDE DEF content
    <2> QED
      BY <2>2 DEF Content, HeldBy
  <1>5. \A b \in DOMAIN Plan :
           Reduced(b) = InnerJoin(Content(Plan[b][Left]), Content(Plan[b][Right]))
    BY <1>1 DEF Reduced, SinkSql
  <1> HIDE DEF content, whole, J
  <1>6. \A b \in DOMAIN Plan : Reduced(b) = InBucket(J, b, width)
    BY <1>1, <1>2, <1>3, <1>4, <1>5 DEF JoinsBuckets
  <1>7. \A x \in J : BucketOf(x.key, width) \in DOMAIN Plan
    BY <1>2, <1>3 DEF JoinsBuckets
  <1> QED
    BY <1>6, <1>7 DEF J

\* choose_join_strategy is right: the reduce instances, of the broadcast as of
\* the shuffle join, together produce the inner join, and no pair comes from
\* two of them.
THEOREM JoinPlanCorrectAlways == Spec => []JoinPlanCorrect
  <1>1. ASSUME PlacementInv
        PROVE  JoinPlanCorrect
    <2> DEFINE J == Answer([t \in Table |-> Placed(t)])
    <2>1. /\ \A b \in DOMAIN Plan : Reduced(b) = InBucket(J, b, width)
          /\ \A x \in J : BucketOf(x.key, width) \in DOMAIN Plan
      BY <1>1, ReducedBuckets
    <2> HIDE DEF J
    <2>2. \A b, x : x \in InBucket(J, b, width) <=> x \in J /\ BucketOf(x.key, width) = b
      BY DEF InBucket
    <2>3. UNION {Reduced(b) : b \in DOMAIN Plan} = J
      <3>1. \A x : x \in UNION {Reduced(b) : b \in DOMAIN Plan} => x \in J
        BY <2>1, <2>2
      <3>2. \A x : x \in J => x \in UNION {Reduced(b) : b \in DOMAIN Plan}
        BY <2>1, <2>2
      <3> QED
        BY <3>1, <3>2
    <2>4. \A b, c \in DOMAIN Plan : b # c => Reduced(b) \cap Reduced(c) = {}
      BY <2>1, <2>2
    <2> QED
      BY <2>3, <2>4 DEF J, JoinPlanCorrect
  <1> QED
    BY <1>1, PlacementAlways, PTL

\* No reduce instance of a join is planned with an empty list of files for a
\* table, which execute_sql could not register.
THEOREM PlanNeverEmptySidedAlways == Spec => []PlanNeverEmptySided
  <1>1. PlacementInv => PlanNeverEmptySided
    BY PlanReads DEF PlanNeverEmptySided
  <1> QED
    BY <1>1, PlacementAlways, PTL

-----------------------------------------------------------------------------
(* The rows that the planner counts *)

LEMMA TupleCount ==
    ASSUME NEW R \in SUBSET Row
    PROVE  IsFiniteSet(TuplesOf(R)) /\ Cardinality(TuplesOf(R)) = Cardinality(R)
  <1> DEFINE f == [r \in R |-> [key |-> KeyOf[r], from |-> {r}]]
  <1>1. IsFiniteSet(R)
    BY QueryAssumption, FS_Subset
  <1>2. f \in [R -> TuplesOf(R)]
    BY DEF TuplesOf
  <1>3. \A r, q \in R : f[r] = f[q] => r = q
    <2>1. \A r \in R : f[r].from = {r}
      OBVIOUS
    <2> HIDE DEF f
    <2> QED
      BY <2>1
  <1>4. \A u \in TuplesOf(R) : \E r \in R : f[r] = u
    BY DEF TuplesOf
  <1>5. f \in Bijection(R, TuplesOf(R))
    BY <1>2, <1>3, <1>4 DEF Bijection, Injection, Surjection, IsInjective
  <1>6. ExistsBijection(R, TuplesOf(R))
    BY <1>5 DEF ExistsBijection
  <1> QED
    BY <1>1, <1>6, FS_Bijection

\* A listed file is known by its data file and its bucket.
LEMMA FileKnown ==
    ASSUME NEW t \in Table, NEW f \in Files[t], NEW g \in Files[t],
           f.path[2] = g.path[2], f.bucket = g.bucket
    PROVE  f = g
  <1>1. PICK i \in Part : \E b \in DOMAIN Buckets(t, i) :
          f = [path |-> <<t, i, b>>, bucket |-> b, rows |-> Cardinality(Buckets(t, i)[b])]
    BY FileIs
  <1>2. PICK b \in DOMAIN Buckets(t, i) :
          f = [path |-> <<t, i, b>>, bucket |-> b, rows |-> Cardinality(Buckets(t, i)[b])]
    BY <1>1
  <1>3. PICK j \in Part : \E c \in DOMAIN Buckets(t, j) :
          g = [path |-> <<t, j, c>>, bucket |-> c, rows |-> Cardinality(Buckets(t, j)[c])]
    BY FileIs
  <1>4. PICK c \in DOMAIN Buckets(t, j) :
          g = [path |-> <<t, j, c>>, bucket |-> c, rows |-> Cardinality(Buckets(t, j)[c])]
    BY <1>3
  <1>5. f.path = <<t, i, b>> /\ f.bucket = b /\ g.path = <<t, j, c>> /\ g.bucket = c
    BY <1>2, <1>4
  <1>6. f.path[2] = i /\ g.path[2] = j
    BY <1>5
  <1>7. i = j /\ b = c
    BY <1>5, <1>6
  <1> QED
    BY <1>2, <1>4, <1>7

LEMMA FilesFinite ==
    ASSUME PlacementInv, NEW t \in Table
    PROVE  IsFiniteSet(Files[t])
  <1> DEFINE B == Part \X (0..(width - 1))
             key == [f \in Files[t] |-> <<f.path[2], f.bucket>>]
  <1>1. IsFiniteSet(B)
    <2>1. IsFiniteSet(0..(width - 1))
      BY FS_Interval DEF PlacementInv
    <2> QED
      BY <2>1, MCAssumption, FS_Product
  <1>2. ASSUME NEW f \in Files[t]
        PROVE  <<f.path[2], f.bucket>> \in B
    <2>1. PICK i \in Part : \E b \in DOMAIN Buckets(t, i) :
            f = [path |-> <<t, i, b>>, bucket |-> b, rows |-> Cardinality(Buckets(t, i)[b])]
      BY FileIs
    <2>2. PICK b \in DOMAIN Buckets(t, i) :
            f = [path |-> <<t, i, b>>, bucket |-> b, rows |-> Cardinality(Buckets(t, i)[b])]
      BY <2>1
    <2>3. f.path[2] = i /\ f.bucket = b
      BY <2>2
    <2>4. PICK u \in TuplesOf(rows[t][i]) : BucketOf(u.key, width) = b
      BY BucketsIs
    <2>5. u.key \in Key
      BY TuplesOfType DEF PlacementInv, Tuple
    <2>6. b \in 0..(width - 1)
      BY <2>4, <2>5, BucketOfType DEF PlacementInv
    <2> QED
      BY <2>3, <2>6
  <1>3. key \in [Files[t] -> B]
    BY <1>2
  <1>4. ASSUME NEW f \in Files[t], NEW g \in Files[t], key[f] = key[g]
        PROVE  f = g
    <2>1. f.path[2] = g.path[2] /\ f.bucket = g.bucket
      BY <1>4
    <2> QED
      BY <2>1, FileKnown
  <1> HIDE DEF B, key
  <1>5. key \in Injection(Files[t], B)
    BY <1>3, <1>4 DEF Injection, IsInjective
  <1> QED
    BY <1>1, <1>5, FS_Injection

\* Two listed files of one table hold no tuple in common.
LEMMA FilesDisjoint ==
    ASSUME PlacementInv, NEW t \in Table, NEW f \in Files[t], NEW g \in Files[t], f # g
    PROVE  At(f.path) \cap At(g.path) = {}
  <1>1. PICK i \in Part : /\ f.path = <<t, i, f.bucket>>
                          /\ At(f.path) = InBucket(TuplesOf(rows[t][i]), f.bucket, width)
    BY ListedFile
  <1>2. PICK j \in Part : /\ g.path = <<t, j, g.bucket>>
                          /\ At(g.path) = InBucket(TuplesOf(rows[t][j]), g.bucket, width)
    BY ListedFile
  <1>3. f.path[2] = i /\ g.path[2] = j
    BY <1>1, <1>2
  <1>4. i # j \/ f.bucket # g.bucket
    BY <1>3, FileKnown
  <1>5. ASSUME i # j, NEW u \in TuplesOf(rows[t][i]), u \in TuplesOf(rows[t][j])
        PROVE  FALSE
    <2>1. rows[t][i] \cap rows[t][j] = {}
      BY <1>5 DEF PlacementInv
    <2>2. PICK r \in rows[t][i] : u = [key |-> KeyOf[r], from |-> {r}]
      BY DEF TuplesOf
    <2>3. PICK q \in rows[t][j] : u = [key |-> KeyOf[q], from |-> {q}]
      BY <1>5 DEF TuplesOf
    <2>4. u.from = {r} /\ u.from = {q}
      BY <2>2, <2>3
    <2> QED
      BY <2>1, <2>4
  <1> QED
    BY <1>1, <1>2, <1>4, <1>5 DEF InBucket

\* The rows in the XComs of a table's scan are the rows of the table.
LEMMA CountedRows ==
    ASSUME PlacementInv, NEW t \in Table
    PROVE  TotalRows(Files[t]) = Cardinality(Placed(t))
  <1> DEFINE F == Files[t]
             content == [f \in F |-> At(f.path)]
             W == TuplesOf(Placed(t))
  <1>1. Placed(t) \in SUBSET Row
    BY DEF Placed, PlacementInv
  <1>2. IsFiniteSet(W) /\ Cardinality(W) = Cardinality(Placed(t))
    BY <1>1, TupleCount
  <1>3. \A u : u \in W <=> \E i \in Part : u \in TuplesOf(rows[t][i])
    BY DEF TuplesOf, Placed
  <1> HIDE DEF W
  <1>4. ASSUME NEW f \in F
        PROVE  content[f] \in SUBSET W /\ f.rows = Cardinality(content[f])
    <2>1. PICK i \in Part : /\ f.rows = Cardinality(At(f.path))
                            /\ At(f.path) = InBucket(TuplesOf(rows[t][i]), f.bucket, width)
      BY ListedFile
    <2>2. At(f.path) \subseteq W
      BY <1>3, <2>1 DEF InBucket
    <2> QED
      BY <2>1, <2>2
  <1>5. \A f, g \in F : f # g => content[f] \cap content[g] = {}
    BY FilesDisjoint
  <1>6. \A u \in W : \E f \in F : u \in content[f]
    BY <1>3, TupleListed
  <1>7. IsFiniteSet(F)
    BY FilesFinite
  <1> HIDE DEF F, content
  <1>8. \A f \in F : IsFiniteSet(content[f]) /\ f.rows = Cardinality(content[f])
    BY <1>2, <1>4, FS_Subset
  <1>9. TotalRows(F) = Cardinality(UNION {content[f] : f \in F})
    BY <1>5, <1>7, <1>8, TotalRowsCount
  <1>10. UNION {content[f] : f \in F} = W
    BY <1>4, <1>6
  <1> QED
    BY <1>2, <1>9, <1>10 DEF F

-----------------------------------------------------------------------------
(* The replicated side *)

\* Two buckets of one table are in different files.
LEMMA BucketsApart ==
    ASSUME NEW t \in Table, NEW b, NEW c, b # c
    PROVE  PathsIn(Files[t], b) \cap PathsIn(Files[t], c) = {}
  <1>1. \A f \in Files[t] : f.path[3] = f.bucket
    <2>1. ASSUME NEW f \in Files[t] PROVE f.path[3] = f.bucket
      <3>1. PICK i \in Part : f.path = <<t, i, f.bucket>>
        BY ListedFile
      <3> QED
        BY <3>1
    <2> QED
      BY <2>1
  <1> QED
    BY <1>1 DEF PathsIn

\* What the broadcast plan gives two instances in common is of the small side.
LEMMA SmallReplicated ==
    ASSUME NEW big \in Table, NEW small \in Table, {big, small} = Table, big # small,
           Plan = BroadcastPlan(Files, big, small), NEW t \in Table,
           NEW b \in DOMAIN Plan, NEW c \in DOMAIN Plan, b # c, Plan[b][t] \cap Plan[c][t] # {}
    PROVE  t = small
  <1>1. \A d \in DOMAIN Plan : Plan[d][big] = PathsIn(Files[big], d)
    BY DEF BroadcastPlan
  <1> QED
    BY <1>1, BucketsApart

\* A side whose files several reduce instances read is within the threshold and
\* not the larger one (choose_join_strategy): each instance holds it in memory.
THEOREM ReplicatedSideIsSmallAlways == Spec => []ReplicatedSideIsSmall
  <1>1. ASSUME PlacementInv
        PROVE  ReplicatedSideIsSmall
    <2> SUFFICES ASSUME NEW t \in Table, NEW b \in DOMAIN Plan, NEW c \in DOMAIN Plan,
                        b # c, Plan[b][t] \cap Plan[c][t] # {}
                 PROVE  /\ Cardinality(Placed(t)) <= threshold
                        /\ \A u \in Table : Cardinality(Placed(t)) <= Cardinality(Placed(u))
      BY DEF ReplicatedSideIsSmall
    <2>1. Table = {Left, Right} /\ Left # Right /\ DOMAIN Files = Table
      BY MCAssumption, QueryAssumption, FilesDomain DEF Table
    <2>2. ASSUME NEW u \in Table
          PROVE  TotalRows(Files[u]) = Cardinality(Placed(u)) /\ Cardinality(Placed(u)) \in Nat
      <3>1. Placed(u) \in SUBSET Row
        BY <1>1 DEF Placed, PlacementInv
      <3>2. IsFiniteSet(Placed(u))
        BY <3>1, QueryAssumption, FS_Subset
      <3> QED
        BY <1>1, <3>2, CountedRows, FS_CardinalityType
    <2>3. CASE ~UsesBroadcast(Files, threshold)
      <3>1. Plan = GatherMulti(Files)
        BY <2>3 DEF Plan, ChooseJoinStrategy
      <3>2. \A d \in DOMAIN Plan : Plan[d][t] = PathsIn(Files[t], d)
        BY <2>1, <3>1 DEF GatherMulti
      <3> QED
        BY <3>2, BucketsApart
    <2>4. CASE UsesBroadcast(Files, threshold) /\ TotalRows(Files[Right]) <= TotalRows(Files[Left])
      <3>1. Plan = BroadcastPlan(Files, Left, Right)
        BY <2>4 DEF Plan, ChooseJoinStrategy
      <3>2. t = Right
        BY <2>1, <3>1, SmallReplicated
      <3>3. TotalRows(Files[Left]) <= threshold \/ TotalRows(Files[Right]) <= threshold
        BY <2>4 DEF UsesBroadcast
      <3> QED
        BY <1>1, <2>1, <2>2, <2>4, <3>2, <3>3 DEF PlacementInv
    <2>5. CASE UsesBroadcast(Files, threshold) /\ ~(TotalRows(Files[Right]) <= TotalRows(Files[Left]))
      <3>1. Plan = BroadcastPlan(Files, Right, Left)
        BY <2>5 DEF Plan, ChooseJoinStrategy
      <3>2. t = Left
        BY <2>1, <3>1, SmallReplicated
      <3>3. TotalRows(Files[Left]) <= threshold \/ TotalRows(Files[Right]) <= threshold
        BY <2>5 DEF UsesBroadcast
      <3> QED
        BY <1>1, <2>1, <2>2, <2>5, <3>2, <3>3 DEF PlacementInv
    <2> QED
      BY <2>3, <2>4, <2>5
  <1> QED
    BY <1>1, PlacementAlways, PTL
=============================================================================
