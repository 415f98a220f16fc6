------------------------ MODULE CompiledQueryProofs ------------------------
(***************************************************************************)
(* Why the compiler never silently returns a wrong number: the stages it   *)
(* emits for an ordinary query, run per partition and per bucket, give the *)
(* rows that the query gives on one engine, each once, over any tables, in *)
(* any partitions, with NULLs anywhere and for every hash function.  And   *)
(* that it refuses of the described queries what the docs say it rejects.  *)
(***************************************************************************)
EXTENDS StageGraphProofs, FiniteSetTheorems, FunctionTheorems, WellFoundedInduction

-----------------------------------------------------------------------------
(* What the nodes of a plan make of a table.  A plan that keeps or drops     *)
(* each row by itself keeps of a part of a table that part of what it keeps. *)

\* A non-empty set of naturals has a least element.
LEMMA LeastNatural ==
    ASSUME NEW S \in SUBSET Nat, S # {}
    PROVE  \E x \in S : \A y \in S : x <= y
  <1> DEFINE R == OpToRel(<, Nat)
  <1>1. \A m, n \in Nat : m < n => <<m, n>> \in R
    BY Zenon DEF OpToRel
  <1>2. IsWellFoundedOn(R, Nat)
    BY NatLessThanWellFounded, Zenon
  <1> HIDE DEF R
  <1>3. PICK x \in S : \A y \in S : ~(<<y, x>> \in R)
    BY <1>2, WFMin
  <1>4. \A y \in S : ~(y < x)
    BY <1>1, <1>3
  <1> HIDE DEF R
  <1> QED
    BY <1>4

\* A set of naturals that has each natural whose predecessor it has is all of them.
LEMMA NatSetInduction ==
    ASSUME NEW N \in SUBSET Nat, 0 \in N, \A n \in N : n + 1 \in N
    PROVE  N = Nat
  <1> DEFINE T == Nat \ N
  <1> SUFFICES ASSUME T # {} PROVE FALSE
    OBVIOUS
  <1>1. PICK x \in T : \A y \in T : x <= y
    BY LeastNatural
  <1>2. x - 1 \in Nat /\ x - 1 \notin T
    BY <1>1
  <1> QED
    BY <1>1, <1>2

\* An expression of a row alone has the value that the row gives it.
ValueOf(expr, r) == Value(expr, r, {})

\* The names of the expressions are told apart.
LEMMA Names ==
    /\ One.name # <<"k">> /\ One.name # <<"v">> /\ One.name # Case.name
    /\ One.name # MaxV.name /\ One.name # IfTop.name
    /\ Case.name # <<"k">> /\ Case.name # <<"v">>
    /\ Case.name # MaxV.name /\ Case.name # IfTop.name
    /\ MaxV.name # <<"k">> /\ MaxV.name # <<"v">>
    /\ IfTop.name # <<"k">> /\ IfTop.name # <<"v">>
    /\ <<"k">> # <<"v">>
  BY DEF One, Case, MaxV, IfTop, Expr

\* The values of the expressions that a query may ask for.
LEMMA ValueByName ==
    ASSUME NEW expr, NEW r, NEW T
    PROVE  /\ expr.name = <<"k">> => Value(expr, r, T) = r.k
           /\ expr.name = <<"v">> => Value(expr, r, T) = r.v
           /\ expr.name = One.name => Value(expr, r, T) = 1
           /\ expr.name = Case.name => Value(expr, r, T) = IF r.v = 2 THEN r.v ELSE Null
  <1>1. ASSUME expr.name = <<"k">> PROVE Value(expr, r, T) = r.k
    BY <1>1, Names DEF Value
  <1>2. ASSUME expr.name = <<"v">> PROVE Value(expr, r, T) = r.v
    BY <1>2, Names DEF Value
  <1>3. ASSUME expr.name = One.name PROVE Value(expr, r, T) = 1
    BY <1>3, Names DEF Value
  <1>4. ASSUME expr.name = Case.name PROVE Value(expr, r, T) = IF r.v = 2 THEN r.v ELSE Null
    BY <1>4, Names DEF Value
  <1> QED
    BY <1>1, <1>2, <1>3, <1>4

\* An expression that looks at one row has the same value whatever else is there.
LEMMA ValueOfRow ==
    ASSUME NEW expr, OfRow(expr), NEW r, NEW T
    PROVE  Value(expr, r, T) = ValueOf(expr, r)
  BY ValueByName DEF OfRow, KeyOrValue, ValueOf

\* From position i a plan has nodes that keep or drop each row by itself, down to
\* a scan.
Chain(plan, i) ==
    /\ i \in 1..Len(plan)
    /\ plan[Len(plan)].node = "TableScan"
    /\ \A j \in i..(Len(plan) - 1) :
          \/ plan[j].node = "SubqueryAlias"
          \/ plan[j].node = "Filter" /\ OfRow(plan[j].predicate)

\* The rows that such nodes keep.
Kept(plan, i, T) ==
    {r \in T : /\ r.table = plan[Len(plan)].table
               /\ \A j \in i..(Len(plan) - 1) :
                     plan[j].node = "Filter" => ValueOf(plan[j].predicate, r) # Null}

\* One step of the recursion down a plan.
StepBelow(plan, T, below, j) ==
    CASE plan[j].node = "TableScan" -> {r \in T : r.table = plan[j].table}
      [] plan[j].node = "Filter"    ->
             {r \in below[j + 1] : Holds(plan[j].predicate, r, below[j + 1])}
      [] plan[j].node = "Limit"     -> TopRow(below[j + 1])
      [] OTHER                      -> below[j + 1]

\* RowsBelow, by its steps.
LEMMA RowsBelowUnfold ==
    ASSUME NEW plan, NEW i, NEW T
    PROVE  RowsBelow(plan, i, T)
             = (CHOOSE f : f = [j \in i..Len(plan) |-> StepBelow(plan, T, f, j)])[i]
  BY DEF RowsBelow, StepBelow

\* Kept follows the recursion.
LEMMA KeptStep ==
    ASSUME NEW plan, Len(plan) \in Nat, NEW i, Chain(plan, i), NEW T, NEW j \in i..Len(plan),
           NEW below, j # Len(plan) => below[j + 1] = Kept(plan, j + 1, T)
    PROVE  StepBelow(plan, T, below, j) = Kept(plan, j, T)
  <1> DEFINE n == Len(plan)
  <1>0. i \in 1..n /\ j \in 1..n
    BY DEF Chain
  <1>1. CASE j = n
    <2>1. plan[j].node = "TableScan"
      BY <1>1 DEF Chain
    <2>2. j..(n - 1) = {}
      BY <1>0, <1>1
    <2> QED
      BY <1>1, <2>1, <2>2 DEF StepBelow, Kept
  <1>2. CASE j # n
    <2>1. j \in i..(n - 1) /\ j..(n - 1) = {j} \cup ((j + 1)..(n - 1))
      BY <1>0, <1>2
    <2>2. below[j + 1] = Kept(plan, j + 1, T)
      BY <1>2
    <2>3. CASE plan[j].node = "SubqueryAlias"
      <3>1. StepBelow(plan, T, below, j) = Kept(plan, j + 1, T)
        BY <2>2, <2>3 DEF StepBelow
      <3>2. Kept(plan, j, T) = Kept(plan, j + 1, T)
        BY <2>1, <2>3 DEF Kept
      <3> QED
        BY <3>1, <3>2
    <2>4. CASE plan[j].node = "Filter" /\ OfRow(plan[j].predicate)
      <3>1. StepBelow(plan, T, below, j)
              = {r \in Kept(plan, j + 1, T) : Holds(plan[j].predicate, r, Kept(plan, j + 1, T))}
        BY <2>2, <2>4 DEF StepBelow
      <3>2. \A r : Holds(plan[j].predicate, r, Kept(plan, j + 1, T))
                     <=> ValueOf(plan[j].predicate, r) # Null
        BY <2>4, ValueOfRow DEF Holds
      <3>3. Kept(plan, j, T) = {r \in Kept(plan, j + 1, T) : ValueOf(plan[j].predicate, r) # Null}
        BY <2>1, <2>4 DEF Kept
      <3> QED
        BY <3>1, <3>2, <3>3
    <2> QED
      BY <2>1, <2>3, <2>4 DEF Chain
  <1> QED
    BY <1>1, <1>2

\* What a chain makes of a table is what it keeps of it.
LEMMA RowsBelowKept ==
    ASSUME NEW plan, Len(plan) \in Nat, NEW i, Chain(plan, i), NEW T
    PROVE  RowsBelow(plan, i, T) = Kept(plan, i, T)
  <1> DEFINE n == Len(plan)
             D == i..n
             f == CHOOSE f : f = [j \in D |-> StepBelow(plan, T, f, j)]
             g == [j \in D |-> Kept(plan, j, T)]
  <1>0. i \in 1..n /\ i \in D
    BY DEF Chain
  <1>1. \A j \in D : StepBelow(plan, T, g, j) = Kept(plan, j, T)
    <2> SUFFICES ASSUME NEW j \in D PROVE StepBelow(plan, T, g, j) = Kept(plan, j, T)
      OBVIOUS
    <2>1. j # n => g[j + 1] = Kept(plan, j + 1, T)
      BY <1>0
    <2> HIDE DEF g
    <2> QED
      BY <2>1, KeptStep
  <1>2. g = [j \in D |-> StepBelow(plan, T, g, j)]
    BY <1>1
  <1>3. f = [j \in D |-> StepBelow(plan, T, f, j)]
    <2> HIDE DEF g
    <2> QED
      BY <1>2
  <1>4. \A j \in D : f[j] = StepBelow(plan, T, f, j)
    <2> HIDE DEF f
    <2> QED
      BY <1>3
  <1> HIDE DEF f, g
  <1> DEFINE N == {m \in Nat : n - m \in D => f[n - m] = Kept(plan, n - m, T)}
  <1>5. 0 \in N
    <2>1. n \in D
      BY <1>0
    <2>2. f[n] = Kept(plan, n, T)
      BY <1>4, <2>1, KeptStep
    <2> QED
      BY <2>2
  <1>6. ASSUME NEW m \in N PROVE m + 1 \in N
    <2> DEFINE j == n - (m + 1)
    <2> SUFFICES ASSUME j \in D PROVE f[j] = Kept(plan, j, T)
      OBVIOUS
    <2>1. j + 1 = n - m /\ j + 1 \in D
      BY <1>0
    <2>2. f[j + 1] = Kept(plan, j + 1, T)
      BY <2>1
    <2> HIDE DEF j
    <2>3. StepBelow(plan, T, f, j) = Kept(plan, j, T)
      BY <2>2, KeptStep
    <2> QED
      BY <1>4, <2>3
  <1>7. N = Nat
    <2>1. N \in SUBSET Nat
      OBVIOUS
    <2> HIDE DEF N
    <2> QED
      BY <1>5, <1>6, <2>1, NatSetInduction
  <1>8. n - i \in N /\ n - (n - i) = i
    <2> HIDE DEF N
    <2> QED
      BY <1>0, <1>7
  <1>9. f[i] = Kept(plan, i, T)
    BY <1>0, <1>8
  <1> QED
    BY <1>9, RowsBelowUnfold DEF f

\* The walk through the filters that ends in a scan has met them all, and no
\* subquery in them.
LEMMA ReachesScanIs ==
    ASSUME NEW plan, IsPlan(plan), NEW i \in 1..Len(plan)
    PROVE  ReachesScan(plan, i)
             <=> /\ OnlyFilters(plan, i)
                 /\ \A j \in i..(Len(plan) - 1) : ~ContainsSubquery(plan[j].predicate)
  <1> DEFINE n == Len(plan)
             b == BelowFilters(plan, i)
             S == {j \in i..n : plan[j].node # "Filter"}
             s == FiltersFrom(plan, i)
  <1>1. plan \in Seq(Elems(plan)) /\ n \in Nat /\ DOMAIN plan = 1..n
    BY DEF IsPlan, IsSeq
  <1>2. n \in S
    BY <1>1 DEF IsPlan
  <1>3. PICK m \in S : \A j \in S : m <= j
    <2>1. S \in SUBSET Nat
      BY <1>1
    <2> HIDE DEF S
    <2> QED
      BY <1>2, <2>1, LeastNatural
  <1>4. /\ b \in i..n /\ plan[b].node # "Filter"
        /\ \A j \in i..(b - 1) : plan[j].node = "Filter"
    <2>1. \A j \in i..(m - 1) : plan[j].node = "Filter"
      BY <1>1, <1>3
    <2> QED
      BY <1>3, <2>1 DEF BelowFilters
  <1>5. Elems(s) = {plan[j] : j \in i..(b - 1)}
    <2> DEFINE t == SubSeq(plan, i, b - 1)
    <2> HIDE DEF b
    <2>1. /\ DOMAIN t = 1..(b - i)
          /\ \A j \in 1..(b - i) : t[j] = plan[j + i - 1]
      BY <1>1, <1>4
    <2>2. \A j \in i..(b - 1) : j - i + 1 \in DOMAIN t /\ t[j - i + 1] = plan[j]
      BY <1>1, <1>4, <2>1
    <2>3. \A j \in DOMAIN t : j + i - 1 \in i..(b - 1) /\ t[j] = plan[j + i - 1]
      BY <1>1, <1>4, <2>1
    <2> HIDE DEF t
    <2>4. \A x : x \in Elems(t) <=> x \in {plan[j] : j \in i..(b - 1)}
      BY <2>2, <2>3 DEF Elems
    <2> QED
      BY <2>4 DEF FiltersFrom, t, b
  <1>6. ReachesScan(plan, i)
          <=> /\ \A j \in i..(b - 1) : ~ContainsSubquery(plan[j].predicate)
              /\ plan[b].node = "TableScan"
    BY <1>5 DEF ReachesScan
  <1> HIDE DEF b, S, s
  <1>7. ASSUME plan[b].node = "TableScan"
        PROVE  b = n
    <2>1. b \in 1..n
      BY <1>1, <1>4
    <2>2. plan[b].node \in {"TableScan", "Join"} <=> b = n
      BY <1>1, <2>1 DEF IsPlan
    <2> QED
      BY <1>7, <2>2
  <1>8. ASSUME OnlyFilters(plan, i)
        PROVE  b = n
    <2>1. b \in i..(n - 1) => plan[b].node = "Filter"
      BY <1>8 DEF OnlyFilters
    <2>2. b \notin i..(n - 1)
      BY <1>4, <2>1
    <2>3. i \in Nat /\ n \in Nat /\ b \in i..n
      BY <1>1, <1>4
    <2> HIDE DEF n
    <2> QED
      BY <2>2, <2>3
  <1> QED
    BY <1>4, <1>6, <1>7, <1>8 DEF OnlyFilters, Leaf

\* What a plan that is let through has from there on.
LEMMA ReachesScanChain ==
    ASSUME NEW plan, IsPlan(plan), FiltersOrdinary(plan), NEW i \in 1..Len(plan),
           ReachesScan(plan, i)
    PROVE  Chain(plan, i)
  <1> DEFINE n == Len(plan)
  <1>1. n \in Nat /\ DOMAIN plan = 1..n
    BY DEF IsPlan, IsSeq
  <1>2. /\ OnlyFilters(plan, i)
        /\ \A j \in i..(n - 1) : ~ContainsSubquery(plan[j].predicate)
    BY ReachesScanIs
  <1>3. \A j \in i..(n - 1) : plan[j].node = "Filter" /\ OfRow(plan[j].predicate)
    BY <1>1, <1>2 DEF OnlyFilters, FiltersOrdinary, OfRowOrSubquery
  <1> QED
    BY <1>2, <1>3 DEF Chain, OnlyFilters, Leaf

\* A side of a join.
LEMMA SideChain ==
    ASSUME NEW join, OrdinaryJoin(join), NEW side \in {join.left, join.right}, ScanUnder(side)
    PROVE  Len(side) \in Nat /\ Chain(side, 1)
  <1>1. /\ IsPlan(side)
        /\ \A i \in 1..(Len(side) - 1) :
              \/ side[i].node = "SubqueryAlias"
              \/ side[i].node = "Filter" /\ OfRow(side[i].predicate)
    BY DEF OrdinaryJoin
  <1>2. Len(side) \in Nat /\ side # <<>> /\ side \in Seq(Elems(side))
    BY <1>1 DEF IsPlan, IsSeq
  <1>3. 1 \in 1..Len(side)
    BY <1>2
  <1> QED
    BY <1>1, <1>2, <1>3 DEF Chain, ScanUnder, Leaf

\* What a plan keeps of a part of a table.
LEMMA KeptPart ==
    ASSUME NEW plan, NEW i, NEW T, NEW U \in SUBSET T
    PROVE  Kept(plan, i, U) = {r \in Kept(plan, i, T) : r \in U}
  BY DEF Kept

-----------------------------------------------------------------------------
(* Each once *)

\* The results R, each with where it came from, are the answer A, each once.
Exact(R, A) == {x[2] : x \in R} = A /\ Cardinality(R) = Cardinality(A)

\* From each element of K a result, and the place that it comes from.
Outs(K, out)      == {out[k] : k \in K}
Placed(K, at, out) == {<<at[k], out[k]>> : k \in K}

\* It is enough that results that are equal come from one place.
LEMMA EachOnce ==
    ASSUME NEW K, IsFiniteSet(K), NEW at, NEW out,
           \A k, m \in K : out[k] = out[m] => at[k] = at[m]
    PROVE  Exact(Placed(K, at, out), Outs(K, out))
  <1> DEFINE R == Placed(K, at, out)
             A == Outs(K, out)
             f == [x \in R |-> x[2]]
             h == [k \in K |-> out[k]]
  <1>1. \A x \in R : \E k \in K : x[1] = at[k] /\ x[2] = out[k] /\ x = <<at[k], out[k]>>
    BY DEF Placed
  <1>2. \A k \in K : <<at[k], out[k]>> \in R /\ out[k] \in A /\ <<at[k], out[k]>>[2] = out[k]
    BY DEF Placed, Outs
  <1>3. \A y \in A : \E k \in K : y = out[k]
    BY DEF Outs
  <1>4. h \in Surjection(K, A)
    BY <1>2, <1>3 DEF Surjection
  <1>5. IsFiniteSet(A)
    BY <1>4, FS_Surjection
  <1> HIDE DEF R, A
  <1>6. \A x \in R : f[x] \in A
    BY <1>1, <1>2
  <1>7. \A x, y \in R : f[x] = f[y] => x = y
    BY <1>1
  <1>8. \A y \in A : \E x \in R : f[x] = y
    BY <1>2, <1>3
  <1>9. f \in Bijection(R, A)
    BY <1>6, <1>7, <1>8 DEF Bijection, Injection, Surjection, IsInjective
  <1>10. ExistsBijection(A, R)
    <2>1. ExistsBijection(R, A)
      BY <1>9 DEF ExistsBijection
    <2> QED
      BY <2>1, Fun_ExistsBijSymmetric
  <1>11. {x[2] : x \in R} = A
    BY <1>6, <1>8
  <1> QED
    BY <1>5, <1>10, <1>11, FS_Bijection DEF Exact, R, A

-----------------------------------------------------------------------------
(* The sum over a finite set *)

\* Induction on the subsets of a finite set, stated of a set of them.
LEMMA SubsetInduction ==
    ASSUME NEW U, IsFiniteSet(U), NEW Q \in SUBSET (SUBSET U), {} \in Q,
           \A S \in SUBSET U : S # {} /\ (\A x \in S : S \ {x} \in Q) => S \in Q
    PROVE  Q = SUBSET U
  <1> DEFINE N == {n \in Nat : \A S \in SUBSET U : Cardinality(S) = n => S \in Q}
  <1>1. \A S \in SUBSET U : IsFiniteSet(S) /\ Cardinality(S) \in Nat
    BY FS_Subset, FS_CardinalityType
  <1>2. 0 \in N
    <2>1. \A S \in SUBSET U : Cardinality(S) = 0 => S = {}
      BY <1>1, FS_EmptySet
    <2> QED
      BY <2>1
  <1>3. ASSUME NEW n \in N PROVE n + 1 \in N
    <2> SUFFICES ASSUME NEW S \in SUBSET U, Cardinality(S) = n + 1 PROVE S \in Q
      OBVIOUS
    <2>1. S # {}
      BY FS_EmptySet
    <2>2. ASSUME NEW x \in S PROVE S \ {x} \in Q
      <3>1. Cardinality(S \ {x}) = Cardinality(S) - 1
        BY <1>1, FS_RemoveElement
      <3>2. S \ {x} \in SUBSET U /\ Cardinality(S \ {x}) = n
        BY <3>1
      <3> QED
        BY <3>2
    <2> QED
      BY <2>1, <2>2
  <1>4. N = Nat
    <2>1. N \in SUBSET Nat
      OBVIOUS
    <2> HIDE DEF N
    <2> QED
      BY <1>2, <1>3, <2>1, NatSetInduction
  <1>5. \A S \in SUBSET U : Cardinality(S) \in N
    <2> HIDE DEF N
    <2> QED
      BY <1>1, <1>4
  <1> QED
    BY <1>5

\* The sum of f over S, as the total of an aggregate takes it.
SumOf(f, S) == MapThenSumSet(LAMBDA t : f[t], S)

\* One step of the sum.
Chosen(S) == CHOOSE x \in S : TRUE

SumStep(f, g, S) == IF S = {} THEN 0 ELSE f[Chosen(S)] + g[S \ {Chosen(S)}]

\* g sums f over every subset of U.
Sums(g, f, U) == \A S \in SUBSET U : g[S] = SumStep(f, g, S)

\* MapThenSumSet, by its steps: a function that follows them.
LEMMA SumUnfold ==
    ASSUME NEW f, NEW S
    PROVE  SumOf(f, S) = (CHOOSE g : g = [s \in SUBSET S |-> SumStep(f, g, s)])[S]
  BY DEF SumOf, MapThenSumSet, MapThenFoldSet, SumStep, Chosen

\* The recursion of the sum has a solution.
LEMMA SumDefined ==
    ASSUME NEW f, NEW U, IsFiniteSet(U)
    PROVE  \E g : g = [s \in SUBSET U |-> SumStep(f, g, s)]
  <1> DEFINE UpTo(n) == {s \in SUBSET U : Cardinality(s) <= n}
             N == {n \in Nat : \E g : g = [s \in UpTo(n) |-> SumStep(f, g, s)]}
  <1>1. \A s \in SUBSET U : IsFiniteSet(s) /\ Cardinality(s) \in Nat
    BY FS_Subset, FS_CardinalityType
  <1>2. ASSUME NEW s \in SUBSET U, s # {}
        PROVE  s \ {Chosen(s)} \in SUBSET U /\ Cardinality(s \ {Chosen(s)}) = Cardinality(s) - 1
    <2>1. Chosen(s) \in s
      BY <1>2 DEF Chosen
    <2> QED
      BY <1>1, <2>1, FS_RemoveElement
  <1>3. 0 \in N
    <2> DEFINE g == [s \in UpTo(0) |-> 0]
    <2>1. \A s \in UpTo(0) : s = {}
      BY <1>1, FS_EmptySet
    <2>2. g = [s \in UpTo(0) |-> SumStep(f, g, s)]
      BY <2>1 DEF SumStep
    <2> QED
      BY <2>2
  <1>4. ASSUME NEW n \in N
        PROVE  n + 1 \in N
    <2>1. PICK g : g = [s \in UpTo(n) |-> SumStep(f, g, s)]
      OBVIOUS
    <2> DEFINE h == [s \in UpTo(n + 1) |-> IF Cardinality(s) <= n THEN g[s] ELSE SumStep(f, g, s)]
    <2>2. ASSUME NEW s \in UpTo(n + 1)
          PROVE  h[s] = SumStep(f, h, s)
      <3>1. h[s] = SumStep(f, g, s)
        <4>1. CASE Cardinality(s) <= n
          <5>1. s \in UpTo(n)
            BY <4>1
          <5>2. g[s] = SumStep(f, g, s)
            BY <2>1, <5>1
          <5> QED
            BY <4>1, <5>2
        <4>2. CASE ~(Cardinality(s) <= n)
          BY <4>2
        <4> QED
          BY <4>1, <4>2
      <3>2. CASE s = {}
        BY <3>1, <3>2 DEF SumStep
      <3>3. CASE s # {}
        <4> DEFINE u == s \ {Chosen(s)}
        <4>1. u \in SUBSET U /\ Cardinality(u) = Cardinality(s) - 1
          BY <1>2, <3>3
        <4>2. u \in UpTo(n + 1) /\ Cardinality(u) <= n
          BY <1>1, <4>1
        <4>3. h[u] = g[u]
          BY <4>2
        <4> QED
          BY <3>1, <3>3, <4>3 DEF SumStep
      <3> QED
        BY <3>2, <3>3
    <2>3. h = [s \in UpTo(n + 1) |-> SumStep(f, h, s)]
      <3>1. \A s \in UpTo(n + 1) : h[s] = SumStep(f, h, s)
        BY <2>2
      <3>2. h = [s \in UpTo(n + 1) |-> h[s]]
        OBVIOUS
      <3> HIDE DEF h, UpTo
      <3> QED
        BY <3>1, <3>2
    <2> HIDE DEF h
    <2> QED
      BY <2>3
  <1>5. N = Nat
    <2>1. N \in SUBSET Nat
      OBVIOUS
    <2> HIDE DEF N
    <2> QED
      BY <1>3, <1>4, <2>1, NatSetInduction
  <1>6. Cardinality(U) \in N
    BY <1>1, <1>5
  <1>7. \A s \in SUBSET U : Cardinality(s) <= Cardinality(U)
    BY FS_Subset
  <1>8. UpTo(Cardinality(U)) = SUBSET U
    BY <1>7
  <1> QED
    BY <1>6, <1>8

\* Whatever sums f over the subsets of U gives its sum over each.
LEMMA SumUnique ==
    ASSUME NEW f, NEW U, IsFiniteSet(U), NEW g, Sums(g, f, U), NEW S \in SUBSET U
    PROVE  SumOf(f, S) = g[S]
  <1> DEFINE h == CHOOSE h : h = [s \in SUBSET S |-> SumStep(f, h, s)]
             Q == {s \in SUBSET S : h[s] = g[s]}
  <1>1. IsFiniteSet(S)
    BY FS_Subset
  <1>2. h = [s \in SUBSET S |-> SumStep(f, h, s)]
    BY <1>1, SumDefined
  <1>3. \A s \in SUBSET S : h[s] = SumStep(f, h, s)
    <2> HIDE DEF h
    <2> QED
      BY <1>2
  <1> HIDE DEF h
  <1>4. {} \in Q
    BY <1>3 DEF Sums, SumStep
  <1>5. ASSUME NEW s \in SUBSET S, s # {}, \A x \in s : s \ {x} \in Q
        PROVE  s \in Q
    <2>1. Chosen(s) \in s
      BY <1>5 DEF Chosen
    <2>2. h[s \ {Chosen(s)}] = g[s \ {Chosen(s)}]
      BY <1>5, <2>1
    <2>3. h[s] = g[s]
      BY <1>3, <1>5, <2>2 DEF Sums, SumStep
    <2> QED
      BY <2>3
  <1>6. Q = SUBSET S
    <2>1. Q \in SUBSET (SUBSET S)
      OBVIOUS
    <2> HIDE DEF Q
    <2> QED
      BY <1>1, <1>4, <1>5, <2>1, SubsetInduction
  <1>7. h[S] = g[S]
    BY <1>6
  <1> QED
    BY <1>7, SumUnfold DEF h

\* The sums themselves follow the steps.
LEMMA SumsExists ==
    ASSUME NEW f, NEW U, IsFiniteSet(U)
    PROVE  Sums([S \in SUBSET U |-> SumOf(f, S)], f, U)
  <1>1. PICK g : g = [s \in SUBSET U |-> SumStep(f, g, s)]
    BY SumDefined
  <1>2. Sums(g, f, U)
    BY <1>1 DEF Sums
  <1>3. \A S \in SUBSET U : SumOf(f, S) = g[S]
    BY <1>2, SumUnique
  <1> DEFINE h == [S \in SUBSET U |-> SumOf(f, S)]
  <1>4. \A S \in SUBSET U : h[S] = g[S]
    BY <1>3
  <1> HIDE DEF h
  <1>5. ASSUME NEW S \in SUBSET U PROVE h[S] = SumStep(f, h, S)
    <2>1. S \ {Chosen(S)} \in SUBSET U
      OBVIOUS
    <2> QED
      BY <1>2, <1>4, <2>1 DEF Sums, SumStep
  <1> QED
    BY <1>5 DEF Sums, h

\* The sum over a set with one element more.
LEMMA SumChosen ==
    ASSUME NEW f, NEW S, IsFiniteSet(S)
    PROVE  /\ SumOf(f, {}) = 0
           /\ S # {} => Chosen(S) \in S /\ SumOf(f, S) = f[Chosen(S)] + SumOf(f, S \ {Chosen(S)})
  <1> DEFINE g == [s \in SUBSET S |-> SumOf(f, s)]
  <1>1. \A s \in SUBSET S : g[s] = SumStep(f, g, s)
    BY SumsExists DEF Sums
  <1>2. \A s \in SUBSET S : g[s] = SumOf(f, s)
    OBVIOUS
  <1> HIDE DEF g
  <1>3. SumOf(f, {}) = 0
    BY <1>1, <1>2 DEF SumStep
  <1>4. ASSUME S # {}
        PROVE  Chosen(S) \in S /\ SumOf(f, S) = f[Chosen(S)] + SumOf(f, S \ {Chosen(S)})
    <2>1. Chosen(S) \in S
      BY <1>4 DEF Chosen
    <2>2. g[S] = f[Chosen(S)] + g[S \ {Chosen(S)}]
      BY <1>1, <1>4 DEF SumStep
    <2> QED
      BY <1>2, <2>1, <2>2
  <1> QED
    BY <1>3, <1>4

\* The sum of integers is one.
LEMMA SumInt ==
    ASSUME NEW f, NEW U, IsFiniteSet(U), \A x \in U : f[x] \in Int
    PROVE  \A S \in SUBSET U : SumOf(f, S) \in Int
  <1> DEFINE Q == {S \in SUBSET U : SumOf(f, S) \in Int}
  <1>1. \A S \in SUBSET U : IsFiniteSet(S)
    BY FS_Subset
  <1>2. {} \in Q
    <2>1. SumOf(f, {}) = 0
      BY SumChosen
    <2> QED
      BY <2>1
  <1>3. ASSUME NEW S \in SUBSET U, S # {}, \A x \in S : S \ {x} \in Q
        PROVE  S \in Q
    <2>1. Chosen(S) \in S /\ SumOf(f, S) = f[Chosen(S)] + SumOf(f, S \ {Chosen(S)})
      BY <1>1, <1>3, SumChosen
    <2>2. SumOf(f, S \ {Chosen(S)}) \in Int
      BY <1>3, <2>1
    <2> QED
      BY <2>1, <2>2
  <1>4. Q = SUBSET U
    <2>1. Q \in SUBSET (SUBSET U)
      OBVIOUS
    <2> HIDE DEF Q
    <2> QED
      BY <1>2, <1>3, <2>1, SubsetInduction
  <1> QED
    BY <1>4

\* Any element may be taken off first.
LEMMA SumRemove ==
    ASSUME NEW f, NEW U, IsFiniteSet(U), \A x \in U : f[x] \in Int
    PROVE  \A S \in SUBSET U : \A x \in S : SumOf(f, S) = f[x] + SumOf(f, S \ {x})
  <1> DEFINE Q == {S \in SUBSET U : \A x \in S : SumOf(f, S) = f[x] + SumOf(f, S \ {x})}
  <1>1. \A S \in SUBSET U : IsFiniteSet(S)
    BY FS_Subset
  <1>2. {} \in Q
    OBVIOUS
  <1>3. ASSUME NEW S \in SUBSET U, S # {}, \A x \in S : S \ {x} \in Q
        PROVE  S \in Q
    <2> DEFINE c == Chosen(S)
    <2>1. c \in S /\ SumOf(f, S) = f[c] + SumOf(f, S \ {c})
      BY <1>1, <1>3, SumChosen
    <2> HIDE DEF c
    <2> SUFFICES ASSUME NEW x \in S, x # c PROVE SumOf(f, S) = f[x] + SumOf(f, S \ {x})
      BY <2>1
    <2>2. SumOf(f, S \ {c}) = f[x] + SumOf(f, (S \ {c}) \ {x})
      BY <1>3, <2>1
    <2>3. SumOf(f, S \ {x}) = f[c] + SumOf(f, (S \ {x}) \ {c})
      BY <1>3, <2>1
    <2>4. SumOf(f, (S \ {c}) \ {x}) = SumOf(f, (S \ {x}) \ {c})
      <3>1. (S \ {c}) \ {x} = (S \ {x}) \ {c}
        OBVIOUS
      <3> QED
        BY <3>1
    <2>5. f[x] \in Int /\ f[c] \in Int /\ SumOf(f, (S \ {x}) \ {c}) \in Int
      <3>1. (S \ {x}) \ {c} \in SUBSET U
        OBVIOUS
      <3> QED
        BY <2>1, <3>1, SumInt
    <2> DEFINE rest == SumOf(f, (S \ {x}) \ {c})
    <2>6. SumOf(f, S) = f[c] + (f[x] + rest) /\ SumOf(f, S \ {x}) = f[c] + rest
      BY <2>1, <2>2, <2>3, <2>4
    <2>7. rest \in Int
      BY <2>5
    <2> HIDE DEF rest
    <2> QED
      BY <2>5, <2>6, <2>7
  <1>4. Q = SUBSET U
    <2>1. Q \in SUBSET (SUBSET U)
      OBVIOUS
    <2> HIDE DEF Q
    <2> QED
      BY <1>2, <1>3, <2>1, SubsetInduction
  <1> QED
    BY <1>4

\* What is zero of nothing, and of two sets apart the sum of both.
Additive(F, U) ==
    /\ F[{}] = 0
    /\ \A A \in SUBSET U : F[A] \in Int
    /\ \A A, B \in SUBSET U : A \cap B = {} => F[A \cup B] = F[A] + F[B]

\* A sum is additive over disjoint sets.
LEMMA SumAdditive ==
    ASSUME NEW f, NEW U, IsFiniteSet(U), \A x \in U : f[x] \in Int
    PROVE  Additive([A \in SUBSET U |-> SumOf(f, A)], U)
  <1>0. SumOf(f, {}) = 0
    BY SumChosen
  <1>1. \A S \in SUBSET U : SumOf(f, S) \in Int
    BY SumInt
  <1>2. ASSUME NEW A \in SUBSET U, NEW B \in SUBSET U, A \cap B = {}
        PROVE  SumOf(f, A \cup B) = SumOf(f, A) + SumOf(f, B)
    <2> DEFINE Q == {S \in SUBSET B : SumOf(f, A \cup S) = SumOf(f, A) + SumOf(f, S)}
    <2>1. {} \in Q
      <3>1. A \cup {} = A
        OBVIOUS
      <3> QED
        BY <1>0, <1>1, <3>1
    <2>2. ASSUME NEW S \in SUBSET B, S # {}, \A x \in S : S \ {x} \in Q
          PROVE  S \in Q
      <3>1. PICK x \in S : TRUE
        BY <2>2
      <3>2. SumOf(f, A \cup (S \ {x})) = SumOf(f, A) + SumOf(f, S \ {x})
        BY <2>2, <3>1
      <3>3. (A \cup S) \ {x} = A \cup (S \ {x})
        BY <1>2
      <3>4. SumOf(f, A \cup S) = f[x] + SumOf(f, (A \cup S) \ {x})
        <4>1. A \cup S \in SUBSET U /\ x \in A \cup S
          OBVIOUS
        <4> QED
          BY <4>1, SumRemove
      <3>5. SumOf(f, S) = f[x] + SumOf(f, S \ {x})
        <4>1. S \in SUBSET U
          OBVIOUS
        <4> QED
          BY <4>1, SumRemove
      <3>6. f[x] \in Int /\ SumOf(f, A) \in Int /\ SumOf(f, S \ {x}) \in Int
        <4>1. S \ {x} \in SUBSET U /\ x \in U
          OBVIOUS
        <4> QED
          BY <1>1, <4>1
      <3> DEFINE a == SumOf(f, A)
                 rest == SumOf(f, S \ {x})
      <3>7. SumOf(f, A \cup S) = f[x] + (a + rest) /\ SumOf(f, S) = f[x] + rest
        <4>1. SumOf(f, (A \cup S) \ {x}) = SumOf(f, A \cup (S \ {x}))
          BY <3>3
        <4> QED
          BY <3>2, <3>4, <3>5, <4>1
      <3>8. SumOf(f, A \cup S) = a + SumOf(f, S)
        <4>1. a \in Int /\ rest \in Int /\ f[x] \in Int
          BY <3>6
        <4> HIDE DEF a, rest
        <4> QED
          BY <3>7, <4>1
      <3> QED
        BY <3>8
    <2>3. Q = SUBSET B
      <3>1. Q \in SUBSET (SUBSET B) /\ IsFiniteSet(B)
        BY FS_Subset
      <3> HIDE DEF Q
      <3> QED
        BY <2>1, <2>2, <3>1, SubsetInduction
    <2> QED
      BY <2>3
  <1> DEFINE F == [A \in SUBSET U |-> SumOf(f, A)]
  <1>3. \A A \in SUBSET U : F[A] = SumOf(f, A)
    OBVIOUS
  <1>4. \A A, B \in SUBSET U : A \cup B \in SUBSET U
    OBVIOUS
  <1> HIDE DEF F
  <1>5. Additive(F, U)
    BY <1>0, <1>1, <1>2, <1>3, <1>4 DEF Additive
  <1> QED
    BY <1>5 DEF F

\* So is the number of elements.
LEMMA CardinalityAdditive ==
    ASSUME NEW U, IsFiniteSet(U)
    PROVE  Additive([A \in SUBSET U |-> Cardinality(A)], U)
  <1>1. \A A \in SUBSET U : IsFiniteSet(A) /\ Cardinality(A) \in Nat
    BY FS_Subset, FS_CardinalityType
  <1>2. ASSUME NEW A \in SUBSET U, NEW B \in SUBSET U, A \cap B = {}
        PROVE  Cardinality(A \cup B) = Cardinality(A) + Cardinality(B)
    <2>1. Cardinality(A \cup B) = Cardinality(A) + Cardinality(B) - Cardinality(A \cap B)
      BY <1>1, FS_Union
    <2> QED
      BY <1>1, <1>2, <2>1, FS_EmptySet
  <1> DEFINE F == [A \in SUBSET U |-> Cardinality(A)]
  <1>3. \A A \in SUBSET U : F[A] = Cardinality(A)
    OBVIOUS
  <1>4. \A A, B \in SUBSET U : A \cup B \in SUBSET U
    OBVIOUS
  <1> HIDE DEF F
  <1>5. Additive(F, U)
    BY <1>1, <1>2, <1>3, <1>4, FS_EmptySet DEF Additive
  <1> QED
    BY <1>5 DEF F

\* The parts that the elements of P stand for, none sharing anything with another.
Parts(N, P, U) ==
    /\ \A p \in P : N[p] \in SUBSET U
    /\ \A p, q \in P : p # q => N[p] \cap N[q] = {}

Whole(N, P) == UNION {N[p] : p \in P}

\* w measures by F the part of each.
Measures(w, P, F, N) == \A p \in P : w[p] = F[N[p]]

\* The sum over the parts is the measure of the whole.
LEMMA SumOfParts ==
    ASSUME NEW U, NEW P, IsFiniteSet(P), NEW N, Parts(N, P, U), NEW F, Additive(F, U),
           NEW w, Measures(w, P, F, N)
    PROVE  SumOf(w, P) = F[Whole(N, P)]
  <1> DEFINE Q == {S \in SUBSET P : SumOf(w, S) = F[Whole(N, S)]}
  <1>1. {} \in Q
    <2>1. Whole(N, {}) = {}
      BY DEF Whole
    <2>2. SumOf(w, {}) = 0
      BY SumChosen
    <2> QED
      BY <2>1, <2>2 DEF Additive
  <1>2. ASSUME NEW S \in SUBSET P, S # {}, \A x \in S : S \ {x} \in Q
        PROVE  S \in Q
    <2> DEFINE c == Chosen(S)
    <2>1. c \in S /\ SumOf(w, S) = w[c] + SumOf(w, S \ {c})
      BY <1>2, FS_Subset, SumChosen
    <2> HIDE DEF c
    <2>2. SumOf(w, S \ {c}) = F[Whole(N, S \ {c})]
      BY <1>2, <2>1
    <2>3. Whole(N, S) = N[c] \cup Whole(N, S \ {c})
      BY <2>1 DEF Whole
    <2>4. N[c] \in SUBSET U /\ Whole(N, S \ {c}) \in SUBSET U
      BY <2>1 DEF Parts, Whole
    <2>5. N[c] \cap Whole(N, S \ {c}) = {}
      BY <2>1 DEF Parts, Whole
    <2>6. F[Whole(N, S)] = F[N[c]] + F[Whole(N, S \ {c})]
      BY <2>3, <2>4, <2>5 DEF Additive
    <2>7. SumOf(w, S) = F[Whole(N, S)]
      BY <2>1, <2>2, <2>6 DEF Measures
    <2> QED
      BY <2>7
  <1>3. Q = SUBSET P
    <2>1. Q \in SUBSET (SUBSET P)
      OBVIOUS
    <2> HIDE DEF Q
    <2> QED
      BY <1>1, <1>2, <2>1, SubsetInduction
  <1> QED
    BY <1>3

\* The sum is that of the values alone.
LEMMA SumSame ==
    ASSUME NEW f, NEW g, NEW U, IsFiniteSet(U), \A x \in U : f[x] = g[x]
    PROVE  SumOf(f, U) = SumOf(g, U)
  <1> DEFINE Q == {S \in SUBSET U : SumOf(f, S) = SumOf(g, S)}
  <1>1. {} \in Q
    <2>1. SumOf(f, {}) = 0 /\ SumOf(g, {}) = 0
      BY SumChosen
    <2> QED
      BY <2>1
  <1>2. ASSUME NEW S \in SUBSET U, S # {}, \A x \in S : S \ {x} \in Q
        PROVE  S \in Q
    <2> DEFINE c == Chosen(S)
    <2>1. c \in S /\ SumOf(f, S) = f[c] + SumOf(f, S \ {c}) /\ SumOf(g, S) = g[c] + SumOf(g, S \ {c})
      BY <1>2, FS_Subset, SumChosen
    <2> HIDE DEF c
    <2>2. SumOf(f, S \ {c}) = SumOf(g, S \ {c}) /\ f[c] = g[c]
      BY <1>2, <2>1
    <2>3. SumOf(f, S) = SumOf(g, S)
      BY <2>1, <2>2
    <2> QED
      BY <2>3
  <1>3. Q = SUBSET U
    <2>1. Q \in SUBSET (SUBSET U)
      OBVIOUS
    <2> HIDE DEF Q
    <2> QED
      BY <1>1, <1>2, <2>1, SubsetInduction
  <1> QED
    BY <1>3

-----------------------------------------------------------------------------
(* Combining the aggregates of the parts of a group *)

\* A finite set of integers has a greatest element and a least.
LEMMA MaxOfFinite ==
    ASSUME NEW U \in SUBSET Int, IsFiniteSet(U), U # {}
    PROVE  /\ Max(U) \in U /\ \A y \in U : y <= Max(U)
           /\ Min(U) \in U /\ \A y \in U : Min(U) <= y
  <1> DEFINE Q == {S \in SUBSET U : S = {} \/ ((\E x \in S : \A y \in S : x >= y)
                                            /\ (\E x \in S : \A y \in S : x <= y))}
  <1>1. {} \in Q
    OBVIOUS
  <1>2. ASSUME NEW S \in SUBSET U, S # {}, \A x \in S : S \ {x} \in Q
        PROVE  S \in Q
    <2>1. PICK c \in S : TRUE
      BY <1>2
    <2> DEFINE R == S \ {c}
    <2>2. R = {} \/ ((\E x \in R : \A y \in R : x >= y) /\ (\E x \in R : \A y \in R : x <= y))
      BY <1>2, <2>1
    <2>3. S = R \cup {c} /\ R \subseteq Int /\ c \in Int
      BY <2>1
    <2> HIDE DEF R
    <2>4. \E x \in S : \A y \in S : x >= y
      BY <2>2, <2>3
    <2>5. \E x \in S : \A y \in S : x <= y
      BY <2>2, <2>3
    <2> QED
      BY <2>4, <2>5
  <1>3. Q = SUBSET U
    <2>1. Q \in SUBSET (SUBSET U)
      OBVIOUS
    <2> HIDE DEF Q
    <2> QED
      BY <1>1, <1>2, <2>1, SubsetInduction
  <1>4. (\E x \in U : \A y \in U : x >= y) /\ (\E x \in U : \A y \in U : x <= y)
    BY <1>3
  <1>5. Max(U) \in U /\ \A y \in U : Max(U) >= y
    BY <1>4 DEF Max
  <1>6. Min(U) \in U /\ \A y \in U : Min(U) <= y
    BY <1>4 DEF Min
  <1> QED
    BY <1>5, <1>6

\* The elements of S that have a value.
Valued(v, S) == {r \in S : v[r] # Null}

\* The elements that an aggregate counts, and what it makes of them.
LEMMA NonNullOf ==
    ASSUME NEW v, NEW S
    PROVE  NonNull([r \in S |-> v[r]]) = Valued(v, S)
  BY DEF NonNull, Valued

\* COUNT.
LEMMA CountOf ==
    ASSUME NEW v, NEW S
    PROVE  Aggregate("count", [r \in S |-> v[r]]) = Cardinality(Valued(v, S))
  BY NonNullOf DEF Aggregate

\* SUM.
LEMMA SumAggregateOf ==
    ASSUME NEW v, NEW S, IsFiniteSet(S)
    PROVE  Aggregate("sum", [r \in S |-> v[r]])
             = IF Valued(v, S) = {} THEN Null ELSE SumOf(v, Valued(v, S))
  <1> DEFINE f == [r \in S |-> v[r]]
  <1>1. NonNull(f) = Valued(v, S)
    BY NonNullOf
  <1>2. \A x \in Valued(v, S) : f[x] = v[x]
    BY DEF Valued
  <1>3. IsFiniteSet(Valued(v, S))
    BY FS_Subset DEF Valued
  <1> HIDE DEF f
  <1>4. SumOf(f, Valued(v, S)) = SumOf(v, Valued(v, S))
    BY <1>2, <1>3, SumSame
  <1>5. Aggregate("sum", f) = IF NonNull(f) = {} THEN Null ELSE SumOf(f, NonNull(f))
    BY DEF Aggregate, Total, SumOf
  <1> QED
    BY <1>1, <1>4, <1>5 DEF f

\* The highest and the lowest of the values there are.
LEMMA HighestOf ==
    ASSUME NEW v, NEW S, IsFiniteSet(S), \A r \in S : v[r] \in Int \cup {Null}
    PROVE  LET high == Aggregate("max", [r \in S |-> v[r]])
               low  == Aggregate("min", [r \in S |-> v[r]])
           IN  /\ Valued(v, S) = {} => high = Null /\ low = Null
               /\ Valued(v, S) # {} =>
                     /\ high \in Int /\ low \in Int
                     /\ \E r \in Valued(v, S) : v[r] = high
                     /\ \A r \in Valued(v, S) : v[r] <= high
                     /\ \E r \in Valued(v, S) : v[r] = low
                     /\ \A r \in Valued(v, S) : low <= v[r]
  <1> DEFINE f == [r \in S |-> v[r]]
             W == Valued(v, S)
             X == {v[r] : r \in W}
  <1>1. Aggregate("max", f) = Highest(f) /\ Aggregate("min", f) = Lowest(f)
    BY DEF Aggregate
  <1>2. NonNull(f) = W
    BY NonNullOf
  <1>3. {f[t] : t \in W} = X
    BY DEF Valued
  <1> HIDE DEF f
  <1>4. /\ Highest(f) = IF W = {} THEN Null ELSE Max(X)
        /\ Lowest(f) = IF W = {} THEN Null ELSE Min(X)
    BY <1>2, <1>3 DEF Highest, Lowest
  <1>5. ASSUME W # {}
        PROVE  X \in SUBSET Int /\ X # {} /\ IsFiniteSet(X)
    <2>1. X \in SUBSET Int /\ X # {}
      BY <1>5 DEF Valued
    <2>2. IsFiniteSet(W)
      BY FS_Subset DEF Valued
    <2> DEFINE g == [r \in W |-> v[r]]
    <2>3. g \in Surjection(W, X)
      BY DEF Surjection
    <2>4. IsFiniteSet(X)
      BY <2>2, <2>3, FS_Surjection
    <2> QED
      BY <2>1, <2>4
  <1>6. ASSUME W # {}
        PROVE  /\ Max(X) \in X /\ \A y \in X : y <= Max(X)
               /\ Min(X) \in X /\ \A y \in X : Min(X) <= y
               /\ Max(X) \in Int /\ Min(X) \in Int
    <2> HIDE DEF X
    <2> QED
      BY <1>5, <1>6, MaxOfFinite
  <1>7. \A r \in W : v[r] \in X
    OBVIOUS
  <1>8. \A x \in X : \E r \in W : v[r] = x
    OBVIOUS
  <1>9. CASE W = {}
    BY <1>1, <1>4, <1>9 DEF f
  <1>10. CASE W # {}
    <2> DEFINE high == Max(X)
               low == Min(X)
    <2>1. Highest(f) = high /\ Lowest(f) = low
      BY <1>4, <1>10
    <2>2. /\ high \in Int /\ low \in Int
          /\ \E r \in W : v[r] = high
          /\ \A r \in W : v[r] <= high
          /\ \E r \in W : v[r] = low
          /\ \A r \in W : low <= v[r]
      <3> HIDE DEF X, W
      <3> QED
        BY <1>6, <1>7, <1>8, <1>10
    <2> HIDE DEF high, low, X
    <2> QED
      BY <1>1, <1>10, <2>1, <2>2 DEF f
  <1> QED
    BY <1>9, <1>10

\* The parts of a group are the sets H[p], for the partial results p in P.
LEMMA ValuedParts ==
    ASSUME NEW G, NEW P, NEW H, Parts(H, P, G), Whole(H, P) = G, NEW v
    PROVE  LET N == [p \in P |-> Valued(v, H[p])]
           IN  Parts(N, P, Valued(v, G)) /\ Whole(N, P) = Valued(v, G)
  <1> DEFINE N == [p \in P |-> Valued(v, H[p])]
  <1>1. \A p \in P : N[p] = Valued(v, H[p])
    OBVIOUS
  <1> HIDE DEF N
  <1>2. Parts(N, P, Valued(v, G))
    BY <1>1 DEF Parts, Valued
  <1>3. Whole(N, P) = Valued(v, G)
    BY <1>1 DEF Whole, Valued
  <1> QED
    BY <1>2, <1>3 DEF N

\* w gives to each part its aggregate.
PartAggregates(w, func, v, H, P) ==
    \A p \in P : w[p] = Aggregate(func, [r \in H[p] |-> v[r]])

\* Counts of the parts add up to the count of the group.
LEMMA CombineCounts ==
    ASSUME NEW G, IsFiniteSet(G), NEW P, IsFiniteSet(P), P # {},
           NEW H, Parts(H, P, G), Whole(H, P) = G, NEW v,
           NEW w, PartAggregates(w, "count", v, H, P)
    PROVE  Aggregate("sum", [p \in P |-> w[p]]) = Aggregate("count", [r \in G |-> v[r]])
  <1> DEFINE N == [p \in P |-> Valued(v, H[p])]
             U == Valued(v, G)
             F == [A \in SUBSET U |-> Cardinality(A)]
  <1>1. IsFiniteSet(U)
    BY FS_Subset DEF Valued
  <1>2. Parts(N, P, U) /\ Whole(N, P) = U
    BY ValuedParts
  <1>3. Additive(F, U)
    BY <1>1, CardinalityAdditive
  <1>4. \A p \in P : w[p] = F[N[p]] /\ w[p] \in Int
    <2>1. \A p \in P : N[p] \in SUBSET U /\ w[p] = Cardinality(N[p])
      BY <1>2, CountOf DEF Parts, PartAggregates
    <2>2. \A p \in P : Cardinality(N[p]) \in Nat
      BY <1>1, <2>1, FS_Subset, FS_CardinalityType
    <2> QED
      BY <2>1, <2>2
  <1>5. Valued(w, P) = P
    BY <1>4, NullAssumption DEF Valued
  <1>6. SumOf(w, P) = F[U]
    <2> HIDE DEF N, F, U
    <2>1. Measures(w, P, F, N)
      BY <1>4 DEF Measures
    <2> QED
      BY <1>2, <1>3, <2>1, SumOfParts
  <1>7. Aggregate("sum", [p \in P |-> w[p]]) = SumOf(w, P)
    BY <1>5, SumAggregateOf
  <1>8. F[U] = Cardinality(U)
    OBVIOUS
  <1> HIDE DEF F, U, N
  <1> QED
    BY <1>6, <1>7, <1>8, CountOf DEF U

\* Sums of the parts add up to the sum of the group, parts without a value left
\* out.
LEMMA CombineSums ==
    ASSUME NEW G, IsFiniteSet(G), NEW P, IsFiniteSet(P),
           NEW H, Parts(H, P, G), Whole(H, P) = G, NEW v, \A r \in G : v[r] \in Int \cup {Null},
           NEW w, PartAggregates(w, "sum", v, H, P)
    PROVE  Aggregate("sum", [p \in P |-> w[p]]) = Aggregate("sum", [r \in G |-> v[r]])
  <1> DEFINE N == [p \in P |-> Valued(v, H[p])]
             U == Valued(v, G)
             Q == {p \in P : N[p] # {}}
             F == [A \in SUBSET U |-> SumOf(v, A)]
  <1>1. IsFiniteSet(U) /\ \A x \in U : v[x] \in Int
    BY FS_Subset DEF Valued
  <1>2. Parts(N, P, U) /\ Whole(N, P) = U
    BY ValuedParts
  <1>3. Additive(F, U)
    BY <1>1, SumAdditive
  <1>4. \A p \in P : N[p] \in SUBSET U /\ w[p] = IF N[p] = {} THEN Null ELSE SumOf(v, N[p])
    <2>1. \A p \in P : IsFiniteSet(H[p])
      BY FS_Subset DEF Parts
    <2> QED
      BY <1>2, <2>1, SumAggregateOf DEF Parts, PartAggregates
  <1>5. \A A \in SUBSET U : F[A] = SumOf(v, A) /\ F[A] \in Int
    BY <1>1, SumInt
  <1> HIDE DEF N, U, F
  <1>7. \A p \in Q : w[p] = F[N[p]] /\ w[p] \in Int
    BY <1>4, <1>5
  <1>8. Valued(w, P) = Q
    BY <1>4, <1>7, NullAssumption DEF Valued
  <1>9. Q = {} <=> U = {}
    BY <1>2 DEF Whole
  <1>10. Parts(N, Q, U) /\ Whole(N, Q) = U
    BY <1>2 DEF Parts, Whole
  <1>11. IsFiniteSet(Q)
    BY FS_Subset
  <1>12. SumOf(w, Q) = F[U]
    <2>1. Measures(w, Q, F, N)
      BY <1>7 DEF Measures
    <2> HIDE DEF Q
    <2> QED
      BY <1>3, <1>10, <1>11, <2>1, SumOfParts
  <1> HIDE DEF Q
  <1>13. Aggregate("sum", [p \in P |-> w[p]]) = IF Q = {} THEN Null ELSE SumOf(w, Q)
    <2>1. Aggregate("sum", [p \in P |-> w[p]])
            = IF Valued(w, P) = {} THEN Null ELSE SumOf(w, Valued(w, P))
      BY SumAggregateOf
    <2> QED
      BY <1>8, <2>1
  <1>14. F[U] = SumOf(v, U)
    BY <1>5
  <1> QED
    BY <1>9, <1>12, <1>13, <1>14, SumAggregateOf DEF U

\* The highest of the highest is the highest, and the lowest of the lowest.
LEMMA CombineHighest ==
    ASSUME NEW G, IsFiniteSet(G), NEW P, IsFiniteSet(P),
           NEW H, Parts(H, P, G), Whole(H, P) = G, NEW v, \A r \in G : v[r] \in Int \cup {Null},
           NEW func \in {"max", "min"},
           NEW w, PartAggregates(w, func, v, H, P)
    PROVE  Aggregate(func, [p \in P |-> w[p]]) = Aggregate(func, [r \in G |-> v[r]])
  <1> DEFINE all == Aggregate(func, [r \in G |-> v[r]])
             both == Aggregate(func, [p \in P |-> w[p]])
             Far(x, y) == IF func = "max" THEN x <= y ELSE y <= x
  <1>1. ASSUME NEW S \in SUBSET G
        PROVE  LET x == Aggregate(func, [r \in S |-> v[r]])
               IN  /\ Valued(v, S) = {} => x = Null
                   /\ Valued(v, S) # {} =>
                         /\ x \in Int
                         /\ \E r \in Valued(v, S) : v[r] = x
                         /\ \A r \in Valued(v, S) : Far(v[r], x)
    <2>1. IsFiniteSet(S) /\ \A r \in S : v[r] \in Int \cup {Null}
      BY FS_Subset
    <2>2. CASE func = "max"
      BY <2>1, <2>2, HighestOf
    <2>3. CASE func = "min"
      BY <2>1, <2>3, HighestOf
    <2> QED
      BY <2>2, <2>3
  <1>2. ASSUME NEW p \in P
        PROVE  /\ Valued(v, H[p]) = {} => w[p] = Null
               /\ Valued(v, H[p]) # {} =>
                     /\ w[p] \in Int
                     /\ \E r \in Valued(v, H[p]) : v[r] = w[p]
                     /\ \A r \in Valued(v, H[p]) : Far(v[r], w[p])
    <2>1. H[p] \in SUBSET G /\ w[p] = Aggregate(func, [r \in H[p] |-> v[r]])
      BY DEF Parts, PartAggregates
    <2> QED
      BY <1>1, <2>1
  <1>3. \A p \in P : w[p] \in Int \cup {Null}
    BY <1>2
  <1>4. /\ Valued(w, P) = {} => both = Null
        /\ Valued(w, P) # {} =>
              /\ both \in Int
              /\ \E p \in Valued(w, P) : w[p] = both
              /\ \A p \in Valued(w, P) : Far(w[p], both)
    <2>1. CASE func = "max"
      BY <1>3, <2>1, HighestOf
    <2>2. CASE func = "min"
      BY <1>3, <2>2, HighestOf
    <2> QED
      BY <2>1, <2>2
  <1>5. /\ Valued(v, G) = {} => all = Null
        /\ Valued(v, G) # {} =>
              /\ all \in Int
              /\ \E r \in Valued(v, G) : v[r] = all
              /\ \A r \in Valued(v, G) : Far(v[r], all)
    BY <1>1
  <1>6. \A p \in P : p \in Valued(w, P) <=> Valued(v, H[p]) # {}
    BY <1>2, NullAssumption DEF Valued
  <1>7. \A r \in Valued(v, G) : \E p \in P : r \in Valued(v, H[p])
    BY DEF Whole, Valued
  <1>8. \A p \in P : Valued(v, H[p]) \subseteq Valued(v, G)
    BY DEF Parts, Valued
  <1>9. both = all
    <2> HIDE DEF all, both
    <2>1. CASE Valued(v, G) = {}
      <3>1. Valued(w, P) = {}
        BY <1>6, <1>8, <2>1 DEF Valued
      <3> QED
        BY <1>4, <1>5, <2>1, <3>1
    <2>2. CASE Valued(v, G) # {}
      <3>1. PICK r \in Valued(v, G) : v[r] = all
        BY <1>5, <2>2
      <3>2. PICK p \in P : r \in Valued(v, H[p])
        BY <1>7, <3>1
      <3>3. p \in Valued(w, P) /\ w[p] \in Int /\ Far(all, w[p])
        BY <1>2, <1>6, <3>1, <3>2
      <3>4. both \in Int /\ Far(w[p], both)
        BY <1>4, <3>3
      <3>5. PICK q \in Valued(w, P) : w[q] = both
        BY <1>4, <3>3
      <3>6. q \in P /\ Valued(v, H[q]) # {}
        BY <1>6, <3>5 DEF Valued
      <3>7. PICK t \in Valued(v, H[q]) : v[t] = w[q]
        BY <1>2, <3>6
      <3>8. Far(both, all)
        BY <1>5, <1>8, <2>2, <3>5, <3>6, <3>7
      <3>9. all \in Int
        BY <1>5, <2>2
      <3> QED
        BY <3>3, <3>4, <3>8, <3>9
    <2> QED
      BY <2>1, <2>2
  <1> QED
    BY <1>9

\* What _COMBINE makes of the aggregates of the parts is the aggregate of the
\* group.
THEOREM CombineRight ==
    ASSUME NEW G, IsFiniteSet(G), NEW P, IsFiniteSet(P), P # {},
           NEW H, Parts(H, P, G), Whole(H, P) = G, NEW v,
           NEW func \in DOMAIN Combine,
           func # "count" => \A r \in G : v[r] \in Int \cup {Null},
           NEW w, PartAggregates(w, func, v, H, P)
    PROVE  Aggregate(Combine[func], [p \in P |-> w[p]]) = Aggregate(func, [r \in G |-> v[r]])
  <1>1. /\ func \in {"sum", "count", "min", "max"}
        /\ Combine[func] = IF func = "count" THEN "sum" ELSE func
    BY DEF Combine
  <1>2. CASE func = "count"
    <2>1. PartAggregates(w, "count", v, H, P)
      BY <1>2
    <2>2. Aggregate("sum", [p \in P |-> w[p]]) = Aggregate("count", [r \in G |-> v[r]])
      BY <2>1, CombineCounts
    <2> QED
      BY <1>1, <1>2, <2>2
  <1>3. CASE func = "sum"
    <2>1. PartAggregates(w, "sum", v, H, P)
      BY <1>3
    <2>2. Aggregate("sum", [p \in P |-> w[p]]) = Aggregate("sum", [r \in G |-> v[r]])
      BY <1>3, <2>1, CombineSums
    <2> QED
      BY <1>1, <1>3, <2>2
  <1>4. CASE func \in {"max", "min"}
    <2>1. Aggregate(func, [p \in P |-> w[p]]) = Aggregate(func, [r \in G |-> v[r]])
      BY <1>4, CombineHighest
    <2> QED
      BY <1>1, <1>4, <2>1
  <1> QED
    BY <1>1, <1>2, <1>3, <1>4

-----------------------------------------------------------------------------
(* A query that needs no exchange *)

\* The fields of the stages that the compiler emits.
LEMMA StageSql ==
    ASSUME NEW id, NEW inputs, NEW exchange, NEW keys, NEW sql
    PROVE  /\ StageOf(id, inputs, exchange, keys, sql).keys = keys
           /\ StageOf(id, inputs, exchange, keys, sql).sql = sql
  BY DEF StageOf

\* What a passthrough shows of a row.
Shown(plan, r) ==
    [of |-> r.id, out |-> [i \in DOMAIN plan[1].items |->
        <<ResultName(plan[1].items[i]), ValueOf(plan[1].items[i].expr, r)>>]]

\* The same, as SQL says it: the expressions are of a row of the table T.
ShownIn(plan, T, r) ==
    [of |-> r.id, out |-> [i \in DOMAIN plan[1].items |->
        <<ResultName(plan[1].items[i]), Value(plan[1].items[i].expr, r, T)>>]]

\* What SQL shows of the rows that are kept.
LEMMA PassthroughAnswerIs ==
    ASSUME NEW plan, Len(plan) \in Nat, Chain(plan, 2),
           \A item \in Elems(plan[1].items) : OfRow(item.expr), NEW T
    PROVE  PassthroughAnswer(plan, T) = {Shown(plan, r) : r \in Kept(plan, 2, T)}
  <1> DEFINE K == RowsBelow(plan, 2, T)
             items == plan[1].items
  <1>1. K = Kept(plan, 2, T)
    BY RowsBelowKept
  <1>2. PassthroughAnswer(plan, T) = {ShownIn(plan, T, r) : r \in K}
    BY DEF PassthroughAnswer, ShownIn
  <1> HIDE DEF K
  <1>3. \A i \in DOMAIN items : \A r : Value(items[i].expr, r, T) = ValueOf(items[i].expr, r)
    <2>1. \A i \in DOMAIN items : OfRow(items[i].expr)
      BY DEF Elems
    <2> QED
      BY <2>1, ValueOfRow
  <1>4. \A r : ShownIn(plan, T, r) = Shown(plan, r)
    BY <1>3 DEF Shown, ShownIn
  <1>5. PassthroughAnswer(plan, T) = {Shown(plan, r) : r \in K}
    BY <1>2, <1>4
  <1> QED
    BY <1>1, <1>5

\* A plan has a node below its projection.
LEMMA SecondNode ==
    ASSUME NEW plan, IsPlan(plan), plan[1].node = "Projection"
    PROVE  /\ Len(plan) \in Nat /\ DOMAIN plan = 1..Len(plan) /\ 2 \in 1..Len(plan)
           /\ \A i \in 1..Len(plan) : plan[i].node \in {"TableScan", "Join"} <=> i = Len(plan)
  <1>1. plan \in Seq(Elems(plan)) /\ plan # <<>>
    BY DEF IsPlan, IsSeq
  <1>2. Len(plan) \in Nat /\ DOMAIN plan = 1..Len(plan) /\ Len(plan) # 0
    BY <1>1
  <1>3. \A i \in 1..Len(plan) : plan[i].node \in {"TableScan", "Join"} <=> i = Len(plan)
    BY <1>2 DEF IsPlan
  <1>4. 1 # Len(plan)
    <2>1. 1 \in 1..Len(plan)
      BY <1>2
    <2>2. plan[1].node \notin {"TableScan", "Join"}
      OBVIOUS
    <2> QED
      BY <1>3, <2>1, <2>2
  <1>5. 2 \in 1..Len(plan)
    BY <1>2, <1>4
  <1> QED
    BY <1>2, <1>3, <1>5

PartOf(T, p) == {r \in T : r.partition = p}

\* A passthrough, run partition by partition, gives the answer.
LEMMA PassthroughRight ==
    ASSUME NEW q, Compiles(q), Ordinary(q),
           q.plan[2].node # "Aggregate", q.plan[2].node # "Join",
           NEW T, OrdinaryTable(T)
    PROVE  Exact(Results(EmitPassthrough(q), T), Answer(q.plan, T))
  <1> DEFINE plan == q.plan
             g == EmitPassthrough(q)
             K == Kept(plan, 2, T)
             R == Results(g, T)
             at == [r \in K |-> r.partition]
             out == [r \in K |-> Shown(plan, r)]
  <1>1. /\ plan[1].node = "Projection" /\ ProjectionSafe(plan)
        /\ plan[2].node \in {"Filter", "TableScan"} /\ ReachesScan(plan, 2)
    BY DEF Compiles
  <1>2. /\ IsPlan(plan) /\ FiltersOrdinary(plan)
        /\ \A item \in Elems(plan[1].items) : OfRowOrSubquery(item.expr)
    BY DEF Ordinary
  <1>3. Len(plan) \in Nat /\ 2 \in 1..Len(plan)
    BY <1>1, <1>2, SecondNode
  <1>4. Chain(plan, 2)
    BY <1>1, <1>2, <1>3, ReachesScanChain
  <1>5. \A item \in Elems(plan[1].items) : OfRow(item.expr)
    BY <1>1, <1>2 DEF ProjectionSafe, OfRowOrSubquery
  <1>6. \A U : Answer(plan, U) = {Shown(plan, r) : r \in Kept(plan, 2, U)}
    <2>1. \A U : Answer(plan, U) = PassthroughAnswer(plan, U)
      BY DEF Answer
    <2> QED
      BY <1>3, <1>4, <1>5, <2>1, PassthroughAnswerIs
  <1>7. R = {<<r.partition, Shown(plan, r)>> : r \in K}
    <2>1. Len(g.stages) = 1 /\ g.stages[1].sql.plan = plan
      <3>1. g.stages = <<StageOf(<<"main">>, <<FromSource(SourceId(1))>>, Pipeline, <<>>, UserSql(plan))>>
        BY GraphFields DEF EmitPassthrough
      <3>2. g.stages[1].sql = UserSql(plan)
        BY <3>1, StageSql
      <3> QED
        BY <3>1, <3>2 DEF UserSql
    <2>2. R = UNION {{<<p, t>> : t \in Answer(plan, PartOf(T, p))} : p \in Partitions(T)}
      BY <2>1 DEF Results, RunPassthrough, PartOf
    <2>3. \A p : \A t : t \in Answer(plan, PartOf(T, p))
                         <=> \E r \in K : r.partition = p /\ t = Shown(plan, r)
      <3>1. \A p : Kept(plan, 2, PartOf(T, p)) = {r \in K : r.partition = p}
        BY DEF Kept, PartOf
      <3> HIDE DEF K
      <3> QED
        BY <1>6, <3>1
    <2>4. \A r \in K : r.partition \in Partitions(T)
      BY DEF Kept, Partitions
    <2> HIDE DEF K, R
    <2> QED
      BY <2>2, <2>3, <2>4
  <1>8. \A r, s \in K : out[r] = out[s] => at[r] = at[s]
    BY DEF OrdinaryTable, Kept, Shown
  <1>9. IsFiniteSet(K)
    BY FS_Subset DEF OrdinaryTable, Kept
  <1>10. R = Placed(K, at, out) /\ Answer(plan, T) = Outs(K, out)
    <2>1. \A r \in K : at[r] = r.partition /\ out[r] = Shown(plan, r)
      OBVIOUS
    <2>2. Answer(plan, T) = {Shown(plan, r) : r \in K}
      BY <1>6
    <2> HIDE DEF K, R, at, out
    <2> QED
      BY <1>7, <2>1, <2>2 DEF Placed, Outs
  <1> HIDE DEF K, R, at, out
  <1>11. Exact(R, Answer(plan, T))
    BY <1>8, <1>9, <1>10, EachOnce
  <1> QED
    BY <1>11 DEF R

-----------------------------------------------------------------------------
(* A join *)

\* Two rows that an inner join by the key columns matches.
Matched(join, l, r) ==
    /\ l.k # Null /\ l.k = r.k
    /\ join.residual => l.v # Null /\ r.v # Null /\ l.v < r.v

MatchedPairs(join, T) ==
    {p \in Kept(join.left, 1, T) \X Kept(join.right, 1, T) : Matched(join, p[1], p[2])}

PairOf(p) == [of |-> <<p[1].id, p[2].id>>, out |-> <<>>]

\* What of a join's refusals the proof needs.
InnerJoin(join) ==
    /\ join.type = "Inner"
    /\ DOMAIN join.on = {1}
    /\ join.on[1][1].name = <<"k">> /\ join.on[1][2].name = <<"k">>
    /\ Len(join.left) \in Nat /\ Chain(join.left, 1)
    /\ Len(join.right) \in Nat /\ Chain(join.right, 1)

\* The pairs that SQL matches.
LEMMA JoinAnswerIs ==
    ASSUME NEW plan, InnerJoin(plan[2]), NEW T
    PROVE  \A x : x \in JoinAnswer(plan, T) <=> \E p \in MatchedPairs(plan[2], T) : x = PairOf(p)
  <1> DEFINE join == plan[2]
             L == RowsBelow(join.left, 1, T)
             R == RowsBelow(join.right, 1, T)
             equal(x, y) == x # Null /\ x = y
             match(l, r) ==
                /\ \A pair \in {join.on[i] : i \in DOMAIN join.on} :
                       equal(Value(pair[1], l, L), Value(pair[2], r, R))
                /\ join.residual => l.v # Null /\ r.v # Null /\ l.v < r.v
  <1>1. L = Kept(join.left, 1, T) /\ R = Kept(join.right, 1, T)
    BY RowsBelowKept DEF InnerJoin
  <1>2. JoinAnswer(plan, T)
          = {[of |-> <<p[1].id, p[2].id>>, out |-> <<>>] : p \in {q \in L \X R : match(q[1], q[2])}}
    BY DEF JoinAnswer, InnerJoin
  <1>3. ASSUME NEW l, NEW r
        PROVE  match(l, r) <=> Matched(join, l, r)
    <2>1. {join.on[i] : i \in DOMAIN join.on} = {join.on[1]}
      BY DEF InnerJoin
    <2>2. Value(join.on[1][1], l, L) = l.k /\ Value(join.on[1][2], r, R) = r.k
      <3> HIDE DEF L, R
      <3> QED
        BY ValueByName DEF InnerJoin
    <2> HIDE DEF L, R
    <2> QED
      BY <2>1, <2>2 DEF Matched
  <1> HIDE DEF L, R, match
  <1>4. {q \in L \X R : match(q[1], q[2])} = MatchedPairs(join, T)
    BY <1>1, <1>3 DEF MatchedPairs
  <1> QED
    BY <1>2, <1>4 DEF PairOf

\* The rows of a table that go to bucket b.
Hashed(T, table, b) == {r \in T : r.table = table /\ BucketOf["own"][<<r.k>>] = b}

HashedOf(join, T, b) ==
    Hashed(T, Leaf(join.left).table, b) \cup Hashed(T, Leaf(join.right).table, b)

MeetIn(join, T, b) ==
    \A p : p \in MatchedPairs(join, HashedOf(join, T, b))
              <=> p \in MatchedPairs(join, T) /\ BucketOf["own"][<<p[1].k>>] = b

\* Two rows that match are both in the rows of one bucket, and of no other.
LEMMA MatchedMeet ==
    ASSUME NEW join, Leaf(join.left).table # Leaf(join.right).table, NEW T, NEW b
    PROVE  MeetIn(join, T, b)
  <1> DEFINE U == HashedOf(join, T, b)
             KL == Kept(join.left, 1, T)
             KR == Kept(join.right, 1, T)
  <1>1. U \subseteq T
    BY DEF Hashed, HashedOf
  <1>2. /\ Kept(join.left, 1, U) = {r \in KL : r \in U}
        /\ Kept(join.right, 1, U) = {r \in KR : r \in U}
    BY <1>1, KeptPart
  <1>3. /\ \A r \in KL : r \in U <=> BucketOf["own"][<<r.k>>] = b
        /\ \A r \in KR : r \in U <=> BucketOf["own"][<<r.k>>] = b
    BY DEF Kept, Hashed, HashedOf, Leaf
  <1> HIDE DEF KL, KR, U
  <1>4. \A p : p \in MatchedPairs(join, T)
                 <=> p \in KL \X KR /\ Matched(join, p[1], p[2])
    BY DEF MatchedPairs, KL, KR
  <1>5. \A p : p \in MatchedPairs(join, U)
                 <=> p \in KL \X KR /\ p[1] \in U /\ p[2] \in U /\ Matched(join, p[1], p[2])
    BY <1>2 DEF MatchedPairs
  <1>6. \A p \in KL \X KR : Matched(join, p[1], p[2]) =>
            p[1] \in KL /\ p[2] \in KR /\ <<p[1].k>> = <<p[2].k>>
    BY DEF Matched
  <1> QED
    BY <1>3, <1>4, <1>5, <1>6 DEF U, MeetIn

\* _find_join finds the join below the projection.
LEMMA JoinFound ==
    ASSUME NEW plan, IsPlan(plan), plan[1].node = "Projection", plan[2].node = "Join"
    PROVE  FindJoin(plan) = plan[2]
  <1> DEFINE First(i) == plan[i].node = "Join" /\ \A j \in 1..(i - 1) : plan[j].node # "Join"
  <1>1. DOMAIN plan = 1..Len(plan) /\ 2 \in 1..Len(plan) /\ Len(plan) \in Nat
    BY SecondNode
  <1>2. 2 \in DOMAIN plan /\ First(2)
    BY <1>1
  <1>3. \A i \in DOMAIN plan : First(i) => i = 2
    <2> SUFFICES ASSUME NEW i \in DOMAIN plan, First(i), i # 2 PROVE FALSE
      OBVIOUS
    <2>1. i \in Nat /\ i # 1 /\ i # 0
      BY <1>1
    <2>2. 2 \in 1..(i - 1)
      BY <2>1
    <2> QED
      BY <2>2
  <1>4. (CHOOSE i \in DOMAIN plan : First(i)) = 2
    <2> HIDE DEF First
    <2> QED
      BY <1>2, <1>3
  <1> QED
    BY <1>4 DEF FindJoin

\* An ordinary join that compiles is the one node below the projection.
LEMMA JoinFacts ==
    ASSUME NEW q, Compiles(q), Ordinary(q), q.plan[2].node = "Join"
    PROVE  LET join == q.plan[2]
           IN  /\ FindJoin(q.plan) = join
               /\ InnerJoin(join)
               /\ Leaf(join.left).table # Leaf(join.right).table
               /\ join.on[1][1].variant = "Column" /\ join.on[1][2].variant = "Column"
  <1> DEFINE plan == q.plan
             join == plan[2]
  <1>1. plan[1].node = "Projection" /\ JoinCompiles(q)
    BY DEF Compiles
  <1>2. IsPlan(plan) /\ OrdinaryJoin(join)
    BY DEF Ordinary
  <1>3. Len(plan) \in Nat /\ DOMAIN plan = 1..Len(plan) /\ 2 \in 1..Len(plan)
    BY <1>1, <1>2, SecondNode
  <1>4. FindJoin(plan) = join
    BY <1>1, <1>2, JoinFound
  <1>5. /\ join.type = "Inner" /\ Len(join.on) = 1
        /\ KeyNamed(join.on[1][1]) /\ KeyNamed(join.on[1][2])
        /\ ScanUnder(join.left) /\ ScanUnder(join.right)
        /\ Leaf(join.left).table # Leaf(join.right).table
    BY <1>1, <1>4 DEF JoinCompiles
  <1>6. DOMAIN join.on = {1}
    <2>1. join.on \in Seq(Elems(join.on))
      BY <1>2 DEF OrdinaryJoin, IsSeq
    <2>2. DOMAIN join.on = 1..Len(join.on)
      BY <2>1
    <2> QED
      BY <1>5, <2>2
  <1>7. join.on[1][1].name = <<"k">> /\ join.on[1][2].name = <<"k">>
    BY <1>2, <1>6 DEF OrdinaryJoin, Elems
  <1>8. /\ Len(join.left) \in Nat /\ Chain(join.left, 1)
        /\ Len(join.right) \in Nat /\ Chain(join.right, 1)
    <2> HIDE DEF join
    <2> QED
      BY <1>2, <1>5, SideChain
  <1> QED
    BY <1>4, <1>5, <1>6, <1>7, <1>8 DEF InnerJoin, KeyNamed

\* What a join reads of a scan, in each bucket.
ScanRows(scan, T) == {r \in T : r.table = scan.sql.table}

ScanBucket(scan, b, T) ==
    {r \in ScanRows(scan, T) :
        BucketOfTuple(scan.keys, <<Value(scan.keys[1], r, ScanRows(scan, T))>>) = b}

\* The rows that a scan sends to a bucket are those whose key is hashed to it.
LEMMA ScanBucketIs ==
    ASSUME NEW q, NEW table, NEW key, key.variant = "Column", key.name = <<"k">>, NEW T, NEW b
    PROVE  ScanBucket(EmitScan(q, table, key), b, T) = Hashed(T, table, b)
  <1> DEFINE scan == EmitScan(q, table, key)
  <1>1. scan.keys = <<key>> /\ scan.sql = [op |-> "scan", table |-> table]
    BY StageSql DEF EmitScan
  <1>2. scan.keys[1] = key /\ scan.sql.table = table
    BY <1>1
  <1> HIDE DEF scan
  <1>3. \A r, side : BucketOfTuple(scan.keys, <<Value(scan.keys[1], r, side)>>) = BucketOf["own"][<<r.k>>]
    <2>1. \A r, side : Value(key, r, side) = r.k
      BY ValueByName
    <2>2. StoredType(key) = "own"
      BY DEF StoredType
    <2> QED
      BY <1>2, <2>1, <2>2 DEF BucketOfTuple
  <1>4. ScanBucket(scan, b, T) = Hashed(T, table, b)
    BY <1>2, <1>3 DEF ScanBucket, ScanRows, Hashed
  <1> QED
    BY <1>4 DEF scan

\* A join, run bucket by bucket, gives the answer.
LEMMA JoinRight ==
    ASSUME NEW q, Compiles(q), Ordinary(q), q.plan[2].node = "Join", NEW T, OrdinaryTable(T)
    PROVE  Exact(Results(EmitJoin(q), T), Answer(q.plan, T))
  <1> DEFINE plan == q.plan
             join == plan[2]
             tl == Leaf(join.left).table
             tr == Leaf(join.right).table
             l == EmitScan(q, tl, join.on[1][1])
             r == EmitScan(q, tr, join.on[1][2])
             g == EmitJoin(q)
             B == 0..(NumBuckets - 1)
             M == MatchedPairs(join, T)
             R == Results(g, T)
             at == [p \in M |-> BucketOf["own"][<<p[1].k>>]]
             out == [p \in M |-> PairOf(p)]
  <1>1. /\ FindJoin(plan) = join /\ InnerJoin(join) /\ tl # tr
        /\ join.on[1][1].variant = "Column" /\ join.on[1][2].variant = "Column"
        /\ join.on[1][1].name = <<"k">> /\ join.on[1][2].name = <<"k">>
    BY JoinFacts DEF InnerJoin
  <1>2. g.stages[1] = l /\ g.stages[2] = r /\ Len(g.stages) = 3 /\ g.stages[3].sql.plan = plan
    <2> DEFINE j == FindJoin(plan)
               jl == EmitScan(q, Leaf(j.left).table, j.on[1][1])
               jr == EmitScan(q, Leaf(j.right).table, j.on[1][2])
               s == StageOf(<<"join">>, <<FromStage(jl.id), FromStage(jr.id)>>, Pipeline, <<>>, UserSql(plan))
    <2>1. g.stages = <<jl, jr, s>>
      BY GraphFields DEF EmitJoin
    <2>2. s.sql.plan = plan
      BY StageSql DEF UserSql
    <2>3. jl = l /\ jr = r
      <3> HIDE DEF j, join
      <3>1. j = join
        BY <1>1 DEF j
      <3> QED
        BY <3>1
    <2> HIDE DEF g, l, r, jl, jr, s
    <2> QED
      BY <2>1, <2>2, <2>3
  <1>3. \A V : Answer(plan, V) = JoinAnswer(plan, V)
    BY DEF Answer
  <1>4. \A x : x \in R <=> \E b \in B : \E t \in Answer(plan, HashedOf(join, T, b)) :
                   Hashed(T, tl, b) # {} /\ Hashed(T, tr, b) # {} /\ x = <<b, t>>
    <2> DEFINE scans == {g.stages[1], g.stages[2]}
    <2>1. R = UNION {{<<b, t>> : t \in Answer(g.stages[3].sql.plan, UNION {ScanBucket(s, b, T) : s \in scans})}
                       : b \in {b \in B : \A s \in scans : ScanBucket(s, b, T) # {}}}
      <3> HIDE DEF g, plan, join, tl, tr, l, r
      <3>1. R = RunJoin(g, T)
        BY <1>2 DEF Results
      <3> QED
        BY ONLY <3>1, Zenon DEF RunJoin, ScanBucket, ScanRows
    <2>2. \A b : ScanBucket(l, b, T) = Hashed(T, tl, b) /\ ScanBucket(r, b, T) = Hashed(T, tr, b)
      <3> HIDE DEF tl, tr
      <3> QED
        BY <1>1, ScanBucketIs
    <2> HIDE DEF g, l, r, R, tl, tr, B
    <2>3. scans = {l, r} /\ g.stages[3].sql.plan = plan
      BY <1>2
    <2>4. \A b : UNION {ScanBucket(s, b, T) : s \in scans} = HashedOf(join, T, b)
      BY <2>2, <2>3 DEF HashedOf, tl, tr
    <2>5. \A b : (\A s \in scans : ScanBucket(s, b, T) # {})
                    <=> Hashed(T, tl, b) # {} /\ Hashed(T, tr, b) # {}
      BY <2>2, <2>3
    <2> DEFINE meets(b) == \A s \in scans : ScanBucket(s, b, T) # {}
               answer(b) == Answer(g.stages[3].sql.plan, UNION {ScanBucket(s, b, T) : s \in scans})
    <2>6. \A b : answer(b) = Answer(plan, HashedOf(join, T, b))
      BY <2>3, <2>4
    <2>7. R = UNION {{<<b, t>> : t \in answer(b)} : b \in {b \in B : meets(b)}}
      BY <2>1
    <2>8. \A b : meets(b) <=> Hashed(T, tl, b) # {} /\ Hashed(T, tr, b) # {}
      BY <2>5
    <2> HIDE DEF scans, meets, answer
    <2>9. \A x : x \in R <=> \E b \in B : \E t \in answer(b) : meets(b) /\ x = <<b, t>>
      BY <2>7
    <2> QED
      BY <2>6, <2>8, <2>9
  <1>5. \A b : \A t : t \in Answer(plan, HashedOf(join, T, b))
                        <=> \E p \in M : at[p] = b /\ t = PairOf(p)
    <2> SUFFICES ASSUME NEW b, NEW t
                 PROVE  t \in Answer(plan, HashedOf(join, T, b))
                          <=> \E p \in M : at[p] = b /\ t = PairOf(p)
      OBVIOUS
    <2> DEFINE V == HashedOf(join, T, b)
    <2>1. t \in JoinAnswer(plan, V) <=> \E p \in MatchedPairs(join, V) : t = PairOf(p)
      <3> HIDE DEF V
      <3> QED
        BY <1>1, JoinAnswerIs
    <2>2. \A p : p \in MatchedPairs(join, V) <=> p \in M /\ BucketOf["own"][<<p[1].k>>] = b
      <3>1. Leaf(join.left).table # Leaf(join.right).table
        BY <1>1
      <3>2. MeetIn(join, T, b)
        BY <3>1, MatchedMeet
      <3> QED
        BY <3>2 DEF MeetIn
    <2>3. \A p \in M : at[p] = BucketOf["own"][<<p[1].k>>]
      OBVIOUS
    <2>4. t \in Answer(plan, V) <=> t \in JoinAnswer(plan, V)
      BY <1>3
    <2> HIDE DEF V, M, at
    <2> QED
      BY <2>1, <2>2, <2>3, <2>4 DEF V
  <1>6. ASSUME NEW p \in M
        PROVE  at[p] \in B /\ Hashed(T, tl, at[p]) # {} /\ Hashed(T, tr, at[p]) # {}
    <2>1. /\ p[1] \in T /\ p[2] \in T /\ p[1].table = tl /\ p[2].table = tr
          /\ p[1].k = p[2].k
      BY DEF MatchedPairs, Matched, Kept, Leaf
    <2>2. at[p] \in B
      BY <2>1 DEF OrdinaryTable
    <2>3. p[1] \in Hashed(T, tl, at[p]) /\ p[2] \in Hashed(T, tr, at[p])
      BY <2>1 DEF Hashed
    <2> QED
      BY <2>2, <2>3
  <1>7. \A p, s \in M : out[p] = out[s] => at[p] = at[s]
    <2> SUFFICES ASSUME NEW p \in M, NEW s \in M, out[p] = out[s] PROVE at[p] = at[s]
      OBVIOUS
    <2>1. PairOf(p).of = PairOf(s).of
      OBVIOUS
    <2>2. p[1].id = s[1].id
      BY <2>1 DEF PairOf
    <2>3. p[1] \in T /\ s[1] \in T
      BY DEF MatchedPairs, Kept
    <2>4. p[1] = s[1]
      BY <2>2, <2>3 DEF OrdinaryTable
    <2> QED
      BY <2>4
  <1>8. IsFiniteSet(M)
    <2>1. IsFiniteSet(T \X T)
      BY FS_Product DEF OrdinaryTable
    <2>2. M \subseteq T \X T
      BY DEF MatchedPairs, Kept
    <2> QED
      BY <2>1, <2>2, FS_Subset
  <1>9. R = Placed(M, at, out) /\ Answer(plan, T) = Outs(M, out)
    <2>1. \A p \in M : out[p] = PairOf(p)
      OBVIOUS
    <2>2. \A x : x \in Answer(plan, T) <=> \E p \in M : x = PairOf(p)
      BY <1>1, <1>3, JoinAnswerIs
    <2> HIDE DEF M, R, at, out, B, tl, tr
    <2>3. \A x : x \in R <=> \E p \in M : x = <<at[p], out[p]>>
      BY <1>4, <1>5, <1>6, <2>1
    <2> QED
      BY <2>1, <2>2, <2>3 DEF Placed, Outs
  <1> HIDE DEF M, R, at, out
  <1>10. Exact(R, Answer(plan, T))
    BY <1>7, <1>8, <1>9, EachOnce
  <1> QED
    BY <1>10 DEF R

-----------------------------------------------------------------------------
(* An aggregate query: what its parts are *)

\* What of an aggregate query's refusals the proof needs.
OrdinaryNode(node) ==
    /\ IsSeq(node.aggs)
    /\ \A g \in Elems(node.keys) : KeyOrValue(g)
    /\ \A a \in Elems(node.aggs) : OrdinaryAggregate(a)
    /\ AggregatesExtracted(node)

\* An ordinary aggregate query that compiles: a chain below the aggregate, and columns
\* that are found.
LEMMA AggregateFacts ==
    ASSUME NEW q, Compiles(q), Ordinary(q), q.plan[2].node = "Aggregate"
    PROVE  LET plan == q.plan
           IN  /\ Len(plan) \in Nat /\ plan \in Seq(Elems(plan)) /\ Chain(plan, 3)
               /\ OrdinaryNode(plan[2])
               /\ AggregateCompiles(q)
               /\ \A item \in Elems(plan[1].items) :
                      Len(item.expr.name) = 1 => item.expr.name = <<item.expr.name[1]>>
  <1> DEFINE plan == q.plan
  <1>1. plan[1].node = "Projection" /\ AggregateCompiles(q)
    BY DEF Compiles
  <1>2. IsPlan(plan) /\ FiltersOrdinary(plan) /\ OrdinaryAggregation(plan)
    BY DEF Ordinary
  <1>3. /\ Len(plan) \in Nat /\ 2 \in 1..Len(plan)
        /\ \A i \in 1..Len(plan) : plan[i].node \in {"TableScan", "Join"} <=> i = Len(plan)
    BY <1>1, <1>2, SecondNode
  <1>4. plan[2].node \notin {"TableScan", "Join"}
    OBVIOUS
  <1>5. 3 \in 1..Len(plan)
    BY <1>3, <1>4
  <1>6. Chain(plan, 3)
    BY <1>1, <1>2, <1>5, ReachesScanChain DEF AggregateCompiles
  <1>7. OrdinaryNode(plan[2])
    BY <1>1, <1>2 DEF OrdinaryAggregation, OrdinaryNode, AggregateCompiles
  <1> QED
    BY <1>1, <1>2, <1>3, <1>6, <1>7 DEF IsPlan, IsSeq, OrdinaryAggregation

\* The partial stage reads what the query's own nodes keep.
LEMMA PartialRows ==
    ASSUME NEW plan, plan \in Seq(Elems(plan)), Chain(plan, 3), NEW T
    PROVE  RowsBelow(PartialFrom(plan), 1, T) = Kept(plan, 3, T)
  <1> DEFINE n == Len(plan)
             s == PartialFrom(plan)
  <1>1. n \in Nat /\ 3 \in 1..n
    BY DEF Chain
  <1>2. Len(s) = n - 2 /\ \A j \in 1..(n - 2) : s[j] = plan[j + 2]
    BY <1>1 DEF PartialFrom
  <1> HIDE DEF s
  <1>3. s[Len(s)] = plan[n]
    BY <1>1, <1>2
  <1>4. \A j \in 1..(Len(s) - 1) : j + 2 \in 3..(n - 1) /\ s[j] = plan[j + 2]
    BY <1>1, <1>2
  <1>5. \A j \in 3..(n - 1) : j - 2 \in 1..(Len(s) - 1) /\ s[j - 2] = plan[j]
    BY <1>1, <1>2
  <1>6. Chain(s, 1)
    BY <1>1, <1>2, <1>3, <1>4 DEF Chain
  <1>7. Kept(s, 1, T) = Kept(plan, 3, T)
    <2>1. ASSUME NEW r \in T
          PROVE  (\A j \in 1..(Len(s) - 1) : s[j].node = "Filter" => ValueOf(s[j].predicate, r) # Null)
             <=> (\A j \in 3..(n - 1) : plan[j].node = "Filter" => ValueOf(plan[j].predicate, r) # Null)
      <3> DEFINE keeps(node) == node.node = "Filter" => ValueOf(node.predicate, r) # Null
      <3> HIDE DEF keeps, n
      <3>1. (\A j \in 1..(Len(s) - 1) : keeps(s[j])) <=> (\A j \in 3..(n - 1) : keeps(plan[j]))
        BY ONLY <1>4, <1>5
      <3> QED
        BY <3>1 DEF keeps
    <2> QED
      BY <1>3, <2>1 DEF Kept
  <1>8. RowsBelow(s, 1, T) = Kept(s, 1, T)
    BY <1>1, <1>2, <1>6, RowsBelowKept
  <1> QED
    BY <1>7, <1>8 DEF s

\* The group that a row is in.
KeyOf(keys, r) == [i \in DOMAIN keys |-> ValueOf(keys[i], r)]

\* The keys of a row, as the SQL of either stage computes them.
LEMMA KeyTupleIs ==
    ASSUME NEW keys, \A g \in Elems(keys) : KeyOrValue(g), NEW r, NEW T
    PROVE  KeyTuple(keys, r, T) = KeyOf(keys, r)
  <1>1. \A i \in DOMAIN keys : OfRow(keys[i])
    BY DEF Elems, OfRow
  <1>2. \A i \in DOMAIN keys : Value(keys[i], r, T) = ValueOf(keys[i], r)
    BY <1>1, ValueOfRow
  <1> QED
    BY <1>2 DEF KeyTuple, KeyOf

\* An aggregate, as the partial stage takes it, of some rows.
AggregateOf(a, G) == Aggregate(a.func, [r \in G |-> ValueOf(Extracted(a).arg, r)])

\* The argument of an aggregate is what the compiler extracts, but for a name.
LEMMA ExtractedArg ==
    ASSUME NEW node, OrdinaryNode(node), NEW a \in Elems(node.aggs)
    PROVE  /\ OfRow(a.arg) /\ Extracted(a).arg = a.arg /\ Extracted(a).func = a.func
           /\ a.func \in DOMAIN Combine /\ ~a.distinct /\ ~a.filtered
           /\ a.func # "count" => a.arg.name = <<"v">>
  <1>1. OrdinaryAggregate(a)
    BY DEF OrdinaryNode
  <1>2. /\ a.func \in DOMAIN Combine /\ ~a.distinct
        /\ a.func = "count" \/ a.arg.variant = "Column"
    BY DEF OrdinaryNode, AggregatesExtracted
  <1>3. CASE a.func = "count"
    <2>1. a.arg = One \/ (a.arg.variant = "Column" /\ KeyOrValue(a.arg))
      BY <1>1, <1>3 DEF OrdinaryAggregate, Plain
    <2>2. OfRow(a.arg) /\ Extracted(a).arg = a.arg
      BY <2>1 DEF OfRow, Extracted
    <2> QED
      BY <1>1, <1>2, <1>3, <2>2 DEF OrdinaryAggregate, Extracted
  <1>4. CASE a.func # "count"
    BY <1>1, <1>2, <1>4 DEF OrdinaryAggregate, OfRow, KeyOrValue, Extracted
  <1> QED
    BY <1>3, <1>4

\* An expression is evaluated by its name.
LEMMA ValueSameName ==
    ASSUME NEW e, NEW f, e.name = f.name, NEW r, NEW T
    PROVE  Value(e, r, T) = Value(f, r, T)
  BY DEF Value

\* Aggregates with one schema name have one value.
LEMMA SameAggregate ==
    ASSUME NEW node, OrdinaryNode(node), NEW a \in Elems(node.aggs), NEW c \in Elems(node.aggs),
           SchemaName(a) = SchemaName(c), NEW G
    PROVE  AggregateValue(a, G) = AggregateOf(c, G)
  <1>1. a.func = c.func /\ a.arg.name = c.arg.name
    BY DEF SchemaName
  <1>2. ~a.distinct /\ ~a.filtered /\ OfRow(a.arg)
    BY ExtractedArg
  <1>3. AggregateValue(a, G) = Aggregate(a.func, [r \in G |-> Value(a.arg, r, G)])
    BY <1>2 DEF AggregateValue
  <1>4. \A r \in G : Value(a.arg, r, G) = ValueOf(Extracted(c).arg, r)
    <2>1. \A r \in G : Value(a.arg, r, G) = ValueOf(a.arg, r)
      BY <1>2, ValueOfRow
    <2>2. \A r \in G : ValueOf(a.arg, r) = ValueOf(c.arg, r)
      BY <1>1, ValueSameName DEF ValueOf
    <2>3. Extracted(c).arg = c.arg
      BY ExtractedArg
    <2> QED
      BY <2>1, <2>2, <2>3
  <1>5. [r \in G |-> Value(a.arg, r, G)] = [r \in G |-> ValueOf(Extracted(c).arg, r)]
    BY <1>4
  <1> QED
    BY <1>1, <1>3, <1>5 DEF AggregateOf

-----------------------------------------------------------------------------
(* An aggregate query: what an output column is resolved to *)

\* The output o stands for the item as an aggregate, or as a key.
AsAggregate(o, item, node) ==
    /\ o.of \in DOMAIN node.aggs
    /\ o.combine = Combine[node.aggs[o.of].func]
    /\ \A k, G : ItemValue(item, node, k, G) = AggregateOf(node.aggs[o.of], G)

AsKey(o, item, node) ==
    /\ o.combine = "key"
    /\ \A k, G : DOMAIN k = DOMAIN node.keys => ItemValue(item, node, k, G) = k[o.of]

\* A name of one part is not that of an aggregate, and neither is it qualified.
LEMMA AggregateNames ==
    ASSUME NEW item, Len(item.expr.name) = 1 => item.expr.name = <<item.expr.name[1]>>,
           NEW a, SchemaName(a) = OutputColumn(item).key
    PROVE  OutputColumn(item).key = item.expr.name
  <1> DEFINE name == item.expr.name
  <1>1. OutputColumn(item).key \in {name, Qualified(item.expr)}
    BY DEF OutputColumn
  <1>2. CASE Len(name) = 1
    <2>1. Qualified(item.expr) = <<"table">> \o <<name[1]>>
      BY <1>2 DEF Qualified
    <2>2. Len(<<"table">> \o <<name[1]>>) = 2
      <3> DEFINE S == {"table", name[1]}
      <3>1. <<"table">> \in Seq(S) /\ <<name[1]>> \in Seq(S)
        OBVIOUS
      <3> QED
        BY <3>1
    <2>3. Len(SchemaName(a)) = 4
      BY DEF SchemaName
    <2>4. SchemaName(a) # Qualified(item.expr)
      BY <2>1, <2>2, <2>3
    <2> QED
      BY <1>1, <2>4
  <1>3. CASE Len(name) # 1
    BY <1>1, <1>3 DEF Qualified
  <1> QED
    BY <1>2, <1>3

\* _extract_output_columns and the look-up of the columns name what SQL names.
LEMMA ResolvedItem ==
    ASSUME NEW node, OrdinaryNode(node),
           NEW item, Len(item.expr.name) = 1 => item.expr.name = <<item.expr.name[1]>>,
           OutputColumn(item).kind = "column" \/ AggregatesNamed(node, OutputColumn(item).key) # {}
    PROVE  LET o == Resolved(node, OutputColumn(item))
           IN  o.out = ResultName(item) /\ (AsAggregate(o, item, node) \/ AsKey(o, item, node))
  <1> DEFINE name == item.expr.name
             column == OutputColumn(item)
             N == AggregatesNamed(node, column.key)
             o == Resolved(node, column)
  <1>1. column.out = ResultName(item)
    BY DEF OutputColumn, ResultName
  <1>2. o.out = column.out
    BY DEF Resolved
  <1>3. CASE N # {}
    <2> DEFINE i == Max(N)
    <2>1. i \in N
      <3>1. DOMAIN node.aggs = 1..Len(node.aggs) /\ Len(node.aggs) \in Nat
        BY DEF OrdinaryNode, IsSeq
      <3>2. N \in SUBSET (1..Len(node.aggs))
        BY <3>1 DEF AggregatesNamed
      <3> HIDE DEF N
      <3>3. \A n \in Nat : IsFiniteSet(1..n)
        BY ONLY FS_Interval
      <3>4. IsFiniteSet(N)
        BY ONLY <3>1, <3>2, <3>3, FS_Subset
      <3>5. N \in SUBSET Int
        BY ONLY <3>1, <3>2
      <3> QED
        BY <1>3, <3>4, <3>5, MaxOfFinite
    <2>2. i \in DOMAIN node.aggs /\ SchemaName(node.aggs[i]) = column.key
      BY <2>1 DEF AggregatesNamed
    <2>3. o.of = i /\ o.combine = Combine[node.aggs[i].func]
      BY <1>3 DEF Resolved
    <2> HIDE DEF i, o, N
    <2>4. column.key = name
      BY <2>2, AggregateNames
    <2>5. ASSUME NEW k, NEW G
          PROVE  ItemValue(item, node, k, G) = AggregateOf(node.aggs[i], G)
      <3> DEFINE a == CHOOSE a \in Elems(node.aggs) : SchemaName(a) = name
      <3>1. node.aggs[i] \in Elems(node.aggs) /\ SchemaName(node.aggs[i]) = name
        BY <2>2, <2>4 DEF Elems
      <3>2. a \in Elems(node.aggs) /\ SchemaName(a) = name
        BY <3>1
      <3>3. ItemValue(item, node, k, G) = AggregateValue(a, G)
        BY <3>1 DEF ItemValue, Elems
      <3> HIDE DEF a
      <3>4. AggregateValue(a, G) = AggregateOf(node.aggs[i], G)
        BY <3>1, <3>2, SameAggregate
      <3> QED
        BY <3>3, <3>4
    <2>6. AsAggregate(o, item, node)
      BY <2>2, <2>3, <2>5 DEF AsAggregate
    <2> QED
      BY <1>1, <1>2, <2>6 DEF o
  <1>4. CASE N = {}
    <2>1. column.kind = "column"
      BY <1>4
    <2>2. column.key = name
      BY <2>1 DEF OutputColumn
    <2>3. ~\E a \in Elems(node.aggs) : SchemaName(a) = name
      BY <1>4, <2>2 DEF AggregatesNamed, Elems
    <2>4. /\ o.combine = "key"
          /\ o.of = CHOOSE i \in DOMAIN node.keys : node.keys[i].name = name
      BY <1>4, <2>2 DEF Resolved
    <2> HIDE DEF o, N, column
    <2>5. ASSUME NEW k, NEW G, DOMAIN k = DOMAIN node.keys
          PROVE  ItemValue(item, node, k, G) = k[o.of]
      <3>1. ItemValue(item, node, k, G)
              = k[CHOOSE i \in DOMAIN k : node.keys[i].name = name]
        BY <2>3 DEF ItemValue, Elems
      <3> QED
        BY <2>4, <2>5, <3>1
    <2>6. AsKey(o, item, node)
      BY <2>4, <2>5 DEF AsKey
    <2> QED
      BY <1>1, <1>2, <2>6 DEF o, column
  <1> QED
    BY <1>3, <1>4

-----------------------------------------------------------------------------
(* An aggregate query: the partial stage *)

Groups(keys, R)   == {KeyOf(keys, r) : r \in R}
Group(keys, R, k) == {r \in R : KeyOf(keys, r) = k}

\* What the partial stage makes of the rows R for the group k in the partition p.
PartialOf(node, R, p, k) ==
    [partition |-> p, keys |-> k,
     parts |-> [i \in DOMAIN node.aggs |->
                   AggregateOf(node.aggs[i], Group(node.keys, PartOf(R, p), k))]]

PartialsOf(node, R) == {PartialOf(node, R, r.partition, KeyOf(node.keys, r)) : r \in R}

OfGroup(P, k) == {p \in P : p.keys = k}

\* The SQL of the partial stage.
PartialSql(plan) ==
    [op |-> "partial", keys |-> plan[2].keys, from |-> PartialFrom(plan),
     aggs |-> [i \in DOMAIN plan[2].aggs |-> Extracted(plan[2].aggs[i])]]

\* The same as it is run: the rows R of the partition p.
PartialIn(sql, p, R, k) ==
    [partition |-> p, keys |-> k,
     parts |-> [i \in DOMAIN sql.aggs |->
         Aggregate(sql.aggs[i].func,
             [r \in {t \in R : KeyTuple(sql.keys, t, R) = k} |->
                 Value(sql.aggs[i].arg, r, {t \in R : KeyTuple(sql.keys, t, R) = k})])]]

\* The SQL of the partial stage makes of a group its partial.
LEMMA PartialInIs ==
    ASSUME NEW plan, OrdinaryNode(plan[2]), NEW R, NEW p, NEW k
    PROVE  PartialIn(PartialSql(plan), p, PartOf(R, p), k) = PartialOf(plan[2], R, p, k)
  <1> DEFINE node == plan[2]
             sql == PartialSql(plan)
             S == PartOf(R, p)
             M == {t \in S : KeyTuple(sql.keys, t, S) = k}
             part(i) == Aggregate(sql.aggs[i].func, [r \in M |-> Value(sql.aggs[i].arg, r, M)])
  <1>1. /\ sql.keys = node.keys
        /\ DOMAIN sql.aggs = DOMAIN node.aggs
        /\ \A i \in DOMAIN node.aggs : sql.aggs[i] = Extracted(node.aggs[i])
    BY DEF PartialSql
  <1>2. PartialIn(sql, p, S, k) = [partition |-> p, keys |-> k, parts |-> [i \in DOMAIN sql.aggs |-> part(i)]]
    BY DEF PartialIn
  <1> HIDE DEF sql, S
  <1>3. \A g \in Elems(node.keys) : KeyOrValue(g)
    BY DEF OrdinaryNode
  <1>4. M = Group(node.keys, S, k)
    BY <1>1, <1>3, KeyTupleIs DEF Group
  <1> HIDE DEF M
  <1>5. ASSUME NEW i \in DOMAIN node.aggs
        PROVE  part(i) = AggregateOf(node.aggs[i], M)
    <2> DEFINE a == node.aggs[i]
    <2>1. a \in Elems(node.aggs)
      BY DEF Elems
    <2>2. OfRow(a.arg) /\ Extracted(a).arg = a.arg /\ Extracted(a).func = a.func
      BY <2>1, ExtractedArg
    <2> HIDE DEF a
    <2>3. \A r : Value(Extracted(a).arg, r, M) = ValueOf(Extracted(a).arg, r)
      BY <2>2, ValueOfRow
    <2>4. sql.aggs[i] = Extracted(a)
      BY <1>1 DEF a
    <2>5. part(i) = Aggregate(a.func, [r \in M |-> Value(Extracted(a).arg, r, M)])
      BY <2>2, <2>4
    <2>6. [r \in M |-> Value(Extracted(a).arg, r, M)] = [r \in M |-> ValueOf(Extracted(a).arg, r)]
      BY <2>3
    <2>7. part(i) = AggregateOf(a, M)
      BY <2>5, <2>6 DEF AggregateOf
    <2> QED
      BY <2>7 DEF a
  <1> HIDE DEF part
  <1>6. [i \in DOMAIN sql.aggs |-> part(i)] = [i \in DOMAIN node.aggs |-> AggregateOf(node.aggs[i], M)]
    BY <1>1, <1>5
  <1> QED
    BY <1>2, <1>4, <1>6 DEF PartialOf, S, sql

\* One partial for each group of the partition.
LEMMA PartialResultIs ==
    ASSUME NEW plan, plan \in Seq(Elems(plan)), Chain(plan, 3), OrdinaryNode(plan[2]),
           NEW T, NEW p, NEW x
    PROVE  x \in PartialResult(PartialSql(plan), p, T)
             <=> \E r \in Kept(plan, 3, T) :
                    r.partition = p /\ x = PartialOf(plan[2], Kept(plan, 3, T), p, KeyOf(plan[2].keys, r))
  <1> DEFINE node == plan[2]
             sql == PartialSql(plan)
             K == Kept(plan, 3, T)
             R == RowsBelow(sql.from, 1, PartOf(T, p))
  <1>1. sql.keys = node.keys /\ sql.from = PartialFrom(plan)
    BY DEF PartialSql
  <1>2. R = Kept(plan, 3, PartOf(T, p))
    BY <1>1, PartialRows
  <1>3. R = PartOf(K, p)
    <2>1. PartOf(T, p) \in SUBSET T
      BY DEF PartOf
    <2>2. Kept(plan, 3, PartOf(T, p)) = {r \in K : r \in PartOf(T, p)}
      BY <2>1, KeptPart
    <2>3. \A r : r \in K => r \in T
      BY DEF Kept
    <2> HIDE DEF K, R
    <2> QED
      BY <1>2, <2>2, <2>3 DEF PartOf
  <1>4. PartialResult(sql, p, T)
          = {PartialIn(sql, p, R, k) : k \in {KeyTuple(sql.keys, r, R) : r \in R}}
    BY DEF PartialResult, PartialIn, PartOf
  <1>5. \A g \in Elems(node.keys) : KeyOrValue(g)
    BY DEF OrdinaryNode
  <1> HIDE DEF R, K
  <1>6. \A r : KeyTuple(sql.keys, r, R) = KeyOf(node.keys, r)
    BY <1>1, <1>5, KeyTupleIs
  <1>7. \A k : PartialIn(sql, p, R, k) = PartialOf(node, K, p, k)
    BY <1>3, PartialInIs
  <1> HIDE DEF sql, node
  <1>8. x \in PartialResult(sql, p, T) <=> \E r \in R : x = PartialOf(node, K, p, KeyOf(node.keys, r))
    BY <1>4, <1>6, <1>7
  <1>9. x \in PartialResult(sql, p, T)
          <=> \E r \in K : r.partition = p /\ x = PartialOf(node, K, p, KeyOf(node.keys, r))
    BY <1>3, <1>8 DEF PartOf
  <1> QED
    BY <1>9 DEF K, node, sql

\* Over the partitions of the table, one partial for each group of each partition.
LEMMA PartialsAre ==
    ASSUME NEW plan, plan \in Seq(Elems(plan)), Chain(plan, 3), OrdinaryNode(plan[2]), NEW T
    PROVE  UNION {PartialResult(PartialSql(plan), p, T) : p \in Partitions(T)}
             = PartialsOf(plan[2], Kept(plan, 3, T))
  <1> DEFINE K == Kept(plan, 3, T)
             of(p) == PartialResult(PartialSql(plan), p, T)
             as(r) == PartialOf(plan[2], K, r.partition, KeyOf(plan[2].keys, r))
  <1>1. \A p, x : x \in of(p) <=> \E r \in K : r.partition = p /\ x = as(r)
    BY PartialResultIs
  <1>2. \A r \in K : r.partition \in Partitions(T)
    BY DEF Kept, Partitions
  <1> HIDE DEF K, of
  <1>3. \A x : x \in UNION {of(p) : p \in Partitions(T)} <=> \E r \in K : x = as(r)
    BY <1>1, <1>2
  <1>4. \A x : x \in PartialsOf(plan[2], K) <=> \E r \in K : x = as(r)
    BY DEF PartialsOf
  <1>5. UNION {of(p) : p \in Partitions(T)} = PartialsOf(plan[2], K)
    BY <1>3, <1>4
  <1> QED
    BY <1>5 DEF K, of

-----------------------------------------------------------------------------
(* An aggregate query: the final stage *)

\* The row that SQL gives for the group k of the rows R.
GroupAnswer(plan, R, k) ==
    [of |-> k, out |-> [i \in DOMAIN plan[1].items |->
        <<ResultName(plan[1].items[i]),
          ItemValue(plan[1].items[i], plan[2], k, Group(plan[2].keys, R, k))>>]]

\* The row that the final stage gives for the group k of the partials P.
FinalOf(outs, P, k) ==
    [of |-> k, out |-> [i \in DOMAIN outs |->
        <<outs[i].out, IF outs[i].combine = "key" THEN k[outs[i].of]
                       ELSE Aggregate(outs[i].combine,
                                [p \in OfGroup(P, k) |-> p.parts[outs[i].of]])>>]]

\* The SQL of the final stage.
FinalSql(plan) ==
    [op |-> "final",
     outs |-> [i \in DOMAIN plan[1].items |-> Resolved(plan[2], OutputColumn(plan[1].items[i]))]]

NumbersIn(R) == \A r \in R : r.v \in Int \cup {Null}

\* The partials of a group, for one aggregate, combine to that of the group.
LEMMA PartialsCombine ==
    ASSUME NEW node, OrdinaryNode(node), NEW R, IsFiniteSet(R), NumbersIn(R),
           NEW k \in Groups(node.keys, R), NEW i \in DOMAIN node.aggs
    PROVE  Aggregate(Combine[node.aggs[i].func],
                     [p \in OfGroup(PartialsOf(node, R), k) |-> p.parts[i]])
             = AggregateOf(node.aggs[i], Group(node.keys, R, k))
  <1> DEFINE a == node.aggs[i]
             G == Group(node.keys, R, k)
             P == OfGroup(PartialsOf(node, R), k)
             H == [p \in P |-> Group(node.keys, PartOf(R, p.partition), k)]
             v == [r \in G |-> ValueOf(Extracted(a).arg, r)]
             w == [p \in P |-> p.parts[i]]
  <1>1. /\ Extracted(a).arg = a.arg
        /\ a.func \in DOMAIN Combine
        /\ a.func # "count" => a.arg.name = <<"v">>
    <2>1. a \in Elems(node.aggs)
      BY DEF Elems
    <2> QED
      BY <2>1, ExtractedArg
  <1>2. \A p : p \in P <=> \E r \in G : p = PartialOf(node, R, r.partition, k)
    <2>1. \A p : p \in PartialsOf(node, R)
                   <=> \E r \in R : p = PartialOf(node, R, r.partition, KeyOf(node.keys, r))
      BY DEF PartialsOf
    <2>2. \A q, m : PartialOf(node, R, q, m).keys = m
      BY DEF PartialOf
    <2> QED
      BY <2>1, <2>2 DEF OfGroup, Group
  <1>3. \A q : PartialOf(node, R, q, k).partition = q
    BY DEF PartialOf
  <1>4. \A q : PartialOf(node, R, q, k).parts[i] = AggregateOf(a, Group(node.keys, PartOf(R, q), k))
    BY DEF PartialOf
  <1> HIDE DEF P
  <1>5. IsFiniteSet(G)
    BY FS_Subset DEF Group
  <1>6. IsFiniteSet(P)
    <2> DEFINE f == [r \in G |-> PartialOf(node, R, r.partition, k)]
    <2>1. f \in Surjection(G, P)
      BY <1>2 DEF Surjection
    <2> QED
      BY <1>5, <2>1, FS_Surjection
  <1>7. G # {}
    BY DEF Groups, Group
  <1>8. P # {}
    BY <1>2, <1>7
  <1>9. \A p \in P : p = PartialOf(node, R, p.partition, k)
    BY <1>2, <1>3
  <1>10. \A p \in P : H[p] = {r \in G : r.partition = p.partition}
    BY DEF Group, PartOf
  <1>11. Parts(H, P, G)
    BY <1>9, <1>10 DEF Parts
  <1>12. Whole(H, P) = G
    <2>1. \A r \in G : PartialOf(node, R, r.partition, k) \in P
      BY <1>2
    <2>2. \A r \in G : r \in H[PartialOf(node, R, r.partition, k)]
      BY <1>3, <1>10, <2>1
    <2> HIDE DEF H, G
    <2>3. \A r : r \in Whole(H, P) <=> \E p \in P : r \in H[p]
      BY DEF Whole
    <2>4. \A r : r \in Whole(H, P) <=> r \in G
      BY <1>10, <2>1, <2>2, <2>3
    <2> QED
      BY <2>4
  <1>13. a.func # "count" => \A r \in G : v[r] \in Int \cup {Null}
    <2> SUFFICES ASSUME a.func # "count", NEW r \in G PROVE v[r] \in Int \cup {Null}
      OBVIOUS
    <2>1. v[r] = Value(a.arg, r, {}) /\ a.arg.name = <<"v">>
      BY <1>1 DEF ValueOf
    <2>2. v[r] = r.v
      BY <2>1, ValueByName
    <2> QED
      BY <2>2 DEF Group, NumbersIn
  <1>14. PartAggregates(w, a.func, v, H, P)
    <2> SUFFICES ASSUME NEW p \in P
                 PROVE  w[p] = Aggregate(a.func, [r \in H[p] |-> v[r]])
      BY DEF PartAggregates
    <2>1. w[p] = AggregateOf(a, H[p])
      BY <1>4, <1>9
    <2>2. [r \in H[p] |-> v[r]] = [r \in H[p] |-> ValueOf(Extracted(a).arg, r)]
      BY <1>10
    <2> QED
      BY <2>1, <2>2 DEF AggregateOf
  <1>15. \A p \in P : w[p] = p.parts[i]
    OBVIOUS
  <1>16. [r \in G |-> v[r]] = [r \in G |-> ValueOf(Extracted(a).arg, r)]
    OBVIOUS
  <1> HIDE DEF a, H, v, w
  <1>17. Aggregate(Combine[a.func], [p \in P |-> w[p]]) = Aggregate(a.func, [r \in G |-> v[r]])
    <2> HIDE DEF G
    <2> QED
      BY <1>1, <1>5, <1>6, <1>8, <1>11, <1>12, <1>13, <1>14, CombineRight
  <1>18. [p \in P |-> w[p]] = [p \in P |-> p.parts[i]]
    BY <1>15
  <1>19. Aggregate(Combine[a.func], [p \in P |-> p.parts[i]]) = AggregateOf(a, G)
    BY <1>16, <1>17, <1>18 DEF AggregateOf
  <1> QED
    BY <1>19 DEF a, P

\* The final stage gives for a group what SQL gives.
LEMMA FinalRight ==
    ASSUME NEW plan, OrdinaryNode(plan[2]),
           NEW R, IsFiniteSet(R), NumbersIn(R), NEW k \in Groups(plan[2].keys, R),
           \A item \in Elems(plan[1].items) :
              /\ Len(item.expr.name) = 1 => item.expr.name = <<item.expr.name[1]>>
              /\ \/ OutputColumn(item).kind = "column"
                 \/ AggregatesNamed(plan[2], OutputColumn(item).key) # {}
    PROVE  FinalOf(FinalSql(plan).outs, PartialsOf(plan[2], R), k) = GroupAnswer(plan, R, k)
  <1> DEFINE node == plan[2]
             items == plan[1].items
             outs == FinalSql(plan).outs
             P == PartialsOf(node, R)
             G == Group(node.keys, R, k)
             given(i) == <<outs[i].out, IF outs[i].combine = "key" THEN k[outs[i].of]
                            ELSE Aggregate(outs[i].combine,
                                   [p \in OfGroup(P, k) |-> p.parts[outs[i].of]])>>
             asked(i) == <<ResultName(items[i]), ItemValue(items[i], node, k, G)>>
  <1>1. /\ DOMAIN outs = DOMAIN items
        /\ \A i \in DOMAIN items : outs[i] = Resolved(node, OutputColumn(items[i]))
    BY DEF FinalSql
  <1>2. DOMAIN k = DOMAIN node.keys
    BY DEF Groups, KeyOf
  <1>3. ASSUME NEW i \in DOMAIN items
        PROVE  given(i) = asked(i)
    <2> DEFINE item == items[i]
               o == outs[i]
    <2>1. item \in Elems(items)
      BY DEF Elems
    <2>2. o = Resolved(node, OutputColumn(item))
      BY <1>1
    <2> HIDE DEF item, o
    <2>3. o.out = ResultName(item) /\ (AsAggregate(o, item, node) \/ AsKey(o, item, node))
      BY <2>1, <2>2, ResolvedItem
    <2>4. CASE AsKey(o, item, node)
      BY <1>2, <2>3, <2>4 DEF AsKey, item, o
    <2>5. CASE AsAggregate(o, item, node)
      <3>1. o.of \in DOMAIN node.aggs /\ o.combine = Combine[node.aggs[o.of].func]
        BY <2>5 DEF AsAggregate
      <3>2. o.combine # "key"
        <4>1. node.aggs[o.of].func \in DOMAIN Combine
          BY <3>1 DEF OrdinaryNode, AggregatesExtracted, Elems
        <4> QED
          BY <3>1, <4>1 DEF Combine
      <3>3. Aggregate(o.combine, [p \in OfGroup(P, k) |-> p.parts[o.of]])
              = AggregateOf(node.aggs[o.of], G)
        BY <3>1, PartialsCombine
      <3>4. ItemValue(item, node, k, G) = AggregateOf(node.aggs[o.of], G)
        BY <2>5 DEF AsAggregate
      <3> QED
        BY <2>3, <3>2, <3>3, <3>4 DEF item, o
    <2> QED
      BY <2>3, <2>4, <2>5
  <1>4. FinalOf(outs, P, k) = [of |-> k, out |-> [i \in DOMAIN outs |-> given(i)]]
    BY DEF FinalOf
  <1>5. GroupAnswer(plan, R, k) = [of |-> k, out |-> [i \in DOMAIN items |-> asked(i)]]
    BY DEF GroupAnswer
  <1> HIDE DEF given, asked, outs
  <1>6. [i \in DOMAIN outs |-> given(i)] = [i \in DOMAIN items |-> asked(i)]
    BY <1>1, <1>3
  <1> QED
    BY <1>4, <1>5, <1>6 DEF outs

\* What the final stage makes of a bucket of partials.
LEMMA FinalResultIs ==
    ASSUME NEW sql, NEW P, NEW x
    PROVE  x \in FinalResult(sql, P) <=> \E p \in P : x = FinalOf(sql.outs, P, p.keys)
  BY DEF FinalResult, FinalOf, OfGroup

\* The partials of a bucket, and those of a group, which lie in one.
InBucket(keys, P, b) == {p \in P : BucketOfTuple(keys, p.keys) = b}

\* All the partials of a group are in the bucket of its keys.
LEMMA GroupInBucket ==
    ASSUME NEW keys, NEW P, NEW b, NEW k, BucketOfTuple(keys, k) = b, NEW outs
    PROVE  FinalOf(outs, InBucket(keys, P, b), k) = FinalOf(outs, P, k)
  <1>1. OfGroup(InBucket(keys, P, b), k) = OfGroup(P, k)
    BY DEF OfGroup, InBucket
  <1> QED
    BY <1>1 DEF FinalOf

\* The final stage, once per bucket that has partials: a row for each group, from
\* the bucket of its keys.
LEMMA FinalsAre ==
    ASSUME NEW sql, NEW keys, NEW P, NEW x
    PROVE  x \in UNION {{<<b, t>> : t \in FinalResult(sql, InBucket(keys, P, b))} :
                           b \in {BucketOfTuple(keys, p.keys) : p \in P}}
             <=> \E p \in P : x = <<BucketOfTuple(keys, p.keys), FinalOf(sql.outs, P, p.keys)>>
  <1> DEFINE B == {BucketOfTuple(keys, p.keys) : p \in P}
             of(b) == FinalResult(sql, InBucket(keys, P, b))
  <1>1. \A b, t : t \in of(b) <=> \E p \in P :
            BucketOfTuple(keys, p.keys) = b /\ t = FinalOf(sql.outs, P, p.keys)
    <2> SUFFICES ASSUME NEW b, NEW t
                 PROVE  t \in of(b) <=> \E p \in P :
                          BucketOfTuple(keys, p.keys) = b /\ t = FinalOf(sql.outs, P, p.keys)
      OBVIOUS
    <2>1. t \in of(b) <=> \E p \in InBucket(keys, P, b) : t = FinalOf(sql.outs, InBucket(keys, P, b), p.keys)
      BY FinalResultIs
    <2>2. \A p \in InBucket(keys, P, b) :
             FinalOf(sql.outs, InBucket(keys, P, b), p.keys) = FinalOf(sql.outs, P, p.keys)
      <3> SUFFICES ASSUME NEW p \in InBucket(keys, P, b)
                   PROVE  FinalOf(sql.outs, InBucket(keys, P, b), p.keys) = FinalOf(sql.outs, P, p.keys)
        OBVIOUS
      <3>1. BucketOfTuple(keys, p.keys) = b
        BY DEF InBucket
      <3> QED
        BY <3>1, GroupInBucket
    <2>3. \A p : p \in InBucket(keys, P, b) <=> p \in P /\ BucketOfTuple(keys, p.keys) = b
      BY DEF InBucket
    <2> HIDE DEF of
    <2> QED
      BY <2>1, <2>2, <2>3
  <1>2. \A p \in P : BucketOfTuple(keys, p.keys) \in B
    OBVIOUS
  <1> HIDE DEF of, B
  <1>3. x \in UNION {{<<b, t>> : t \in of(b)} : b \in B} <=> \E b \in B : \E t \in of(b) : x = <<b, t>>
    OBVIOUS
  <1>4. x \in UNION {{<<b, t>> : t \in of(b)} : b \in B}
          <=> \E p \in P : x = <<BucketOfTuple(keys, p.keys), FinalOf(sql.outs, P, p.keys)>>
    BY <1>1, <1>2, <1>3
  <1> QED
    BY <1>4 DEF of, B

\* The rows that SQL gives, one for each group.
LEMMA AggregateAnswerIs ==
    ASSUME NEW plan, Len(plan) \in Nat, Chain(plan, 3), OrdinaryNode(plan[2]), NEW T, NEW x
    PROVE  x \in AggregateAnswer(plan, T)
             <=> \E k \in Groups(plan[2].keys, Kept(plan, 3, T)) :
                    x = GroupAnswer(plan, Kept(plan, 3, T), k)
  <1> DEFINE R == RowsBelow(plan, 3, T)
             node == plan[2]
             keyOf(r) == KeyTuple(node.keys, r, R)
             row(k) == [of |-> k, out |-> [i \in DOMAIN plan[1].items |->
                 <<ResultName(plan[1].items[i]),
                   ItemValue(plan[1].items[i], node, k, {r \in R : keyOf(r) = k})>>]]
  <1>1. R = Kept(plan, 3, T)
    BY RowsBelowKept
  <1>2. AggregateAnswer(plan, T) = {row(k) : k \in {keyOf(r) : r \in R}}
    BY DEF AggregateAnswer
  <1> HIDE DEF R
  <1>3. \A g \in Elems(node.keys) : KeyOrValue(g)
    BY DEF OrdinaryNode
  <1>4. \A r : keyOf(r) = KeyOf(node.keys, r)
    BY <1>3, KeyTupleIs
  <1>5. \A k : {r \in R : keyOf(r) = k} = Group(node.keys, R, k)
    BY <1>4 DEF Group
  <1>6. \A k : row(k) = GroupAnswer(plan, R, k)
    BY <1>5 DEF GroupAnswer
  <1>7. {keyOf(r) : r \in R} = Groups(node.keys, R)
    BY <1>4 DEF Groups
  <1> HIDE DEF row, keyOf
  <1>8. x \in AggregateAnswer(plan, T) <=> \E k \in Groups(node.keys, R) : x = GroupAnswer(plan, R, k)
    BY <1>2, <1>6, <1>7
  <1> QED
    BY <1>1, <1>8

\* An aggregate, run in two stages, gives the answer.
LEMMA AggregateRight ==
    ASSUME NEW q, Compiles(q), Ordinary(q), q.plan[2].node = "Aggregate", NEW T, OrdinaryTable(T)
    PROVE  Exact(Results(EmitAggregate(q), T), Answer(q.plan, T))
  <1> DEFINE plan == q.plan
             node == plan[2]
             g == EmitAggregate(q)
             K == Kept(plan, 3, T)
             P == PartialsOf(node, K)
             S == Groups(node.keys, K)
             R == Results(g, T)
             at == [k \in S |-> BucketOfTuple(node.keys, k)]
             out == [k \in S |-> GroupAnswer(plan, K, k)]
  <1>1. /\ Len(plan) \in Nat /\ plan \in Seq(Elems(plan)) /\ Chain(plan, 3)
        /\ OrdinaryNode(node) /\ AggregateCompiles(q)
        /\ \A item \in Elems(plan[1].items) :
               Len(item.expr.name) = 1 => item.expr.name = <<item.expr.name[1]>>
    BY AggregateFacts
  <1>2. \A item \in Elems(plan[1].items) :
           /\ Len(item.expr.name) = 1 => item.expr.name = <<item.expr.name[1]>>
           /\ \/ OutputColumn(item).kind = "column"
              \/ AggregatesNamed(node, OutputColumn(item).key) # {}
    BY <1>1 DEF AggregateCompiles
  <1>3. IsFiniteSet(K)
    BY FS_Subset DEF OrdinaryTable, Kept
  <1>4. NumbersIn(K)
    BY DEF OrdinaryTable, Kept, NumbersIn
  <1>5. /\ Len(g.stages) = 2
        /\ g.stages[1].keys = node.keys /\ g.stages[1].sql = PartialSql(plan)
        /\ g.stages[2].sql = FinalSql(plan)
    <2> DEFINE partial == StageOf(<<"partial">>, <<FromSource(SourceId(1))>>,
                                  HashShuffle(node.keys), node.keys, PartialSql(plan))
               final == StageOf(<<"final">>, <<FromStage(<<"partial">>)>>, Pipeline, <<>>,
                                FinalSql(plan))
    <2>1. g.stages = <<partial, final>>
      BY GraphFields DEF EmitAggregate, PartialSql, FinalSql
    <2>2. partial.keys = node.keys /\ partial.sql = PartialSql(plan) /\ final.sql = FinalSql(plan)
      BY StageSql
    <2> HIDE DEF partial, final
    <2> QED
      BY <2>1, <2>2
  <1>6. UNION {PartialResult(PartialSql(plan), p, T) : p \in Partitions(T)} = P
    BY <1>1, PartialsAre
  <1>7. R = UNION {{<<b, t>> : t \in FinalResult(FinalSql(plan), InBucket(node.keys, P, b))} :
                      b \in {BucketOfTuple(node.keys, p.keys) : p \in P}}
    <2>1. R = RunAggregate(g, T)
      BY <1>5 DEF Results
    <2> DEFINE Runs(keys, sql, Q) ==
                 UNION {{<<b, t>> : t \in FinalResult(sql, {p \in Q : BucketOfTuple(keys, p.keys) = b})} :
                           b \in {BucketOfTuple(keys, p.keys) : p \in Q}}
    <2>2. RunAggregate(g, T)
            = Runs(g.stages[1].keys, g.stages[2].sql,
                   UNION {PartialResult(g.stages[1].sql, p, T) : p \in Partitions(T)})
      BY DEF RunAggregate
    <2> HIDE DEF P, Runs, R, g
    <2>3. R = Runs(node.keys, FinalSql(plan), P)
      BY <1>5, <1>6, <2>1, <2>2
    <2> QED
      BY <2>3 DEF Runs, InBucket
  <1>8. \A k : (\E p \in P : p.keys = k) <=> k \in S
    <2>1. \A r, m : PartialOf(node, K, r, m).keys = m
      BY DEF PartialOf
    <2>2. \A p : p \in P <=> \E r \in K : p = PartialOf(node, K, r.partition, KeyOf(node.keys, r))
      BY DEF PartialsOf
    <2>3. \A k : k \in S <=> \E r \in K : k = KeyOf(node.keys, r)
      BY DEF Groups
    <2> HIDE DEF P, S, K, node
    <2> QED
      BY <2>1, <2>2, <2>3
  <1>9. \A k \in S : FinalOf(FinalSql(plan).outs, P, k) = GroupAnswer(plan, K, k)
    <2> HIDE DEF P, S, K
    <2> QED
      BY <1>1, <1>2, <1>3, <1>4, FinalRight DEF P, S
  <1>10. \A x : x \in R <=> \E p \in P :
            x = <<BucketOfTuple(node.keys, p.keys), FinalOf(FinalSql(plan).outs, P, p.keys)>>
    <2> HIDE DEF P, R
    <2> QED
      BY <1>7, FinalsAre
  <1>11. \A x : x \in Answer(plan, T) <=> \E k \in S : x = GroupAnswer(plan, K, k)
    <2>1. Answer(plan, T) = AggregateAnswer(plan, T)
      BY DEF Answer
    <2> QED
      BY <1>1, <2>1, AggregateAnswerIs
  <1>12. IsFiniteSet(S)
    <2> DEFINE f == [r \in K |-> KeyOf(node.keys, r)]
    <2>1. f \in Surjection(K, S)
      BY DEF Surjection, Groups
    <2> HIDE DEF K, S, f
    <2> QED
      BY <1>3, <2>1, FS_Surjection
  <1>13. \A k, m \in S : out[k] = out[m] => at[k] = at[m]
    BY DEF GroupAnswer
  <1>14. \A k \in S : at[k] = BucketOfTuple(node.keys, k) /\ out[k] = GroupAnswer(plan, K, k)
    OBVIOUS
  <1> HIDE DEF P, S, K, R, at, out, node
  <1>15. \A x : x \in R <=> \E k \in S : x = <<at[k], out[k]>>
    BY <1>8, <1>9, <1>10, <1>14
  <1>16. \A x : x \in Answer(plan, T) <=> \E k \in S : x = out[k]
    BY <1>11, <1>14
  <1>17. R = Placed(S, at, out) /\ Answer(plan, T) = Outs(S, out)
    BY <1>15, <1>16 DEF Placed, Outs
  <1>18. Exact(R, Answer(plan, T))
    BY <1>12, <1>13, <1>17, EachOnce
  <1> QED
    BY <1>18 DEF R

-----------------------------------------------------------------------------
(* The behaviours *)

\* What compile_sql emits for an ordinary query gives, over ordinary tables, the
\* answer, each of its rows once.
THEOREM CompiledRight ==
    ASSUME NEW q, Compile(q) # Refusal, Ordinary(q), NEW T, OrdinaryTable(T)
    PROVE  Exact(Results(Compile(q), T), Answer(q.plan, T))
  <1>1. Compiles(q) /\ Compile(q) = Emitted(q)
    BY DEF Compile
  <1>2. CASE q.plan[2].node = "Join"
    BY <1>1, <1>2, JoinRight DEF Emitted
  <1>3. CASE q.plan[2].node = "Aggregate"
    BY <1>1, <1>3, AggregateRight DEF Emitted
  <1>4. CASE q.plan[2].node # "Join" /\ q.plan[2].node # "Aggregate"
    BY <1>1, <1>4, PassthroughRight DEF Emitted
  <1> QED
    BY <1>2, <1>3, <1>4

\* How far a query is.
QueryInv ==
    /\ from \in {"query", "compiler", "run"} => query \in Queries
    /\ from \in {"compiler", "run"} => graph = Compile(query)
    /\ from = "run" => graph # Refusal /\ rows \in Tables(query)

\* A graph is what the compiler makes of the query, and the tables are its tables.
LEMMA QueryInvAlways == Spec => []QueryInv
  <1>1. Init => QueryInv
    BY DEF Init, InitByHand, InitQuery, QueryInv
  <1>2. QueryInv /\ [Next]_vars => QueryInv'
    <2> SUFFICES ASSUME QueryInv, [Next]_vars
                 PROVE  QueryInv'
      OBVIOUS
    <2>1. ASSUME AddStage
          PROVE  QueryInv'
      BY <2>1 DEF AddStage, QueryInv
    <2>2. ASSUME CompileQuery
          PROVE  QueryInv'
      BY <2>2 DEF CompileQuery, QueryInv
    <2>3. ASSUME RunQuery
          PROVE  QueryInv'
      BY <2>3 DEF RunQuery, QueryInv
    <2>4. ASSUME UNCHANGED vars
          PROVE  QueryInv'
      BY <2>4 DEF vars, QueryInv
    <2> QED
      BY <2>1, <2>2, <2>3, <2>4 DEF Next
  <1> QED
    BY <1>1, <1>2, PTL DEF Spec

\* The compiler "never silently returns a wrong number": whatever compiles of
\* ordinary queries gives, over any ordinary tables in any partitions, the rows
\* that one engine gives, each once.  The queries that are compiled and are not
\* ordinary are those of the findings.
THEOREM NeverAWrongNumberAlways == OrdinaryQueries => (Spec => []NeverAWrongNumber)
  <1> SUFFICES ASSUME OrdinaryQueries
               PROVE  Spec => []NeverAWrongNumber
    OBVIOUS
  <1>1. QueryInv => NeverAWrongNumber
    <2> SUFFICES ASSUME QueryInv, from = "run"
                 PROVE  Exact(Results(graph, rows), Answer(query.plan, rows))
      BY DEF NeverAWrongNumber, Exact
    <2>1. query \in Queries /\ graph = Compile(query) /\ graph # Refusal /\ rows \in Tables(query)
      BY DEF QueryInv
    <2>2. Ordinary(query) /\ OrdinaryTable(rows)
      BY <2>1 DEF OrdinaryQueries
    <2> QED
      BY <2>1, <2>2, CompiledRight
  <1> QED
    BY <1>1, QueryInvAlways, PTL

-----------------------------------------------------------------------------
(* What the constructors and validate() say of what is emitted: nothing      *)
(* against it.                                                               *)

\* The sources of a graph are those of its query.
LEMMA GraphSources ==
    ASSUME NEW q, NEW stages
    PROVE  /\ Distinct(Graph(q, stages).sources)
           /\ Elems(Graph(q, stages).sources) = {SourceId(i) : i \in DOMAIN q.tables}
  <1> DEFINE sources == Graph(q, stages).sources
  <1>1. /\ DOMAIN sources = DOMAIN q.tables
        /\ \A i \in DOMAIN q.tables : sources[i] = SourceId(i)
    BY DEF Graph
  <1>2. \A i, j : SourceId(i) = SourceId(j) => i = j
    BY DEF SourceId
  <1> HIDE DEF sources
  <1>3. \A x : x \in Elems(sources) <=> x \in {SourceId(i) : i \in DOMAIN q.tables}
    BY <1>1 DEF Elems
  <1>4. Distinct(sources)
    BY <1>1, <1>2 DEF Distinct
  <1> QED
    BY <1>3, <1>4 DEF sources

\* A list of stages with ids and exchanges of their own, of which the last is the
\* sink, and the references of each resolve.
LEMMA WellFormedStages ==
    ASSUME NEW q, NEW stages, NEW g, g = Graph(q, stages), IsGraph(g), Len(stages) # 0,
           \A i, j \in 1..Len(stages) : stages[i].id = stages[j].id => i = j,
           \A i \in 1..Len(stages) : stages[i].exchange \in Exchange,
           \A i \in 1..Len(stages) : \A inp \in Elems(stages[i].inputs) :
              IF inp.source THEN \E k \in DOMAIN q.tables : inp.id = SourceId(k)
              ELSE \E j \in 1..(i - 1) : inp.id = stages[j].id
    PROVE  WellFormed(g)
  <1>1. g.stages = stages /\ g.sink = stages[Len(stages)].id
    BY GraphFields
  <1>2. Len(stages) \in Nat /\ DOMAIN stages = 1..Len(stages)
    BY <1>1, Positions
  <1>3. Distinct(g.sources) /\ Elems(g.sources) = {SourceId(i) : i \in DOMAIN q.tables}
    BY GraphSources
  <1>4. Distinct(Ids(g)) /\ g.sink \in Elems(Ids(g))
    BY <1>1, <1>2, Positions
  <1>5. ASSUME NEW i \in 1..Len(stages)
        PROVE  Resolves(g, i)
    <2>1. \A inp \in Elems(g.stages[i].inputs) :
             IF inp.source THEN inp.id \in Elems(g.sources)
             ELSE \E j \in 1..(i - 1) : inp.id = g.stages[j].id
      BY <1>1, <1>3
    <2> QED
      BY <1>1, <2>1, ResolvesTo
  <1>6. Validate(g)
    <2>1. g.stages # <<>>
      BY <1>1
    <2> QED
      BY <1>1, <1>2, <1>3, <1>4, <1>5, <2>1 DEF Validate
  <1>7. \A stage \in Elems(g.stages) : stage.exchange \in Exchange
    BY <1>1, <1>2 DEF Elems
  <1> QED
    BY <1>6, <1>7 DEF WellFormed

\* What the stages with one source, with one stage and with two read.
ReadsSource(inputs, id) == \A inp \in Elems(inputs) : inp.source = TRUE /\ inp.id = id
ReadsStages(inputs, ids) == \A inp \in Elems(inputs) : inp.source = FALSE /\ inp.id \in ids

\* The references of those stages.
LEMMA EmittedInputs ==
    ASSUME NEW a, NEW b
    PROVE  /\ ReadsSource(<<FromSource(a)>>, a)
           /\ ReadsStages(<<FromStage(a)>>, {a})
           /\ ReadsStages(<<FromStage(a), FromStage(b)>>, {a, b})
  <1>1. /\ Elems(<<FromSource(a)>>) = {FromSource(a)}
        /\ Elems(<<FromStage(a)>>) = {FromStage(a)}
        /\ Elems(<<FromStage(a), FromStage(b)>>) = {FromStage(a), FromStage(b)}
    BY OneSource, OneStage, TwoStages
  <1>2. /\ FromSource(a).source = TRUE /\ FromSource(a).id = a
        /\ FromStage(a).source = FALSE /\ FromStage(a).id = a
        /\ FromStage(b).source = FALSE /\ FromStage(b).id = b
    BY ReferenceFields
  <1> QED
    BY <1>1, <1>2 DEF ReadsSource, ReadsStages

\* The exchanges that are emitted.
LEMMA EmittedExchanges ==
    /\ Pipeline \in Exchange
    /\ \A keys : Len(keys) \in Nat \ {0} /\ NumBuckets \in Nat \ {0, 1} => HashShuffle(keys) \in Exchange
  BY DEF Pipeline, HashShuffle, Exchange, Kind

\* The graph of a passthrough.
LEMMA PassthroughWellFormed ==
    ASSUME NEW q, IsSeq(q.tables), Len(q.tables) = 1
    PROVE  WellFormed(EmitPassthrough(q))
  <1> DEFINE main == StageOf(<<"main">>, <<FromSource(SourceId(1))>>, Pipeline, <<>>, UserSql(q.plan))
             g == EmitPassthrough(q)
  <1>1. IsGraph(g) /\ g = Graph(q, <<main>>)
    BY PassthroughGraph DEF EmitPassthrough
  <1>2. main.inputs = <<FromSource(SourceId(1))>> /\ main.exchange \in Exchange
    BY StageFields, EmittedExchanges
  <1>3. \A inp \in Elems(main.inputs) : inp.source = TRUE /\ inp.id = SourceId(1)
    <2> HIDE DEF main
    <2>1. ReadsSource(main.inputs, SourceId(1))
      BY <1>2, EmittedInputs
    <2> QED
      BY <2>1 DEF ReadsSource
  <1>4. 1 \in DOMAIN q.tables
    BY DEF IsSeq
  <1> HIDE DEF main, g
  <1>5. Len(<<main>>) = 1 /\ <<main>>[1] = main
    OBVIOUS
  <1> DEFINE stages == <<main>>
  <1> HIDE DEF stages
  <1>6. Len(stages) = 1 /\ stages[1] = main /\ g = Graph(q, stages)
    BY <1>1, <1>5 DEF stages
  <1>7. \A i \in 1..Len(stages) : i = 1
    BY <1>6
  <1>8. \A i \in 1..Len(stages) : \A inp \in Elems(stages[i].inputs) :
            IF inp.source THEN \E k \in DOMAIN q.tables : inp.id = SourceId(k)
            ELSE \E j \in 1..(i - 1) : inp.id = stages[j].id
    BY <1>3, <1>4, <1>6, <1>7
  <1>9. WellFormed(g)
    BY <1>1, <1>2, <1>6, <1>7, <1>8, WellFormedStages
  <1> QED
    BY <1>9 DEF g

\* The graph of an aggregate query.
LEMMA AggregateWellFormed ==
    ASSUME NEW q, IsSeq(q.tables), Len(q.tables) = 1, NumBuckets \in Nat \ {0, 1},
           IsSeq(q.plan[2].keys), q.plan[2].keys # <<>>
    PROVE  WellFormed(EmitAggregate(q))
  <1> DEFINE keys == q.plan[2].keys
             partial == StageOf(<<"partial">>, <<FromSource(SourceId(1))>>, HashShuffle(keys), keys,
                                PartialSql(q.plan))
             final == StageOf(<<"final">>, <<FromStage(<<"partial">>)>>, Pipeline, <<>>, FinalSql(q.plan))
             g == EmitAggregate(q)
  <1>1. IsGraph(g) /\ g = Graph(q, <<partial, final>>)
    BY AggregateGraph DEF EmitAggregate, PartialSql, FinalSql
  <1>2. Len(keys) \in Nat \ {0}
    BY DEF IsSeq
  <1>3. /\ partial.id = <<"partial">> /\ final.id = <<"final">>
        /\ partial.inputs = <<FromSource(SourceId(1))>> /\ partial.exchange \in Exchange
        /\ final.inputs = <<FromStage(<<"partial">>)>> /\ final.exchange \in Exchange
    BY <1>2, StageFields, EmittedExchanges
  <1>4. /\ \A inp \in Elems(partial.inputs) : inp.source = TRUE /\ inp.id = SourceId(1)
        /\ \A inp \in Elems(final.inputs) : inp.source = FALSE /\ inp.id = partial.id
    <2> HIDE DEF partial, final
    <2>1. ReadsSource(partial.inputs, SourceId(1)) /\ ReadsStages(final.inputs, {partial.id})
      BY <1>3, EmittedInputs
    <2> QED
      BY <2>1 DEF ReadsSource, ReadsStages
  <1>5. 1 \in DOMAIN q.tables
    BY DEF IsSeq
  <1>6. partial.id # final.id
    BY <1>3
  <1> HIDE DEF partial, final, g
  <1> DEFINE stages == <<partial, final>>
  <1>7. Len(stages) = 2 /\ stages[1] = partial /\ stages[2] = final /\ g = Graph(q, stages)
    BY <1>1
  <1> HIDE DEF stages
  <1>8. \A i \in 1..Len(stages) : i = 1 \/ (i = 2 /\ 1 \in 1..(i - 1))
    BY <1>7
  <1>9. \A i \in 1..Len(stages) : \A inp \in Elems(stages[i].inputs) :
            IF inp.source THEN \E k \in DOMAIN q.tables : inp.id = SourceId(k)
            ELSE \E j \in 1..(i - 1) : inp.id = stages[j].id
    BY <1>4, <1>5, <1>7, <1>8
  <1>10. \A i, j \in 1..Len(stages) : stages[i].id = stages[j].id => i = j
    BY <1>6, <1>7, <1>8
  <1>11. \A i \in 1..Len(stages) : stages[i].exchange \in Exchange
    BY <1>3, <1>7, <1>8
  <1>12. WellFormed(g)
    BY <1>1, <1>7, <1>9, <1>10, <1>11, WellFormedStages
  <1> QED
    BY <1>12 DEF g

\* The source of a registered table.
LEMMA SourceFound ==
    ASSUME NEW q, IsSeq(q.tables), NEW table \in Elems(q.tables)
    PROVE  \E k \in DOMAIN q.tables : SourceOf(q, table) = SourceId(k)
  <1> DEFINE N == {i \in DOMAIN q.tables : q.tables[i] = table}
  <1>1. DOMAIN q.tables = 1..Len(q.tables) /\ Len(q.tables) \in Nat
    BY DEF IsSeq
  <1>2. N # {} /\ N \in SUBSET (1..Len(q.tables))
    BY <1>1 DEF Elems
  <1>3. IsFiniteSet(1..Len(q.tables))
    BY <1>1, FS_Interval
  <1> HIDE DEF N
  <1>4. IsFiniteSet(N)
    BY ONLY <1>2, <1>3, FS_Subset
  <1>5. N \in SUBSET Int
    BY ONLY <1>1, <1>2
  <1>6. Max(N) \in N
    BY <1>2, <1>4, <1>5, MaxOfFinite
  <1> QED
    BY <1>6 DEF SourceOf, N

\* The graph of a join.
LEMMA JoinWellFormed ==
    ASSUME NEW q, IsSeq(q.tables), NumBuckets \in Nat \ {0, 1},
           NEW join, join = FindJoin(q.plan),
           Leaf(join.left).table # Leaf(join.right).table,
           {Leaf(join.left).table, Leaf(join.right).table} \subseteq Elems(q.tables)
    PROVE  WellFormed(EmitJoin(q))
  <1> DEFINE tl == Leaf(join.left).table
             tr == Leaf(join.right).table
             l == EmitScan(q, tl, join.on[1][1])
             r == EmitScan(q, tr, join.on[1][2])
             s == StageOf(<<"join">>, <<FromStage(l.id), FromStage(r.id)>>, Pipeline, <<>>, UserSql(q.plan))
             g == EmitJoin(q)
  <1>1. IsGraph(g) /\ g = Graph(q, <<l, r, s>>)
    BY JoinGraph DEF EmitJoin
  <1>2. ASSUME NEW table \in Elems(q.tables), NEW key
        PROVE  LET scan == EmitScan(q, table, key)
               IN  /\ scan.id = <<"scan", table>> /\ scan.exchange \in Exchange
                   /\ scan.inputs = <<FromSource(SourceOf(q, table))>>
    <2>1. HashShuffle(<<key>>) \in Exchange
      <3>1. Len(<<key>>) \in Nat \ {0}
        OBVIOUS
      <3> QED
        BY <3>1, EmittedExchanges
    <2> QED
      BY <2>1, StageFields DEF EmitScan
  <1>3. ASSUME NEW table \in Elems(q.tables), NEW key
        PROVE  \A inp \in Elems(EmitScan(q, table, key).inputs) :
                  inp.source = TRUE /\ \E k \in DOMAIN q.tables : inp.id = SourceId(k)
    <2> DEFINE inputs == EmitScan(q, table, key).inputs
    <2>1. inputs = <<FromSource(SourceOf(q, table))>>
      BY <1>2
    <2> HIDE DEF inputs
    <2>2. ReadsSource(inputs, SourceOf(q, table))
      BY <2>1, EmittedInputs
    <2>3. \E k \in DOMAIN q.tables : SourceOf(q, table) = SourceId(k)
      BY SourceFound
    <2>4. \A inp \in Elems(inputs) : inp.source = TRUE /\ \E k \in DOMAIN q.tables : inp.id = SourceId(k)
      BY <2>2, <2>3 DEF ReadsSource
    <2> QED
      BY <2>4 DEF inputs
  <1>4. /\ s.id = <<"join">> /\ s.exchange \in Exchange
        /\ s.inputs = <<FromStage(l.id), FromStage(r.id)>>
    <2> HIDE DEF l, r
    <2> QED
      BY StageFields, EmittedExchanges
  <1>5. \A inp \in Elems(s.inputs) : inp.source = FALSE /\ inp.id \in {l.id, r.id}
    <2> HIDE DEF l, r, s
    <2>1. ReadsStages(s.inputs, {l.id, r.id})
      BY <1>4, EmittedInputs
    <2> QED
      BY <2>1 DEF ReadsStages
  <1>6. l.id = <<"scan", tl>> /\ r.id = <<"scan", tr>> /\ l.exchange \in Exchange /\ r.exchange \in Exchange
    BY <1>2
  <1>7. /\ \A inp \in Elems(l.inputs) :
              inp.source = TRUE /\ \E k \in DOMAIN q.tables : inp.id = SourceId(k)
        /\ \A inp \in Elems(r.inputs) :
              inp.source = TRUE /\ \E k \in DOMAIN q.tables : inp.id = SourceId(k)
    <2>1. tl \in Elems(q.tables) /\ tr \in Elems(q.tables)
      OBVIOUS
    <2> HIDE DEF tl, tr
    <2> QED
      BY <1>3, <2>1
  <1>8. tl # tr
    OBVIOUS
  <1> HIDE DEF l, r, s, g, tl, tr
  <1>9. l.id # r.id /\ l.id # s.id /\ r.id # s.id
    BY <1>4, <1>6, <1>8
  <1> DEFINE stages == <<l, r, s>>
  <1>10. Len(stages) = 3 /\ stages[1] = l /\ stages[2] = r /\ stages[3] = s /\ g = Graph(q, stages)
    BY <1>1
  <1> HIDE DEF stages
  <1>11. \A i \in 1..Len(stages) : i = 1 \/ i = 2 \/ (i = 3 /\ 1 \in 1..(i - 1) /\ 2 \in 1..(i - 1))
    BY <1>10
  <1>12. \A i \in 1..Len(stages) : \A inp \in Elems(stages[i].inputs) :
            IF inp.source THEN \E k \in DOMAIN q.tables : inp.id = SourceId(k)
            ELSE \E j \in 1..(i - 1) : inp.id = stages[j].id
    BY <1>5, <1>7, <1>10, <1>11
  <1>13. \A i, j \in 1..Len(stages) : stages[i].id = stages[j].id => i = j
    BY <1>9, <1>10, <1>11
  <1>14. \A i \in 1..Len(stages) : stages[i].exchange \in Exchange
    BY <1>4, <1>6, <1>10, <1>11
  <1>15. WellFormed(g)
    BY <1>1, <1>10, <1>12, <1>13, <1>14, WellFormedStages
  <1> QED
    BY <1>15 DEF g

-----------------------------------------------------------------------------
(* What is refused *)

\* A query compiles when the compiler's own checks and those of what it constructs
\* let it.
LEMMA CompiledWhen ==
    ASSUME NEW q
    PROVE  Compile(q) # Refusal <=> Compiles(q) /\ WellFormed(Emitted(q))
  <1>1. Refusal.stages = <<>>
    BY DEF Refusal
  <1>2. WellFormed(Emitted(q)) => Emitted(q).stages # <<>>
    BY DEF WellFormed, Validate
  <1> QED
    BY <1>1, <1>2 DEF Compile

\* The documented rule about subqueries, by what the compiler looks at.
LEMMA SubqueryFree ==
    ASSUME NEW plan
    PROVE  FreeOfSubqueries(plan)
             <=> /\ ProjectionSafe(plan)
                 /\ \A i \in DOMAIN plan : plan[i].node = "Filter" => ~ContainsSubquery(plan[i].predicate)
  BY DEF FreeOfSubqueries, Subquery, ProjectionSafe, ContainsSubquery

\* The predicates that are looked at on the way to a scan are all that there are.
LEMMA FiltersLookedAt ==
    ASSUME NEW plan, IsPlan(plan), NEW i \in 1..Len(plan),
           \A j \in 1..(i - 1) : plan[j].node # "Filter"
    PROVE  ReachesScan(plan, i) /\ ProjectionSafe(plan)
             <=> OnlyFilters(plan, i) /\ FreeOfSubqueries(plan)
  <1> DEFINE n == Len(plan)
             Safe(j) == ~ContainsSubquery(plan[j].predicate)
  <1>1. DOMAIN plan = 1..n /\ n \in Nat
    BY DEF IsPlan, IsSeq
  <1>2. OnlyFilters(plan, i) =>
           ((\A j \in i..(n - 1) : Safe(j)) <=> (\A j \in DOMAIN plan : plan[j].node = "Filter" => Safe(j)))
    <2> SUFFICES ASSUME OnlyFilters(plan, i)
                 PROVE  (\A j \in i..(n - 1) : Safe(j))
                          <=> (\A j \in DOMAIN plan : plan[j].node = "Filter" => Safe(j))
      OBVIOUS
    <2>1. \A j \in i..(n - 1) : j \in DOMAIN plan /\ plan[j].node = "Filter"
      BY <1>1 DEF OnlyFilters
    <2>2. plan[n].node = "TableScan"
      BY DEF OnlyFilters, Leaf
    <2>3. \A j \in DOMAIN plan : plan[j].node = "Filter" => j \in i..(n - 1)
      BY <1>1, <2>2
    <2> HIDE DEF Safe
    <2> QED
      BY <2>1, <2>3
  <1> QED
    BY <1>2, ReachesScanIs, SubqueryFree

\* _extract_output_columns and the look-up of the columns let an item through when
\* it is a key or an aggregate.
LEMMA ItemLetThrough ==
    ASSUME NEW node, GroupKeysExtracted(node), NEW item, DescribedItem(item, node)
    PROVE  /\ OutputExtracted(item)
           /\ \/ OutputColumn(item).kind = "column"
              \/ AggregatesNamed(node, OutputColumn(item).key) # {}
           <=> item.expr.name \in {g.name : g \in Elems(node.keys)}
                                    \cup {SchemaName(a) : a \in Elems(node.aggs)}
  <1> DEFINE name == item.expr.name
             keys == {g.name : g \in Elems(node.keys)}
             aggs == {SchemaName(a) : a \in Elems(node.aggs)}
             column == OutputColumn(item)
             N == AggregatesNamed(node, column.key)
             Through == /\ OutputExtracted(item)
                        /\ column.kind = "column" \/ N # {}
  <1>1. /\ Len(name) = 1 => name = <<name[1]>>
        /\ item.expr.variant = "Column" => name \in keys \cup aggs
        /\ name \in keys => item.expr \in Elems(node.keys) /\ (item.aliases = <<>> \/ Len(item.aliases) = 1)
        /\ name \in aggs => item.expr.variant \in {"Column", "AggregateFunction"}
    BY DEF DescribedItem, Plain
  <1>2. \A key : AggregatesNamed(node, key) # {} <=> key \in aggs
    BY DEF AggregatesNamed, Elems
  <1>3. ASSUME column.kind = "column"
        PROVE  name \in keys \cup aggs
    <2>1. item.expr.variant = "Column"
      BY <1>3 DEF OutputColumn
    <2> QED
      BY <1>1, <2>1
  <1>4. ASSUME N # {}
        PROVE  name \in keys \cup aggs
    <2>1. column.key \in aggs
      BY <1>2, <1>4
    <2>2. PICK a \in Elems(node.aggs) : SchemaName(a) = column.key
      BY <2>1
    <2>3. column.key = name
      BY <1>1, <2>2, AggregateNames
    <2> QED
      BY <2>1, <2>3
  <1>5. ASSUME name \in keys
        PROVE  Through
    <2>1. item.expr.variant = "Column"
      BY <1>1, <1>5 DEF GroupKeysExtracted
    <2>2. column.kind = "column"
      BY <1>1, <1>5, <2>1 DEF OutputColumn
    <2> QED
      BY <2>1, <2>2 DEF OutputExtracted
  <1>6. ASSUME name \in aggs
        PROVE  Through
    <2>1. OutputExtracted(item)
      BY <1>1, <1>6 DEF OutputExtracted
    <2>2. Len(name) # 1
      <3>1. PICK a \in Elems(node.aggs) : SchemaName(a) = name
        BY <1>6
      <3>2. Len(SchemaName(a)) = 4
        BY DEF SchemaName
      <3> QED
        BY <3>1, <3>2
    <2>3. column.key = name
      BY <2>2 DEF OutputColumn, Qualified
    <2>4. N # {}
      BY <1>2, <1>6, <2>3
    <2> QED
      BY <2>1, <2>4
  <1>7. Through <=> name \in keys \cup aggs
    <2> HIDE DEF keys, aggs, N, column
    <2>1. Through => name \in keys \cup aggs
      BY <1>3, <1>4
    <2>2. name \in keys \cup aggs => Through
      BY <1>5, <1>6
    <2> QED
      BY <2>1, <2>2
  <1> QED
    BY <1>7

\* The aggregates that are taken apart are those that can be combined.
LEMMA AggregatesLetThrough ==
    ASSUME NEW node, \A a \in Elems(node.aggs) : DescribedAggregate(a)
    PROVE  AggregatesExtracted(node) <=> \A a \in Elems(node.aggs) : CombinableAggregate(a)
  <1>1. DOMAIN Combine = {"sum", "count", "min", "max"}
    BY DEF Combine
  <1> QED
    BY <1>1 DEF AggregatesExtracted, CombinableAggregate, DescribedAggregate, Plain

\* The checks on an aggregate query, all together.
LEMMA AggregateLetThrough ==
    ASSUME NEW plan, plan[1].node = "Projection",
           \A a \in Elems(plan[2].aggs) : DescribedAggregate(a),
           \A item \in Elems(plan[1].items) : DescribedItem(item, plan[2])
    PROVE  /\ GroupKeysExtracted(plan[2]) /\ AggregatesExtracted(plan[2])
           /\ \A item \in Elems(plan[1].items) :
                 /\ OutputExtracted(item)
                 /\ \/ OutputColumn(item).kind = "column"
                    \/ AggregatesNamed(plan[2], OutputColumn(item).key) # {}
           <=> SupportedAggregate(plan)
  <1> DEFINE node == plan[2]
             Named(item) == item.expr.name \in {g.name : g \in Elems(node.keys)}
                                                 \cup {SchemaName(a) : a \in Elems(node.aggs)}
             Through(item) == /\ OutputExtracted(item)
                              /\ \/ OutputColumn(item).kind = "column"
                                 \/ AggregatesNamed(node, OutputColumn(item).key) # {}
  <1>1. SupportedAggregate(plan)
          <=> /\ GroupKeysExtracted(node)
              /\ \A a \in Elems(node.aggs) : CombinableAggregate(a)
              /\ \A item \in Elems(plan[1].items) : Named(item)
    BY DEF SupportedAggregate, GroupKeysExtracted, Plain
  <1>2. GroupKeysExtracted(node) => \A item \in Elems(plan[1].items) : Through(item) <=> Named(item)
    BY ItemLetThrough
  <1>3. AggregatesExtracted(node) <=> \A a \in Elems(node.aggs) : CombinableAggregate(a)
    BY AggregatesLetThrough
  <1> HIDE DEF Named, node
  <1>4. GroupKeysExtracted(node) /\ AggregatesExtracted(node) /\ (\A item \in Elems(plan[1].items) : Through(item))
          <=> SupportedAggregate(plan)
    <2> HIDE DEF Through
    <2> QED
      BY <1>1, <1>2, <1>3
  <1> QED
    BY <1>4 DEF node

\* A side that is described is a bare table exactly when the compiler finds a scan
\* under it.
LEMMA JoinLetThrough ==
    ASSUME NEW q, IsPlan(q.plan), q.plan[1].node = "Projection", q.plan[2].node = "Join",
           NEW join, join = q.plan[2], ~join.residual,
           \A side \in {join.left, join.right} : DescribedSide(q, side)
    PROVE  JoinCompiles(q) <=> SupportedJoin(join)
  <1>1. FindJoin(q.plan) = join
    BY JoinFound
  <1>2. ASSUME NEW side \in {join.left, join.right}
        PROVE  /\ ScanUnder(side) <=> BareTable(side)
               /\ ScanUnder(side) => Leaf(side).table \in Elems(q.tables)
    BY DEF DescribedSide, ScanUnder, BareTable, Registered
  <1>3. JoinCompiles(q)
          <=> /\ join.type = "Inner" /\ Len(join.on) = 1
              /\ Plain(join.on[1][1]) /\ Plain(join.on[1][2])
              /\ ScanUnder(join.left) /\ ScanUnder(join.right)
              /\ Leaf(join.left).table # Leaf(join.right).table
              /\ {Leaf(join.left).table, Leaf(join.right).table} \subseteq Elems(q.tables)
    BY <1>1 DEF JoinCompiles, KeyNamed, Plain
  <1>4. SupportedJoin(join)
          <=> /\ join.type = "Inner" /\ Len(join.on) = 1
              /\ Plain(join.on[1][1]) /\ Plain(join.on[1][2])
              /\ ScanUnder(join.left) /\ ScanUnder(join.right)
              /\ Leaf(join.left).table # Leaf(join.right).table
    BY <1>2 DEF SupportedJoin
  <1>5. ScanUnder(join.left) => Leaf(join.left).table \in Elems(q.tables)
    BY <1>2
  <1>6. ScanUnder(join.right) => Leaf(join.right).table \in Elems(q.tables)
    BY <1>2
  <1> QED
    BY <1>3, <1>4, <1>5, <1>6

\* The compiler's own checks let a described query through when it is documented.
LEMMA CompilesWhen ==
    ASSUME NEW q, Described(q)
    PROVE  Compiles(q) <=> Documented(q)
  <1> DEFINE plan == q.plan
             n == Len(plan)
  <1>1. CASE plan[1].node # "Projection"
    BY <1>1 DEF Compiles, Documented
  <1>2. CASE plan[1].node = "Projection"
    <2>1. IsPlan(plan) /\ n \in Nat /\ 2 \in 1..n /\ DOMAIN plan = 1..n
      BY <1>2, SecondNode DEF Described
    <2>2. \A i \in 1..n : plan[i].node \in {"TableScan", "Join"} <=> i = n
      BY <1>2, <2>1, SecondNode
    <2>3. OnlyFilters(plan, 2) => plan[2].node \in {"Filter", "TableScan"}
      <3> SUFFICES ASSUME OnlyFilters(plan, 2) PROVE plan[2].node \in {"Filter", "TableScan"}
        OBVIOUS
      <3>1. CASE 2 = n
        BY <3>1 DEF OnlyFilters, Leaf
      <3>2. CASE 2 # n
        <4>1. 2 \in 2..(n - 1)
          <5> HIDE DEF n
          <5> QED
            BY <2>1, <3>2
        <4> QED
          BY <4>1 DEF OnlyFilters
      <3> QED
        BY <3>1, <3>2
    <2>4. CASE plan[2].node = "Join"
      <3> DEFINE join == plan[2]
      <3>1. ~join.residual /\ \A side \in {join.left, join.right} : DescribedSide(q, side)
        BY <2>4 DEF Described
      <3>2. JoinCompiles(q) <=> SupportedJoin(join)
        BY <1>2, <2>1, <2>4, <3>1, JoinLetThrough
      <3>3. \A i \in DOMAIN plan : plan[i].node # "Filter"
        <4>1. n = 2
          BY <2>1, <2>2, <2>4
        <4>2. \A i \in DOMAIN plan : i = 1 \/ i = 2
          BY <2>1, <4>1
        <4> QED
          BY <1>2, <2>4, <4>2
      <3>4. FreeOfSubqueries(plan) <=> ProjectionSafe(plan)
        BY <3>3, SubqueryFree
      <3> QED
        BY <1>2, <2>3, <2>4, <3>2, <3>4 DEF Compiles, Documented
    <2>5. CASE plan[2].node = "Aggregate"
      <3>1. 3 \in 1..n
        BY <2>1, <2>2, <2>5
      <3>2. \A j \in 1..(3 - 1) : plan[j].node # "Filter"
        <4>1. \A j \in 1..(3 - 1) : j = 1 \/ j = 2
          OBVIOUS
        <4> QED
          BY <1>2, <2>5, <4>1
      <3>3. ReachesScan(plan, 3) /\ ProjectionSafe(plan) <=> OnlyFilters(plan, 3) /\ FreeOfSubqueries(plan)
        BY <2>1, <3>1, <3>2, FiltersLookedAt
      <3> DEFINE Parts3 == /\ GroupKeysExtracted(plan[2]) /\ AggregatesExtracted(plan[2])
                           /\ \A item \in Elems(plan[1].items) :
                                 /\ OutputExtracted(item)
                                 /\ \/ OutputColumn(item).kind = "column"
                                    \/ AggregatesNamed(plan[2], OutputColumn(item).key) # {}
      <3>4. Parts3 <=> SupportedAggregate(plan)
        <4>1. /\ \A a \in Elems(plan[2].aggs) : DescribedAggregate(a)
              /\ \A item \in Elems(plan[1].items) : DescribedItem(item, plan[2])
          BY <1>2, <2>5 DEF Described
        <4> QED
          BY <1>2, <4>1, AggregateLetThrough
      <3>5. AggregateCompiles(q) <=> ReachesScan(plan, 3) /\ Parts3 /\ Leaf(plan).table = q.tables[1]
        BY DEF AggregateCompiles
      <3>6. OnlyFilters(plan, 3) /\ Len(q.tables) = 1 => Leaf(plan).table = q.tables[1]
        <4> SUFFICES ASSUME OnlyFilters(plan, 3), Len(q.tables) = 1
                     PROVE  Leaf(plan).table = q.tables[1]
          OBVIOUS
        <4>1. Leaf(plan).table \in Elems(q.tables) /\ IsSeq(q.tables)
          BY DEF Described, Registered, OnlyFilters
        <4>2. DOMAIN q.tables = {1}
          BY <4>1 DEF IsSeq
        <4> QED
          BY <4>1, <4>2 DEF Elems
      <3> HIDE DEF Parts3
      <3>7. Compiles(q) <=> ProjectionSafe(plan) /\ AggregateCompiles(q) /\ Len(q.tables) = 1
        BY <1>2, <2>5 DEF Compiles
      <3>8. Documented(q) <=> /\ FreeOfSubqueries(plan) /\ OnlyFilters(plan, 3)
                              /\ SupportedAggregate(plan) /\ Len(q.tables) = 1
        BY <1>2, <2>3, <2>5 DEF Documented
      <3> QED
        BY <3>3, <3>4, <3>5, <3>6, <3>7, <3>8
    <2>6. CASE plan[2].node \notin {"Join", "Aggregate"}
      <3>1. \A j \in 1..(2 - 1) : plan[j].node # "Filter"
        <4>1. \A j \in 1..(2 - 1) : j = 1
          OBVIOUS
        <4> QED
          BY <1>2, <4>1
      <3>2. ReachesScan(plan, 2) /\ ProjectionSafe(plan) <=> OnlyFilters(plan, 2) /\ FreeOfSubqueries(plan)
        BY <2>1, <3>1, FiltersLookedAt
      <3> QED
        BY <1>2, <2>3, <2>6, <3>2 DEF Compiles, Documented
    <2> QED
      BY <2>4, <2>5, <2>6
  <1> QED
    BY <1>1, <1>2

\* What the constructors and validate() say never refuses what the checks let
\* through.
LEMMA CompilesWellFormed ==
    ASSUME NEW q, Described(q), NumBuckets \in Nat \ {0, 1}, Compiles(q)
    PROVE  WellFormed(Emitted(q))
  <1>1. IsSeq(q.tables) /\ IsPlan(q.plan) /\ q.plan[1].node = "Projection"
    BY DEF Described, Compiles
  <1>2. CASE q.plan[2].node = "Join"
    <2>1. JoinCompiles(q)
      BY <1>2 DEF Compiles
    <2> DEFINE join == FindJoin(q.plan)
    <2>2. /\ Leaf(join.left).table # Leaf(join.right).table
          /\ {Leaf(join.left).table, Leaf(join.right).table} \subseteq Elems(q.tables)
      BY <2>1 DEF JoinCompiles
    <2> HIDE DEF join
    <2>3. WellFormed(EmitJoin(q))
      BY <1>1, <2>2, JoinWellFormed DEF join
    <2> QED
      BY <1>2, <2>3 DEF Emitted
  <1>3. CASE q.plan[2].node = "Aggregate"
    <2>1. GroupKeysExtracted(q.plan[2]) /\ Len(q.tables) = 1
      BY <1>3 DEF Compiles, AggregateCompiles
    <2>2. IsSeq(q.plan[2].keys) /\ q.plan[2].keys # <<>>
      BY <1>3, <2>1 DEF Described, GroupKeysExtracted
    <2> QED
      BY <1>1, <1>3, <2>1, <2>2, AggregateWellFormed DEF Emitted
  <1>4. CASE q.plan[2].node \notin {"Join", "Aggregate"}
    <2>1. Len(q.tables) = 1
      BY <1>4 DEF Compiles
    <2> QED
      BY <1>1, <1>4, <2>1, PassthroughWellFormed DEF Emitted
  <1> QED
    BY <1>2, <1>3, <1>4

\* compile_sql compiles what docs/limitations.md says is supported and refuses what
\* it says is rejected, for any described queries and any number of buckets that
\* an exchange can have.  Not described are the queries of findings 3 to 5, which are
\* compiled and not supported, and joins with a condition beside the key pair, which
\* are compiled and not spoken of.
THEOREM RefusesExactlyDocumentedAlways ==
    NumBuckets \in Nat \ {0, 1} => (Spec => []RefusesExactlyDocumented)
  <1> SUFFICES ASSUME NumBuckets \in Nat \ {0, 1}
               PROVE  Spec => []RefusesExactlyDocumented
    OBVIOUS
  <1>1. QueryInv => RefusesExactlyDocumented
    <2> SUFFICES ASSUME QueryInv, from = "compiler", Described(query)
                 PROVE  graph # Refusal <=> Documented(query)
      BY DEF RefusesExactlyDocumented
    <2>1. query \in Queries /\ graph = Compile(query)
      BY DEF QueryInv
    <2>2. Compiles(query) <=> Documented(query)
      BY CompilesWhen
    <2>3. Compiles(query) => WellFormed(Emitted(query))
      BY CompilesWellFormed
    <2> QED
      BY <2>1, <2>2, <2>3, CompiledWhen
  <1> QED
    BY <1>1, QueryInvAlways, PTL
=============================================================================
