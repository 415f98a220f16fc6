---------------------------- MODULE BucketingProofs ----------------------------
(***************************************************************************)
(* The width that a BucketingPolicy computes, for every policy, any target *)
(* and any metadata, and how it moves as the sources grow.                 *)
(***************************************************************************)
EXTENDS MCBucketing, ShuffleProofs

-----------------------------------------------------------------------------
(* Arithmetic *)

\* Multiplying keeps an order.
LEMMA TimesMonotone ==
    ASSUME NEW a \in Int, NEW b \in Int, NEW d \in Nat, a <= b
    PROVE  a * d <= b * d
  OBVIOUS

\* The quotient, rounded up, is the least that reaches n.
LEMMA CeilDivLeast ==
    ASSUME NEW n \in Nat, NEW d \in Nat \ {0}, NEW w \in Nat, w < CeilDiv(n, d)
    PROVE  w * d < n
  <1> DEFINE q == CeilDiv(n, d)
  <1>1. q \in Nat /\ q * d < n + d
    BY CeilDivBounds
  <1>2. (w + 1) * d <= q * d
    BY <1>1, TimesMonotone
  <1>3. (w + 1) * d = w * d + d
    OBVIOUS
  <1>4. w * d \in Int /\ q * d \in Int
    BY <1>1
  <1> QED
    BY <1>1, <1>2, <1>3, <1>4

\* Rounding up is monotone in the load.
LEMMA CeilDivMonotone ==
    ASSUME NEW n \in Nat, NEW m \in Nat, n <= m, NEW d \in Nat \ {0}
    PROVE  CeilDiv(n, d) <= CeilDiv(m, d)
  <1>1. CeilDiv(n, d) \in Nat /\ CeilDiv(m, d) \in Nat /\ CeilDiv(m, d) * d >= m
    BY CeilDivBounds
  <1>2. SUFFICES ASSUME CeilDiv(m, d) < CeilDiv(n, d)
                 PROVE  FALSE
    BY <1>1
  <1>3. CeilDiv(m, d) * d < n
    BY <1>1, <1>2, CeilDivLeast
  <1>4. CeilDiv(m, d) * d \in Int
    BY <1>1
  <1> QED
    BY <1>1, <1>3, <1>4

-----------------------------------------------------------------------------
(* One width *)

\* Under an adaptive strategy the width before clamping is the load of that
\* strategy over its target, rounded up.
LEMMA BaseWidthIsCeil ==
    ASSUME policy \in BucketingPolicy, meta \in Metadata, policy.strategy # "static"
    PROVE  /\ Load \in Nat /\ Target \in Nat \ {0} /\ policy.num_buckets \in Nat \ {0}
           /\ BaseWidth(policy, meta) = CeilDiv(Load, Target)
  <1>1. meta.rows \in Nat /\ meta.bytes \in Nat /\ meta.partitions \in Nat
    BY DEF Metadata
  <1>2. /\ policy.target_rows_per_bucket \in Nat \ {0}
        /\ policy.target_bytes_per_bucket \in Nat \ {0}
        /\ policy.num_buckets \in Nat \ {0}
        /\ policy.strategy \in {"rows", "bytes", "partitions"}
    BY DEF BucketingPolicy, Strategy
  <1>3. OrZero(meta.rows) = meta.rows /\ OrZero(meta.bytes) = meta.bytes
    BY <1>1 DEF OrZero, NoEstimate
  <1>4. CeilDiv(meta.partitions, 1) = meta.partitions
    BY <1>1 DEF CeilDiv
  <1> QED
    BY <1>1, <1>2, <1>3, <1>4 DEF Load, Target, BaseWidth

Clamped(load, target, cap) == Greater(1, Lesser(CeilDiv(load, target), cap))

\* Clamping to 1..cap the least width that fits.
LEMMA ClampedFits ==
    ASSUME NEW load \in Nat, NEW target \in Nat \ {0}, NEW cap \in Nat \ {0}
    PROVE  /\ Clamped(load, target, cap) \in 1..cap
           /\ \/ Clamped(load, target, cap) * target >= load
              \/ Clamped(load, target, cap) = cap
           /\ \A w \in 1..(Clamped(load, target, cap) - 1) : w * target < load
  <1> DEFINE base  == CeilDiv(load, target)
             width == Clamped(load, target, cap)
  <1>1. base \in Nat /\ base * target >= load
    BY CeilDivBounds
  <1>2. width = IF base <= cap THEN (IF base >= 1 THEN base ELSE 1) ELSE cap
    BY <1>1 DEF Clamped, Lesser, Greater
  <1>3. \A w \in Nat : w < base => w * target < load
    BY CeilDivLeast
  <1> HIDE DEF base, width
  <1>4. width \in 1..cap
    BY <1>1, <1>2
  <1>5. width * target >= load \/ width = cap
    <2>1. CASE width = base
      BY <2>1, <1>1
    <2>2. CASE base = 0
      <3>1. load = 0
        BY <2>2, <1>1
      <3> QED
        BY <3>1, <1>4, TimesMonotone
    <2> QED
      BY <2>1, <2>2, <1>1, <1>2
  <1>6. ASSUME NEW w \in 1..(width - 1)
        PROVE  w * target < load
    <2>1. w \in Nat /\ w < base
      BY <1>1, <1>2, <1>4
    <2> QED
      BY <2>1, <1>3
  <1> QED
    BY <1>4, <1>5, <1>6 DEF width

-----------------------------------------------------------------------------
(* The behaviours *)

TypeInv == policy \in BucketingPolicy /\ meta \in Metadata

\* Adding up estimates, known or not, gives metadata that is no smaller.
LEMMA AddGrows ==
    ASSUME NEW m \in Metadata, NEW rows \in Nat \cup {NoEstimate},
           NEW bytes \in Nat \cup {NoEstimate}, NEW sum,
           sum = AddMetadata(m, [rows |-> rows, bytes |-> bytes, partitions |-> 1])
    PROVE  /\ sum \in Metadata
           /\ m.rows <= sum.rows /\ m.bytes <= sum.bytes /\ m.partitions <= sum.partitions
  <1>1. OrZero(rows) \in Nat /\ OrZero(bytes) \in Nat
    BY DEF OrZero, NoEstimate
  <1>2. m.rows \in Nat /\ m.bytes \in Nat /\ m.partitions \in Nat
    BY DEF Metadata
  <1>3. OrZero(m.rows) = m.rows /\ OrZero(m.bytes) = m.bytes
    BY <1>2 DEF OrZero, NoEstimate
  <1>4. sum = [rows |-> m.rows + OrZero(rows), bytes |-> m.bytes + OrZero(bytes),
               partitions |-> m.partitions + 1]
    BY <1>3 DEF AddMetadata
  <1> QED
    BY <1>1, <1>2, <1>4 DEF Metadata

LEMMA InitTyped == Init => TypeInv
  BY MCAssumption DEF Init, TypeInv, SmallPolicies, BucketingPolicy, Metadata

\* A step leaves the policy alone and takes nothing from the metadata.
LEMMA StepGrows ==
    ASSUME TypeInv, [Next]_vars
    PROVE  /\ TypeInv' /\ policy' = policy
           /\ meta.rows <= meta'.rows /\ meta.bytes <= meta'.bytes
           /\ meta.partitions <= meta'.partitions
  <1>0. policy \in BucketingPolicy /\ meta \in Metadata
    BY DEF TypeInv
  <1>1. ASSUME NEW n \in 0..MaxRows, Arrive(n)
        PROVE  /\ meta' \in Metadata /\ policy' = policy
               /\ meta.rows <= meta'.rows /\ meta.bytes <= meta'.bytes
               /\ meta.partitions <= meta'.partitions
    <2>1. n \in Nat /\ 2 * n \in Nat
      BY MCAssumption
    <2> QED
      BY <1>0, <1>1, <2>1, AddGrows DEF Arrive
  <1>2. ASSUME ArriveUnknown
        PROVE  /\ meta' \in Metadata /\ policy' = policy
               /\ meta.rows <= meta'.rows /\ meta.bytes <= meta'.bytes
               /\ meta.partitions <= meta'.partitions
    BY <1>0, <1>2, AddGrows DEF ArriveUnknown
  <1>3. ASSUME UNCHANGED vars
        PROVE  /\ meta' \in Metadata /\ policy' = policy
               /\ meta.rows <= meta'.rows /\ meta.bytes <= meta'.bytes
               /\ meta.partitions <= meta'.partitions
    BY <1>0, <1>3 DEF vars, Metadata
  <1> QED
    BY <1>0, <1>1, <1>2, <1>3 DEF Next, TypeInv

\* An adaptive width is the least number of buckets that keeps every bucket at
\* its target, or the cap, and never zero (BucketingPolicy.compute): for every
\* policy the constructor accepts with positive targets, and metadata of any
\* size.
THEOREM LeastWidthThatFitsAlways == Spec => []LeastWidthThatFits
  <1>1. TypeInv => LeastWidthThatFits
    <2> SUFFICES ASSUME TypeInv, policy.strategy # "static"
                 PROVE  /\ Width \in 1..policy.num_buckets
                        /\ Width * Target >= Load \/ Width = policy.num_buckets
                        /\ \A w \in 1..(Width - 1) : w * Target < Load
      BY DEF LeastWidthThatFits
    <2>1. policy \in BucketingPolicy /\ meta \in Metadata
      BY DEF TypeInv
    <2>2. Width = Clamped(Load, Target, policy.num_buckets)
      BY <2>1, BaseWidthIsCeil DEF Width, Compute, Clamped
    <2>3. Load \in Nat /\ Target \in Nat \ {0} /\ policy.num_buckets \in Nat \ {0}
      BY <2>1, BaseWidthIsCeil
    <2> QED
      BY <2>2, <2>3, ClampedFits
  <1>2. TypeInv /\ [Next]_vars => TypeInv'
    BY StepGrows
  <1> QED
    BY <1>1, <1>2, InitTyped, PTL DEF Spec

\* A source that grows never narrows the shuffle: compute is monotone in the
\* metadata, whatever the strategy and the cap.
THEOREM NeverNarrowerAlways == Spec => NeverNarrower
  <1>1. TypeInv /\ [Next]_vars => Compute(policy', meta') >= Compute(policy, meta)
    <2> SUFFICES ASSUME TypeInv, [Next]_vars
                 PROVE  Compute(policy', meta') >= Compute(policy, meta)
      OBVIOUS
    <2>1. /\ policy' = policy
          /\ meta.rows <= meta'.rows /\ meta.bytes <= meta'.bytes
          /\ meta.partitions <= meta'.partitions
          /\ policy \in BucketingPolicy /\ meta \in Metadata /\ meta' \in Metadata
      BY StepGrows DEF TypeInv
    <2> DEFINE later == meta'
               cap == policy.num_buckets
    <2> HIDE DEF later
    <2>2. /\ meta.rows <= later.rows /\ meta.bytes <= later.bytes
          /\ meta.partitions <= later.partitions
          /\ meta.rows \in Nat /\ meta.bytes \in Nat /\ meta.partitions \in Nat
          /\ later.rows \in Nat /\ later.bytes \in Nat /\ later.partitions \in Nat
      BY <2>1 DEF later, Metadata
    <2>3. /\ cap \in Nat \ {0} /\ policy.strategy \in Strategy
          /\ policy.target_rows_per_bucket \in Nat \ {0}
          /\ policy.target_bytes_per_bucket \in Nat \ {0}
      BY <2>1 DEF BucketingPolicy
    <2>4. CASE policy.strategy = "static"
      BY <2>4, <2>1, <2>3 DEF Compute
    <2>5. CASE policy.strategy # "static"
      <3>1. /\ OrZero(meta.rows) = meta.rows /\ OrZero(later.rows) = later.rows
            /\ OrZero(meta.bytes) = meta.bytes /\ OrZero(later.bytes) = later.bytes
        BY <2>2 DEF OrZero, NoEstimate
      <3>2. /\ BaseWidth(policy, meta) \in Nat /\ BaseWidth(policy, later) \in Nat
            /\ BaseWidth(policy, meta) <= BaseWidth(policy, later)
        BY <2>2, <2>3, <3>1, CeilDivBounds, CeilDivMonotone DEF BaseWidth, Strategy
      <3>3. Compute(policy, later) >= Compute(policy, meta)
        BY <3>2, <2>3, <2>5 DEF Compute, Greater, Lesser
      <3> QED
        BY <3>3, <2>1 DEF later
    <2> QED
      BY <2>4, <2>5
  <1>2. TypeInv /\ [Next]_vars => TypeInv'
    BY StepGrows
  <1> QED
    BY <1>1, <1>2, InitTyped, PTL DEF Spec, NeverNarrower
=============================================================================
