------------------------------ MODULE Bucketing ------------------------------
(***************************************************************************)
(* How wide a shuffle is: the static bucket count of a scan stage, and the *)
(* width that a BucketingPolicy computes at run time from the metadata of  *)
(* the sources feeding one consumer stage.                                 *)
(***************************************************************************)
EXTENDS Integers

\* What a source connector without a size estimator reports (Python's None).
NoEstimate == -1

Strategy == {"static", "rows", "bytes", "partitions"}

\* A policy the constructor accepts.  The targets are not validated there; a
\* target of zero makes the planner task raise ZeroDivisionError, so the
\* widths below are defined for positive targets only.
BucketingPolicy ==
    [strategy : Strategy, num_buckets : Nat \ {0},
     target_rows_per_bucket : Nat \ {0}, target_bytes_per_bucket : Nat \ {0}]

\* What a planner observes of one source, or of all the members of a group.
Metadata == [rows : Nat, bytes : Nat, partitions : Nat]

OrZero(n) == IF n = NoEstimate THEN 0 ELSE n

\* Mutant: plain floor division.
FloorDiv(n, d) == n \div d

\* The ceiling of the exact quotient.  The code takes that of a float, math.ceil(a / b),
\* which is the same number while a is below 2^53.
CeilDiv(n, d) == (n + d - 1) \div d

Lesser(m, n)  == IF m <= n THEN m ELSE n
Greater(m, n) == IF m >= n THEN m ELSE n

\* Mutant: the loop over the members keeps the last one's metadata.
LastMetadata(m, n) == n

\* The metadata of two members of one co-partition group, added up.
AddMetadata(m, n) ==
    [rows       |-> OrZero(m.rows) + OrZero(n.rows),
     bytes      |-> OrZero(m.bytes) + OrZero(n.bytes),
     partitions |-> m.partitions + n.partitions]

\* The number of buckets the observed metadata calls for, before clamping.
BaseWidth(policy, m) ==
    CASE policy.strategy = "rows" ->
             CeilDiv(OrZero(m.rows), policy.target_rows_per_bucket)
      [] policy.strategy = "bytes" ->
             CeilDiv(OrZero(m.bytes), policy.target_bytes_per_bucket)
      [] policy.strategy = "partitions" -> m.partitions
      [] OTHER -> policy.num_buckets

\* Mutant: a source without rows is given no bucket.
ComputeUnfloored(policy, m) ==
    IF policy.strategy = "static"
    THEN policy.num_buckets
    ELSE Lesser(BaseWidth(policy, m), policy.num_buckets)

Compute(policy, m) ==
    IF policy.strategy = "static"
    THEN policy.num_buckets
    ELSE Greater(1, Lesser(BaseWidth(policy, m), policy.num_buckets))
=============================================================================
