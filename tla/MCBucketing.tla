----------------------------- MODULE MCBucketing -----------------------------
(***************************************************************************)
(* The width policy over growing sources: the metadata of a table gains a  *)
(* data file of some rows at a time, and the policy is computed afresh.    *)
(***************************************************************************)
EXTENDS Bucketing

CONSTANTS
    MaxRows,     \* bound: the rows that arrive
    MaxFiles,    \* bound: the data files that arrive
    MaxBuckets,  \* bound: the caps tried
    MaxTarget    \* bound: the targets tried

ASSUME MCAssumption == {MaxRows, MaxFiles, MaxBuckets, MaxTarget} \subseteq Nat

VARIABLES policy, meta

vars == <<policy, meta>>

SmallPolicies ==
    {p \in [strategy : Strategy, num_buckets : 1..MaxBuckets,
            target_rows_per_bucket : 1..MaxTarget,
            target_bytes_per_bucket : 1..MaxTarget] :
        \/ p.strategy = "rows"  /\ p.target_bytes_per_bucket = 1
        \/ p.strategy = "bytes" /\ p.target_rows_per_bucket = 1
        \/ p.target_rows_per_bucket = 1 /\ p.target_bytes_per_bucket = 1}

Init ==
    /\ policy \in SmallPolicies
    /\ meta = [rows |-> 0, bytes |-> 0, partitions |-> 0]

\* A data file of n rows arrives; a row is two bytes.
Arrive(n) ==
    /\ meta.rows + n <= MaxRows
    /\ meta.partitions < MaxFiles
    /\ meta' = AddMetadata(meta, [rows |-> n, bytes |-> 2 * n, partitions |-> 1])
    /\ UNCHANGED policy

\* A data file arrives at a source whose connector has no estimator.
ArriveUnknown ==
    /\ meta.partitions < MaxFiles
    /\ meta' = AddMetadata(meta, [rows |-> NoEstimate, bytes |-> NoEstimate, partitions |-> 1])
    /\ UNCHANGED policy

Next == (\E n \in 0..MaxRows : Arrive(n)) \/ ArriveUnknown

Spec == Init /\ [][Next]_vars

-----------------------------------------------------------------------------

Width == Compute(policy, meta)

\* The load that the strategy spreads, and the most one bucket should carry.
Load ==
    CASE policy.strategy = "rows"  -> meta.rows
      [] policy.strategy = "bytes" -> meta.bytes
      [] OTHER                     -> meta.partitions
Target ==
    CASE policy.strategy = "rows"  -> policy.target_rows_per_bucket
      [] policy.strategy = "bytes" -> policy.target_bytes_per_bucket
      [] OTHER                     -> 1

\* An adaptive width is the least number of buckets that keeps every bucket at
\* its target, or the cap when that many are not allowed; never zero, even for
\* a table without rows or without data files.
LeastWidthThatFits ==
    policy.strategy # "static" =>
        /\ Width \in 1..policy.num_buckets
        /\ Width * Target >= Load \/ Width = policy.num_buckets
        /\ \A w \in 1..(Width - 1) : w * Target < Load

\* A source that grows never narrows the shuffle.
NeverNarrower == [][Compute(policy', meta') >= Compute(policy, meta)]_vars
=============================================================================
