------------------------------- MODULE QueryRun -------------------------------
(***************************************************************************)
(* What one run of a query promises, whatever DAG executes it: it may      *)
(* publish an answer at most once, the answer is that of the whole query   *)
(* over a version of each table that existed at some time during the run,  *)
(* and it never changes afterwards.                                        *)
(***************************************************************************)
EXTENDS SourceTables

CONSTANT NoAnswer    \* nothing has been published

VARIABLES
    opened,          \* the number of data files of each table when the run began
    answer           \* what the run has published

vars == <<source, opened, answer>>

Init ==
    /\ source \in InitialSources
    /\ opened = [t \in Table |-> Len(source[t])]
    /\ answer = NoAnswer

\* The table versions that have been current since the run began.
VersionsSeen ==
    {v \in [Table -> UNION {opened[t]..Len(source[t]) : t \in Table}] :
        \A t \in Table : v[t] \in opened[t]..Len(source[t])}

RowsAt(v) == [t \in Table |-> RowsIn(SubSeq(source[t], 1, v[t]))]

Publish ==
    /\ answer = NoAnswer
    /\ \E v \in VersionsSeen : answer' = Answer(RowsAt(v))
    /\ UNCHANGED <<source, opened>>

Grow ==
    /\ \E t \in Table : AppendPartition(t)
    /\ UNCHANGED <<opened, answer>>

Next == Publish \/ Grow

Spec == Init /\ [][Next]_vars
=============================================================================
