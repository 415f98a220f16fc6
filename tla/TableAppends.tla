----------------------------- MODULE TableAppends -----------------------------
(***************************************************************************)
(* What the Iceberg sink promises its readers: each run appends its whole  *)
(* answer to the table in one step, at most once, and nothing that a       *)
(* snapshot has returned ever changes.                                     *)
(***************************************************************************)
EXTENDS Sequences

CONSTANT Run

VARIABLES
    answer,      \* the partitions of each run's answer, with their rows
    appended,    \* the runs whose answer is in the table
    snapshots    \* what each snapshot of the table added

vars == <<answer, appended, snapshots>>

\* Partitions without rows add no file.
FilesOf(r) == {<<p, answer[r][p]>> : p \in {q \in DOMAIN answer[r] : answer[r][q] # {}}}

Init == appended = {} /\ snapshots = <<>>

AppendAnswer(r) ==
    /\ r \notin appended
    /\ FilesOf(r) # {}
    /\ appended' = appended \cup {r}
    /\ snapshots' = Append(snapshots, FilesOf(r))
    /\ UNCHANGED answer

Next == \E r \in Run : AppendAnswer(r)

Spec == Init /\ [][Next]_vars
=============================================================================
