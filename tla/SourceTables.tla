----------------------------- MODULE SourceTables -----------------------------
(***************************************************************************)
(* The source tables as their connectors show them: a list of immutable    *)
(* data files (Iceberg data files, Parquet files), to which other writers  *)
(* may append while a run is under way.                                    *)
(***************************************************************************)
EXTENDS QuerySemantics, Sequences, Integers

CONSTANTS
    TableRows,       \* the rows each table may ever hold
    InitialSources,  \* the contents the tables may start with
    MaxPartitions    \* bound: the data files a table may grow to

VARIABLE source      \* the data files of each table, in the order added

RowsIn(parts) == UNION {parts[i] : i \in 1..Len(parts)}

\* A row is stored once, in one data file of its own table.
IsSource(src) ==
    /\ src \in [Table -> Seq(SUBSET Row)]
    /\ \A t \in Table :
         /\ RowsIn(src[t]) \subseteq TableRows[t]
         /\ \A i, j \in 1..Len(src[t]) :
              i # j => src[t][i] \cap src[t][j] = {}

ASSUME SourceAssumption ==
    /\ TableRows \in [Table -> SUBSET Row]
    /\ Query = "join" => TableRows[Left] \cap TableRows[Right] = {}
    /\ MaxPartitions \in Nat
    /\ \A src \in InitialSources : IsSource(src)

\* Another writer commits one more data file, possibly without rows.
AppendPartition(t) ==
    /\ Len(source[t]) < MaxPartitions
    /\ \E rows \in SUBSET (TableRows[t] \ RowsIn(source[t])) :
         source' = [source EXCEPT ![t] = Append(@, rows)]
=============================================================================
