------------------------------ MODULE MCShuffle ------------------------------
(***************************************************************************)
(* The planner of a join against its definition: rows are added one by one *)
(* to the data files of two tables, and in every state the files that the  *)
(* map side would write are planned, for every width and threshold.        *)
(***************************************************************************)
EXTENDS Shuffle

CONSTANTS
    RowsOf,     \* the rows of each table
    Part,       \* the data files of each table
    MaxWidth,   \* bound: the widest shuffle tried
    MaxThreshold

ASSUME MCAssumption ==
    /\ Query = "join"
    /\ RowsOf \in [Table -> SUBSET Row]
    /\ IsFiniteSet(Part)

VARIABLES
    rows,       \* the rows in each data file of each table
    width,      \* the shuffle width of both scans
    threshold   \* broadcast_threshold

vars == <<rows, width, threshold>>

Placed(t) == UNION {rows[t][i] : i \in Part}

Init ==
    /\ rows = [t \in Table |-> [i \in Part |-> {}]]
    /\ width \in 1..MaxWidth
    /\ threshold \in 0..MaxThreshold

AddRow(t, i) ==
    /\ \E r \in RowsOf[t] \ Placed(t) : rows' = [rows EXCEPT ![t][i] = @ \cup {r}]
    /\ UNCHANGED <<width, threshold>>

Next == \E t \in Table, i \in Part : AddRow(t, i)

Spec == Init /\ [][Next]_vars

-----------------------------------------------------------------------------

Buckets(t, i) == HashPartition(TuplesOf(rows[t][i]), width)

Files == [t \in Table |->
            UNION {{[path |-> <<t, i, b>>, bucket |-> b,
                     rows |-> Cardinality(Buckets(t, i)[b])]
                       : b \in DOMAIN Buckets(t, i)} : i \in Part}]

Content(paths) == UNION {Buckets(p[1], p[2])[p[3]] : p \in paths}

Plan == ChooseJoinStrategy(Files, threshold)

Reduced(b) == SinkSql([t \in Table |-> Content(Plan[b][t])])

\* Whichever strategy is chosen, the reduce instances together produce the
\* inner join of the two tables and no two of them produce the same pair.
JoinPlanCorrect ==
    /\ UNION {Reduced(b) : b \in DOMAIN Plan}
         = Answer([t \in Table |-> Placed(t)])
    /\ \A b, c \in DOMAIN Plan : b # c => Reduced(b) \cap Reduced(c) = {}

\* No reduce instance is given an empty list of files to concatenate.
PlanNeverEmptySided ==
    \A b \in DOMAIN Plan : \A t \in Table : Plan[b][t] # {}

\* A side whose files are read by several reduce instances holds at most
\* threshold rows, and no more than the other side.
ReplicatedSideIsSmall ==
    \A t \in Table :
        (\E b, c \in DOMAIN Plan : b # c /\ Plan[b][t] \cap Plan[c][t] # {})
        => /\ Cardinality(Placed(t)) <= threshold
           /\ \A u \in Table : Cardinality(Placed(t)) <= Cardinality(Placed(u))

MCKey   == {"x", "y", "null"}
MCHashOf == [k \in MCKey |-> CASE k = "x" -> 1 [] k = "y" -> 2 [] OTHER -> 3]
MCRow   == {"a1", "a2", "a3", "b1", "b2", "b3"}
MCRowsOf == [t \in Table |-> IF t = Left THEN {"a1", "a2", "a3"} ELSE {"b1", "b2", "b3"}]
MCKeyOf == [r \in MCRow |->
              CASE r \in {"a1", "b1", "b2"} -> "x" [] r \in {"a2", "b3"} -> "y"
                [] OTHER -> "null"]
=============================================================================
