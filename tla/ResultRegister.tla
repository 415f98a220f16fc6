---------------------------- MODULE ResultRegister ----------------------------
(***************************************************************************)
(* What the Parquet sink promises its readers: results appear whole, one   *)
(* under each name, stay as they are, and the pointer names one of them.   *)
(***************************************************************************)
VARIABLES
    offers,      \* the results that were computed whole, as <<name, contents>>
    results,     \* those that are marked complete, as a reader finds them
    current      \* the name in the pointer, <<>> if there is none

vars == <<offers, results, current>>

Names(S) == {r[1] : r \in S}

Init == offers = {} /\ results = {} /\ current = <<>>

Offer ==
    /\ offers \subseteq offers'
    /\ UNCHANGED <<results, current>>

Publish ==
    /\ \E o \in offers :
           /\ o[1] \notin Names(results)
           /\ results' = results \cup {o}
    /\ UNCHANGED <<offers, current>>

Point ==
    /\ current' \in Names(results)
    /\ UNCHANGED <<offers, results>>

Next == Offer \/ Publish \/ Point

Spec == Init /\ [][Next]_vars
=============================================================================
