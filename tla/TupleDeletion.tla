--------------------------- MODULE TupleDeletion ---------------------------
(***************************************************************************)
(* What a clear relies on when it asks for tuples to be deleted: nothing    *)
(* else is deleted; success means that each of them has been gone at some   *)
(* time since the call; and the call returns. In the meantime, and after    *)
(* it, others may write tuples, and a delete that timed out may still land. *)
(***************************************************************************)
CONSTANTS
    Asked,          \* the tuples to delete
    Foreign         \* tuples that are none of its business

VARIABLES
    stored,         \* the tuples in OpenFGA
    gone,           \* the asked ones the call has seen gone
    result          \* "running", "done" or "failed"

vars == <<stored, gone, result>>

Init ==
    /\ stored \in SUBSET (Asked \cup Foreign)
    /\ gone = {} /\ result = "running"

(* What is seen gone is gone at that time. *)
Remove ==
    /\ \E S \in SUBSET Asked :
        /\ stored' = stored \ S
        /\ gone' \in {gone \cup R : R \in SUBSET S}
    /\ UNCHANGED result

Others ==
    /\ stored' \in {stored \cup {t} : t \in Asked \cup Foreign}
    /\ UNCHANGED <<gone, result>>

Return ==
    /\ result = "running"
    /\ \/ result' = "done" /\ gone = Asked /\ UNCHANGED stored
       \/ result' = "failed" /\ \E S \in SUBSET Asked : stored' = stored \ S
    /\ UNCHANGED gone

Next == Remove \/ Others \/ Return

Spec == Init /\ [][Next]_vars
FairSpec == Spec /\ WF_vars(Return)
=============================================================================
