--------------------------- MODULE MCModelRollout ---------------------------
(* ModelRollout with two casts in one run: two types that share a model, and *)
(* one type whose registration is edited while tuples are written on it.     *)
EXTENDS ModelRollout

CONSTANTS t1, t2

VARIABLE cast

MCInit == Init /\ cast \in {"shared", "edited"}

(* Both are registered, one may go, and nothing is written. *)
Shared ==
    /\ \A t \in Types : pr'[t].gen <= 1
    /\ pr'[t2].st \in {"none", "live"}
    /\ wpc' = "idle"

Edited == pr'[t2] = NoRegistration

MCNext ==
    /\ Next /\ UNCHANGED cast
    /\ cast = "shared" => Shared
    /\ cast = "edited" => Edited

MCSpec == MCInit /\ [][MCNext]_<<vars, cast>> /\ Fairness
=============================================================================
