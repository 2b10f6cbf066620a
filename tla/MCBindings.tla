----------------------------- MODULE MCBindings -----------------------------
(* PolicyBindings with two casts in one run: two settled bindings that share *)
(* tuples and from which things are only taken away, and a single binding    *)
(* about which everything may change.                                        *)
EXTENDS MCPolicyBindings

VARIABLE cast

MCInit ==
    \/ /\ cast = "settled" /\ Settled /\ flag
       /\ \A r \in Roles : role[r].perms \subseteq {"get"}
    \/ /\ cast = "alone" /\ Init
       /\ role[r1].perms = {}

Taken == OnlyTaken /\ faults' = 0 /\ changes' <= 1 /\ others' = others

Alone == bind'[b1] = NoBinding /\ role'[r1] = role[r1]

MCNext ==
    /\ Next /\ UNCHANGED cast
    /\ cast = "settled" => Taken
    /\ cast = "alone" => Alone

MCSpec == MCInit /\ [][MCNext]_<<vars, cast>> /\ Fairness

(* Bindings that were settled and share tuples may be deleted together: none  *)
(* of those tuples is left without a binding (DeletePolicy, openFGAFinalizer). *)
SettledNoOrphans == cast = "settled" => NoOrphanGrants

(* What is only taken away costs no live binding a tuple (reconcilePolicy,    *)
(* siblingDesiredTuples). *)
SettledGrantsKept == cast = "settled" => SharedGrantsKept

(* The two rest on how sharing and sparing go together (DeletePolicy,         *)
(* siblingDesiredTuples). *)
SettledInv == cast = "settled" => AnsweredFor /\ SparingInv
=============================================================================
