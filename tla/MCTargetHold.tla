---------------------------- MODULE MCTargetHold ----------------------------
(* Instances of TargetHold for TLC.                                         *)
EXTENDS TargetHold, TLC

CONSTANTS o1, o2, p1, b1, b2, l1, l2, g1

(* Every object hashes to the same lock: the hardest case for progress. *)
OneLock == [o \in Objects |-> l1]

(* Every binding asks for the same grant: they share the target's tuple. *)
SharedGrant == [b \in Bindings |-> g1]

BindingSymmetry == Permutations(Bindings)
=============================================================================
