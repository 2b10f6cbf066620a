-------------------------- MODULE MCPolicyBindings --------------------------
(* Instances of PolicyBindings for TLC.                                     *)
EXTENDS PolicyBindings

CONSTANTS b1, b2, r1, r2, s1, s2

(* Bindings of different Roles. *)
RolePerBinding == [b \in Bindings |-> IF b = b1 THEN r1 ELSE r2]
(* The first binding names one subject, the second all: they overlap. *)
Overlapping == [b \in Bindings |-> IF b = b1 THEN {s1} ELSE Subjects]
=============================================================================
