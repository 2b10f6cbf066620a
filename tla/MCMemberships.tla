--------------------------- MODULE MCMemberships ---------------------------
(* Instances of Memberships for TLC.                                        *)
EXTENDS Memberships, TLC

CONSTANTS u1, a1, g1, m1

(* An object that is not in a cast stays as it is. *)
Cast(times, settled) ==
    [times |-> [o \in {u1, a1, g1, m1} |-> IF o \in DOMAIN times THEN times[o] ELSE 0],
     settled |-> settled]

MCUserOf == [m \in {m1} |-> u1]
MCGroupOf == [m \in {m1} |-> g1]

MCCasts ==
    {Cast(u1 :> 4, {}),                             \* a User returns
     Cast(a1 :> 4, {}),                             \* a ServiceAccount returns
     Cast(m1 :> 4, {u1, g1}),                       \* a GroupMembership returns
     Cast(g1 :> 2 @@ m1 :> 2, {u1, g1}),            \* its Group returns
     Cast(u1 :> 2 @@ m1 :> 2, {u1, g1}),            \* its User returns
     Cast(u1 :> 1 @@ g1 :> 1 @@ m1 :> 1, {})}       \* all three appear, in any order
=============================================================================
