------------------------------ MODULE MCRoles ------------------------------
(* Instances of Roles for TLC.                                              *)
EXTENDS Roles, TLC

CONSTANTS a, b, c, p, q

S(perms, refs) == [perms |-> perms, refs |-> refs]

(* A cast in which Roles are as in from, and nobody does anything. *)
Still(from) ==
    [from |-> from, plan |-> [n \in {a, b, c} |-> <<>>], reg |-> {p, q},
     regPlan |-> <<>>, legacy |-> {}, faults |-> 0]

Chain == a :> S({}, <<b>>) @@ b :> S({}, <<c>>) @@ c :> S({p}, <<>>)
Cycle == a :> S({}, <<b>>) @@ b :> S({}, <<c>>) @@ c :> S({p, q}, <<a>>)
Diamond == a :> S({}, <<b, c>>) @@ b :> S({p}, <<>>) @@ c :> S({q}, <<>>)

(* What users do to some Roles. *)
Then(plans) == [n \in {a, b, c} |-> IF n \in DOMAIN plans THEN plans[n] ELSE <<>>]

(* Every graph of three Roles, each there or not. *)
Graphs == [{a, b, c} -> {Nowhere} \cup
            {S(ps, refs) : ps \in {{}, {p}}, refs \in {<<>>, <<a>>, <<b>>, <<c>>, <<a, b>>, <<c, b>>, <<c, a>>, <<b, c, a>>}}]

MCCasts ==
    {Still(g) : g \in Graphs}
    \cup
    {\* the far end of a chain gains a permission, which is registered at the same time
     [Still(Chain) EXCEPT !.plan = Then(c :> <<S({p, q}, <<>>)>>), !.reg = {p}, !.regPlan = <<{p, q}>>],
     \* the far end, with tuples of an earlier version, is deleted
     [Still(Chain) EXCEPT !.plan = Then(c :> <<Nowhere>>), !.legacy = {c}, !.faults = 1],
     \* the middle of a chain appears
     [Still([Chain EXCEPT ![b] = Nowhere]) EXCEPT !.plan = Then(b :> <<Chain[b]>>), !.faults = 1],
     \* a registration goes, and a Role in a cycle loses another permission
     [Still(Cycle) EXCEPT !.plan = Then(c :> <<S({p}, <<a>>)>>), !.regPlan = <<{q}>>],
     \* both arms of a diamond lose what they gave
     [Still(Diamond) EXCEPT !.plan = Then(b :> <<S({}, <<>>)>> @@ c :> <<S({}, <<>>)>>)]}
=============================================================================
