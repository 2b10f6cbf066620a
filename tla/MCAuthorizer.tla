---------------------------- MODULE MCAuthorizer ----------------------------
(* Instances of Authorizer for TLC.                                         *)
EXTENDS Authorizer, TLC

CONSTANTS O, P, W, X, ko, kp, kw, kx, u

MCHash(p) == <<"#", p>>

(* A registration, of permissions of the resource and of its status. *)
R(type, key, verbs, parents) ==
    [type |-> type, key |-> key, perms |-> verbs, parents |-> parents, deleting |-> FALSE]
Get == <<Base, "get">>
List == <<Base, "list">>
GetStatus == <<"status", "get">>

Org == R(O, ko, {Get}, {})
Prj == R(P, kp, {Get}, {O})
Wid == R(W, kw, {Get, List, GetStatus}, {P})
Ext == R(X, kx, {Get}, {P})

Four(a, b, c, d) == 1 :> a @@ 2 :> b @@ 3 :> c @@ 4 :> d
NoPlan == [n \in 1..4 |-> <<>>]
Then(plans) == plans @@ NoPlan

Granted(perm, o) == <<u, MCHash(perm), o>>
GetW == <<kw, Base, "get">>
ListW == <<kw, Base, "list">>
GetStatusW == <<kw, "status", "get">>
o1 == <<O, "o1">>
p1 == <<P, "p1">>
w1 == <<W, "w1">>

Ask(verb, sub, name, parent, ns) ==
    [form |-> "resource", user |-> u, key |-> kw, sub |-> sub, verb |-> verb,
     name |-> name, parent |-> parent, ns |-> ns]
GetOne == Ask("get", Base, "w1", None, "")
GetScoped == Ask("get", Base, "w2", p1, "")
ListScoped == Ask("list", Base, None, p1, "")
ListAll == Ask("list", Base, None, None, "")
Status == Ask("get", "status", "w1", None, "")
InOrg(ns) == Ask("get", Base, "w2", o1, ns)
Forms == {[GetOne EXCEPT !.form = f] : f \in {"path", "both", "selector", "garbled"}}
         \cup {[GetOne EXCEPT !.user = None]}

(* Organizations have projects, projects have widgets. *)
Quiet ==
    [from |-> Four(Org, Prj, Wid, Absent), plan |-> NoPlan, subresources |-> TRUE,
     parents |-> {<<w1, p1>>, <<p1, o1>>}, grants |-> {}, grantPlan |-> <<>>,
     reviews |-> {}, faults |-> 0]

(* Every hierarchy of three types, one of them registered twice or none. *)
SomeParents == SUBSET {O, P, W} \cup {{Root}, {Incomplete}, {O, Incomplete}}
Hierarchies ==
    {[Quiet EXCEPT !.from = Four(R(O, ko, {Get}, a), R(P, kp, {Get}, b), R(t, kw, {Get, GetStatus}, c), Absent),
                   !.subresources = (t = W)] :
        a \in SomeParents, b \in SomeParents, c \in SomeParents, t \in {P, W}}

MCCasts ==
    Hierarchies
    \cup
    {\* every form of review, by a user with a grant on the organization
     [Quiet EXCEPT !.grants = {Granted(GetW, o1)}, !.faults = 1,
        !.reviews = Forms \cup {GetOne, Status} \cup {InOrg(ns) : ns \in {"", "own", "other"}}],
     \* another type comes and goes beside what is granted
     [Quiet EXCEPT !.grants = {Granted(GetW, o1), Granted(ListW, p1)},
        !.plan = Then(4 :> <<Ext, Absent>>), !.reviews = {GetOne, ListScoped}],
     \* a kind is granted, and a scope; a cycle appears below it and goes again
     [Quiet EXCEPT !.grants = {Granted(ListW, <<Root, W>>), Granted(GetW, p1)},
        !.from = Four(Org, Prj, Wid, Ext),
        !.plan = Then(4 :> <<[Ext EXCEPT !.parents = {P, W}], Absent>>),
        !.reviews = {ListAll, GetScoped}],
     \* the registration arrives, then changes; the webhook restarts
     [Quiet EXCEPT !.grants = {Granted(GetW, o1), Granted(ListW, <<Root, P>>)},
        !.from = Four(Org, Prj, Absent, Absent),
        !.plan = Then(3 :> <<[Wid EXCEPT !.perms = {Get}], Wid>>),
        !.reviews = {GetOne, ListScoped}, !.faults = 1],
     \* it moves to another key and back
     [Quiet EXCEPT !.grants = {Granted(GetW, o1)},
        !.plan = Then(3 :> <<[Wid EXCEPT !.key = kx], Wid>>),
        !.reviews = {GetOne}, !.faults = 1],
     \* the type between goes: what hung from it is gone from the model as well
     [Quiet EXCEPT !.grants = {Granted(GetW, w1)},
        !.plan = Then(2 :> <<Absent>>), !.reviews = {GetOne}],
     \* grants come and go; a subresource is one permission, or none of its own
     [Quiet EXCEPT !.grants = {Granted(GetW, o1)}, !.grantPlan = <<{Granted(GetStatusW, w1)}>>,
        !.reviews = {GetOne, Status}],
     [Quiet EXCEPT !.grants = {Granted(GetW, o1)}, !.grantPlan = <<{Granted(GetStatusW, w1)}>>,
        !.reviews = {GetOne, Status}, !.subresources = FALSE, !.plan = Then(3 :> <<Absent>>)]}
============================================================================
