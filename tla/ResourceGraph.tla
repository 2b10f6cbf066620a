--------------------------- MODULE ResourceGraph ---------------------------
(***************************************************************************)
(* The authorization model as a function of the registered                  *)
(* ProtectedResources: the graph of internal/openfga/resources.go, and the  *)
(* permissions and type definitions that                                    *)
(* internal/openfga/authorization_model_reconciler.go makes from it.        *)
(*                                                                          *)
(* A registration gives a type (its API group and Kind) permissions on a    *)
(* resource key (its API group and plural), and names the types its objects *)
(* can have as parents. Groups, Kinds and plurals are never empty.          *)
(***************************************************************************)
EXTENDS Integers, FiniteSetsExt

CONSTANTS
    Types,              \* <group>/<Kind>
    Root,               \* the type iam.miloapis.com/Root
    Incomplete,         \* a parent reference without an API group or a Kind
    Keys,               \* <group>/<plural>
    Subs,               \* subresources, and
    Base,               \* none
    Verbs,
    HashPermission(_)   \* the name of a permission's relation

ASSUME RootIsNoResource == Root \notin Types
(* hashPermission keeps 32 bits: that no two permissions meet is assumed. *)
ASSUME NoCollision ==
    \A p, q \in Keys \X (Subs \cup {Base}) \X Verbs :
        HashPermission(p) = HashPermission(q) => p = q

Registration ==
    [type: Types, key: Keys, perms: SUBSET ((Subs \cup {Base}) \X Verbs),
     parents: SUBSET (Types \cup {Root, Incomplete}), deleting: BOOLEAN]

(* A registry is a function from names to registrations. Names are numbers:    *)
(* the list is sorted by type and then by name, so that among registrations of *)
(* one type the greatest name comes last.                                      *)
Live(reg) == {n \in DOMAIN reg : ~reg[n].deleting}
RegisteredTypes(reg) == {reg[n].type : n \in Live(reg)}

(* resources[type]: a later registration of the type replaces an earlier one. *)
SpecOf(reg, t) == reg[Max({n \in Live(reg) : reg[n].type = t})]

RootTypes(reg) == {reg[n].type : n \in {m \in Live(reg) : reg[m].parents = {}}}

ParentsOf(pr) == pr.parents \ {Incomplete}

(* directChildren: those of all registrations of a type, whichever spec stays. *)
Children(reg, t) ==
    {reg[n].type : n \in {m \in Live(reg) : t \in ParentsOf(reg[m])}} \ {t}

(* getResourceGraphNode fails on a type that is already on its path. *)
CycleBelow(reg, t) ==
    LET fails[at \in Types \X SUBSET Types] ==
            LET here == at[1] visited == at[2]
            IN  here \in visited \/ \E c \in Children(reg, here) : fails[<<c, visited \cup {here}>>]
    IN  fails[<<t, {}>>]

Builds(reg) == \A t \in RootTypes(reg) : ~CycleBelow(reg, t)

Enumerate(pr, enableSubresources) ==
    {<<pr.key, p[1], p[2]>> : p \in {q \in pr.perms : q[1] = Base \/ enableSubresources}}

(* The types of the graph, when it builds. *)
GraphTypes(reg) ==
    LET tree[t \in Types] == {t} \cup UNION {tree[c] : c \in Children(reg, t)}
    IN  UNION {tree[t] : t \in RootTypes(reg)}

(* A hierarchy that stops at the children. *)
HierarchicalPermissionsFlat(reg, enableSubresources, t) ==
    UNION {Enumerate(SpecOf(reg, u), enableSubresources) : u \in {t} \cup Children(reg, t)}

(* calculatePermissionsForNode *)
HierarchicalPermissions(reg, enableSubresources, t) ==
    LET perms[u \in Types] == Enumerate(SpecOf(reg, u), enableSubresources)
                              \cup UNION {perms[c] : c \in Children(reg, u)}
    IN  perms[t]

(* A model: the relations of each type that stand for permissions, and the     *)
(* types its parent relation accepts. A permission also comes from a parent.   *)
TypeDefinition(reg, enableSubresources, t) ==
    [relations |-> {HashPermission(p) : p \in HierarchicalPermissions(reg, enableSubresources, t)},
     parents |-> ParentsOf(SpecOf(reg, t))]

RootTypeDefinition(defs) ==
    [relations |-> UNION {defs[t].relations : t \in DOMAIN defs}, parents |-> {}]

MinimalModel == [t \in {} |-> [relations |-> {}, parents |-> {}]]

ExpectedModel(reg, enableSubresources) ==
    LET defs == [t \in GraphTypes(reg) |-> TypeDefinition(reg, enableSubresources, t)]
    IN  IF DOMAIN reg = {} THEN MinimalModel
        ELSE [t \in DOMAIN defs \cup {Root} |-> IF t = Root THEN RootTypeDefinition(defs) ELSE defs[t]]

(* OpenFGA refuses a model that names a type it does not define. *)
Accepts(model) == \A t \in DOMAIN model : model[t].parents \subseteq DOMAIN model

----------------------------------------------------------------------------
(* What the hierarchy is meant to be, without walking it.                   *)

(* The types that lie in every set with those of from and their children. *)
Below(reg, from) ==
    LET closed == {S \in SUBSET Types : from \subseteq S /\ \A u \in S : Children(reg, u) \subseteq S}
    IN  {t \in Types : \A S \in closed : t \in S}

(* The permissions a type carries: it hangs from a root, and they are          *)
(* registered for it or for a type below it. Root carries all of them.         *)
Carried(reg, enableSubresources, t) ==
    LET hung == Below(reg, RootTypes(reg))
        from == IF t = Root THEN hung ELSE {t} \cap hung
    IN  UNION {Enumerate(SpecOf(reg, u), enableSubresources) :
                u \in Below(reg, from) \cap RegisteredTypes(reg)}
============================================================================
