------------------------------- MODULE Roles -------------------------------
(***************************************************************************)
(* How a Role gets the permissions PolicyBindings grant from: the reconcile *)
(* of internal/controller/role_controller.go, which resolves inheritedRoles *)
(* and stores the result in the Role's status, the requests that follow a   *)
(* change of an inherited Role (role_inheritance.go) or of a registration,  *)
(* and DeleteRole of internal/openfga/role_reconciler.go.                   *)
(*                                                                          *)
(* All Roles come through one informer, in the order they were stored; a    *)
(* reconcile reads one Role after another from its cache while that goes on *)
(* changing. Permissions are abstract, each of a resource of its own.       *)
(***************************************************************************)
EXTENDS Naturals, Sequences, SequencesExt

CONSTANTS
    Names,          \* of Roles; a reference is a name, its namespace filled in
    Perms,          \* permissions a Role may include
    Casts,          \* how behaviours start and what users will do, one choice each
    MaxGen,         \* bound: generations of one Role
    MaxFaults       \* bound: failed calls, lost answers and restarts together

(* What a user writes, and the absence of a Role. *)
Specs == [perms: SUBSET Perms, refs: Seq(Names)]
Nowhere == [perms |-> {}, refs |-> <<>>, gone |-> TRUE]

ASSUME CastTypes ==
    \A c \in Casts :
        /\ c.from \in [Names -> Specs \cup {Nowhere}]
        /\ c.plan \in [Names -> Seq(Specs \cup {Nowhere})]
        /\ c.reg \subseteq Perms /\ c.regPlan \in Seq(SUBSET Perms) /\ c.faults \in 0..MaxFaults
        /\ c.legacy \subseteq {n \in Names : c.from[n] # Nowhere}
ASSUME BoundTypes == MaxGen \in Nat \ {0} /\ MaxFaults \in Nat
ASSUME NamesFinite == IsFiniteSet(Names)

VARIABLES
    role,           \* the stored Roles
    events,         \* writes the informer has not delivered yet, oldest first
    crole,          \* the informer's copies
    noted,          \* delivered changes whose handler for inheritors has not run
    reg,            \* the permissions that registrations define
    creg,           \* as the informer has them
    nreg,           \* changed permissions whose handler has not run
    tuples,         \* Roles that have InternalRole tuples, from earlier versions
    queue,          \* the dirty keys
    job,            \* the reconcile of each Role
    plan, regPlan,  \* what users will still do to each Role, and to registrations
    faults          \* how many faults may still happen

vars == <<role, events, crole, noted, reg, creg, nreg, tuples, queue, job, plan, regPlan, faults>>
regVars == <<reg, creg, nreg, regPlan>>

Ready == {"", "Ready", "Unresolved", "Invalid", "Error"}
Status == [obs: 0..MaxGen, eff: SUBSET Perms, missing: SUBSET Names, invalid: SUBSET Perms, ready: Ready]
NoStatus == [obs |-> 0, eff |-> {}, missing |-> {}, invalid |-> {}, ready |-> ""]

Role == [st: {"none", "live", "deleting"}, gen: 0..MaxGen, fin: BOOLEAN,
         perms: SUBSET Perms, refs: Seq(Names), status: Status]
NoRole == [st |-> "none", gen |-> 0, fin |-> FALSE, perms |-> {}, refs |-> <<>>, status |-> NoStatus]
Stored(r) == r.st # "none"

(* A reconcile: where it is, the Role it read and whether that is still the    *)
(* stored version, the registered permissions it listed, and its walk: what it *)
(* will look up next, has visited, collected and not found. *)
Job == [at: {"idle", "add", "finalize", "strip", "list", "walk", "error"}, copy: Role, fresh: BOOLEAN,
        regs: SUBSET Perms, todo: Seq(Names), visited: SUBSET Names,
        perms: SUBSET Perms, missing: SUBSET Names]
NoJob == [at |-> "idle", copy |-> NoRole, fresh |-> FALSE, regs |-> {}, todo |-> <<>>,
          visited |-> {}, perms |-> {}, missing |-> {}]

(* Every variable keeps the type the code gives it. *)
TypeOK ==
    /\ role \in [Names -> Role] /\ crole \in [Names -> Role]
    /\ events \in Seq(Names \X Role) /\ noted \in Seq(Names)
    /\ reg \subseteq Perms /\ creg \subseteq Perms /\ nreg \subseteq Perms
    /\ tuples \subseteq Names /\ queue \subseteq Names
    /\ job \in [Names -> Job]
    /\ plan \in [Names -> Seq(Specs \cup {Nowhere})] /\ regPlan \in Seq(SUBSET Perms)
    /\ faults \in 0..MaxFaults

-----------------------------------------------------------------------------
(* The inheritance graph, of Roles as some cache has them.                   *)

(* A walk along references: those it has still to look up, the Roles it has    *)
(* visited, and what it has collected and not found. It sets out from a Role   *)
(* that was read. *)
Walking == [todo: Seq(Names), visited: SUBSET Names, perms: SUBSET Perms, missing: SUBSET Names]
SetOut(r, n) == [todo |-> r.refs, visited |-> {n}, perms |-> r.perms, missing |-> {}]

(* A walk that is over when it comes back to a Role. *)
LookUpOnce(of, w) ==
    LET m == Head(w.todo)
        more == Tail(w.todo)
    IN CASE ~Stored(of[m]) -> [w EXCEPT !.todo = more, !.missing = w.missing \cup {m}]
         [] Stored(of[m]) /\ m \in w.visited -> [w EXCEPT !.todo = <<>>]
         [] OTHER -> [w EXCEPT !.todo = of[m].refs \o more, !.visited = w.visited \cup {m},
                               !.perms = w.perms \cup of[m].perms]

(* One Get of getAllEffectivePermissions, depth first with one set of visited  *)
(* Roles: the references of the Role it finds come before those that are left. *)
(* A Role that is not there is skipped and reported; one being deleted counts. *)
LookUp(of, w) ==
    LET m == Head(w.todo)
        more == Tail(w.todo)
    IN CASE ~Stored(of[m]) -> [w EXCEPT !.todo = more, !.missing = w.missing \cup {m}]
         [] Stored(of[m]) /\ m \in w.visited -> [w EXCEPT !.todo = more]
         [] OTHER -> [w EXCEPT !.todo = of[m].refs \o more, !.visited = w.visited \cup {m},
                               !.perms = w.perms \cup of[m].perms]

(* getAllEffectivePermissions of a Role that is there. *)
Walk(of, name) ==
    LET Finish[w \in Walking] == IF w.todo = <<>> THEN w ELSE Finish[LookUp(of, w)]
    IN Finish[SetOut(of[name], name)]

EffectivePermissions(of, name) == Walk(of, name).perms

Inherits(of, n) == IF Stored(of[n]) THEN ToSet(of[n].refs) ELSE {}

(* Only the Roles that name the changed one themselves. *)
DependentsDirect(of, name) == {n \in Names : name \in Inherits(of, n)} \cup {name}

(* rolesDependentOnRole: breadth first along reversed references. *)
Dependents(of, name) ==
    LET Grow[found \in SUBSET Names] ==
            LET more == found \cup {n \in Names : Inherits(of, n) \cap found # {}}
            IN IF more = found THEN found ELSE Grow[more]
    IN Grow[{name}]

(* Names where permissions belong. *)
StatusOfSwapped(gen, perms, missing, regs) ==
    [obs |-> gen, eff |-> missing, missing |-> perms, invalid |-> perms \ regs, ready |-> "Ready"]

(* The status a reconcile computes: setDegradedCondition,                     *)
(* validateRolePermissions and the Ready condition. *)
StatusOf(gen, perms, missing, regs) ==
    [obs |-> gen, eff |-> perms, missing |-> missing, invalid |-> perms \ regs,
     ready |-> IF ~(perms \subseteq regs) THEN "Invalid"
               ELSE IF missing # {} THEN "Unresolved" ELSE "Ready"]

-----------------------------------------------------------------------------
(* Storage, users and informers.                                             *)

(* Every write of a Role is delivered later, and outdates what is being read. *)
Put(n, r) ==
    /\ role' = [role EXCEPT ![n] = r]
    /\ events' = Append(events, <<n, r>>)

Outdated(n) == job' = [job EXCEPT ![n].fresh = FALSE]

users == <<crole, noted, regVars, tuples, queue, faults>>

Create(n) ==
    /\ plan[n] # <<>> /\ Head(plan[n]) # Nowhere /\ ~Stored(role[n])
    /\ Put(n, [NoRole EXCEPT !.st = "live", !.gen = 1,
                             !.perms = Head(plan[n]).perms, !.refs = Head(plan[n]).refs])
    /\ Outdated(n)
    /\ plan' = [plan EXCEPT ![n] = Tail(@)]
    /\ UNCHANGED users

Edit(n) ==
    /\ plan[n] # <<>> /\ Head(plan[n]) # Nowhere /\ role[n].st = "live" /\ role[n].gen < MaxGen
    /\ Put(n, [role[n] EXCEPT !.gen = @ + 1, !.perms = Head(plan[n]).perms, !.refs = Head(plan[n]).refs])
    /\ Outdated(n)
    /\ plan' = [plan EXCEPT ![n] = Tail(@)]
    /\ UNCHANGED users

Delete(n) ==
    /\ plan[n] # <<>> /\ Head(plan[n]) = Nowhere /\ role[n].st = "live" /\ role[n].gen < MaxGen
    /\ Put(n, [role[n] EXCEPT !.st = "deleting", !.gen = @ + 1])
    /\ Outdated(n)
    /\ plan' = [plan EXCEPT ![n] = Tail(@)]
    /\ UNCHANGED users

(* Others' finalizers may hold a Role for a while as well. *)
Leave(n) ==
    /\ role[n].st = "deleting" /\ ~role[n].fin
    /\ Put(n, NoRole)
    /\ Outdated(n)
    /\ UNCHANGED <<users, plan>>

EditRegistration ==
    /\ regPlan # <<>>
    /\ reg' = Head(regPlan) /\ regPlan' = Tail(regPlan)
    /\ UNCHANGED <<role, events, crole, noted, creg, nreg, tuples, queue, job, plan, faults>>

(* GenerationChangedPredicate lets creations, deletions and new specs pass. *)
Passes(old, new) == ~Stored(old) \/ ~Stored(new) \/ old.gen # new.gen

(* The watch of the Role itself queues its key. *)
Deliver ==
    /\ events # <<>>
    /\ LET n == Head(events)[1]
           new == Head(events)[2]
       IN /\ crole' = [crole EXCEPT ![n] = new]
          /\ IF Passes(crole[n], new)
             THEN queue' = queue \cup {n} /\ noted' = Append(noted, n)
             ELSE UNCHANGED <<queue, noted>>
    /\ events' = Tail(events)
    /\ UNCHANGED <<role, regVars, tuples, job, plan, faults>>

(* enqueueRequestsForInheritedRoleChange lists the Roles its cache has by then. *)
NotifyInheritors ==
    /\ noted # <<>>
    /\ queue' = queue \cup {n \in Names \ {Head(noted)} : n \in Dependents(crole, Head(noted))}
    /\ noted' = Tail(noted)
    /\ UNCHANGED <<role, events, crole, regVars, tuples, job, plan, faults>>

SyncRegistration ==
    /\ creg # reg
    /\ creg' = reg
    /\ nreg' = nreg \cup (creg \ reg) \cup (reg \ creg)
    /\ UNCHANGED <<role, events, crole, noted, reg, tuples, queue, job, plan, regPlan, faults>>

(* isRoleAffectedByProtectedResource: by the resource, removed permissions    *)
(* included. *)
Affected(p) == {n \in Names : Stored(crole[n]) /\ p \in EffectivePermissions(crole, n)}

(* enqueueRequestsForProtectedResourceChange *)
NotifyRegistration(p) ==
    /\ p \in nreg
    /\ nreg' = nreg \ {p}
    /\ queue' = queue \cup Affected(p)
    /\ UNCHANGED <<role, events, crole, noted, reg, creg, tuples, job, plan, regPlan, faults>>

-----------------------------------------------------------------------------
(* The reconcile of a Role.                                                  *)

rest == <<crole, noted, regVars, plan>>

Goto(n, at) == job' = [job EXCEPT ![n].at = at]

End(n, again) ==
    /\ job' = [job EXCEPT ![n] = NoJob]
    /\ queue' = IF again THEN queue \cup {n} ELSE queue

(* Reconcile up to its first call. *)
FirstStep(r) ==
    CASE r.st = "none" -> "idle"
      [] r.st = "live" -> IF r.fin THEN "list" ELSE "add"
      [] r.st = "deleting" -> IF r.fin THEN "finalize" ELSE "idle"

(* Twenty workers; a key is never with two of them. *)
Start(n) ==
    /\ n \in queue /\ job[n].at = "idle"
    /\ queue' = queue \ {n}
    /\ job' = [job EXCEPT ![n] =
                IF FirstStep(crole[n]) = "idle" THEN NoJob
                ELSE [NoJob EXCEPT !.at = FirstStep(crole[n]), !.copy = crole[n],
                                   !.fresh = \A i \in DOMAIN events : events[i][1] # n]]
    /\ UNCHANGED <<rest, role, events, tuples, faults>>

(* API server: an Update takes effect only on the version that was read. *)
Update(n, r) == IF job[n].fresh THEN Put(n, r) ELSE UNCHANGED <<role, events>>

(* Finalizers.Finalize on a live Role; the reconcile ends with Requeue, and   *)
(* with a conflict in an error. *)
AddFinalizer(n) ==
    /\ job[n].at = "add"
    /\ Update(n, [role[n] EXCEPT !.fin = TRUE])
    /\ End(n, TRUE)
    /\ UNCHANGED <<rest, tuples, faults>>

(* An error that is taken for success. *)
FinalizeForgiving(n) ==
    /\ job[n].at = "finalize"
    /\ tuples' \in {tuples, tuples \ {n}}
    /\ Goto(n, "strip")
    /\ UNCHANGED <<rest, role, events, queue, faults>>

(* OpenFGARoleFinalizer.Finalize and DeleteRole: read, and delete what was    *)
(* read. Nothing writes such tuples any more. *)
Finalize(n) ==
    /\ job[n].at = "finalize"
    /\ tuples' = tuples \ {n}
    /\ Goto(n, "strip")
    /\ UNCHANGED <<rest, role, events, queue, faults>>

Strip(n) ==
    /\ job[n].at = "strip"
    /\ Update(n, [role[n] EXCEPT !.fin = FALSE])
    /\ End(n, TRUE)
    /\ UNCHANGED <<rest, tuples, faults>>

(* The registrations are listed, and the walk starts at the Role itself. *)
ListRegistrations(n) ==
    /\ job[n].at = "list"
    /\ job' = [job EXCEPT ![n] =
                [@ EXCEPT !.at = "walk", !.regs = creg, !.todo = job[n].copy.refs,
                          !.visited = {n}, !.perms = job[n].copy.perms]]
    /\ UNCHANGED <<rest, role, events, tuples, queue, faults>>

(* One Get of the walk, in the cache as it is by then. *)
GetInherited(n) ==
    /\ job[n].at = "walk" /\ job[n].todo # <<>>
    /\ job' = [job EXCEPT ![n] = LookUp(crole, job[n])]
    /\ UNCHANGED <<rest, role, events, tuples, queue, faults>>

Answered(ack) ==
    /\ ack \/ faults > 0
    /\ faults' = IF ack THEN faults ELSE faults - 1

Computed(n) == StatusOf(job[n].copy.gen, job[n].perms, job[n].missing, job[n].regs)

(* The status is put on whatever is stored by then. *)
UpdateStatusForced(n) ==
    /\ job[n].at = "walk" /\ job[n].todo = <<>> /\ Stored(role[n])
    /\ Put(n, [role[n] EXCEPT !.status = Computed(n)])
    /\ End(n, FALSE)
    /\ UNCHANGED <<rest, tuples, faults>>

(* updateRoleStatus: what equals the status that was read is not written. *)
UpdateStatus(n) ==
    /\ job[n].at = "walk" /\ job[n].todo = <<>>
    /\ \/ /\ Computed(n) = job[n].copy.status
          /\ End(n, FALSE)
          /\ UNCHANGED <<role, events, faults>>
       \/ /\ Computed(n) # job[n].copy.status
          /\ Update(n, [role[n] EXCEPT !.status = Computed(n)])
          /\ \E ack \in BOOLEAN : Answered(ack) /\ End(n, ~ack \/ ~job[n].fresh)
    /\ UNCHANGED <<rest, tuples>>

(* A Get fails for another reason than a missing Role. *)
WalkFails(n) ==
    /\ job[n].at = "walk" /\ job[n].todo # <<>> /\ faults > 0
    /\ faults' = faults - 1
    /\ Goto(n, "error")
    /\ UNCHANGED <<rest, role, events, tuples, queue>>

(* The status says so, and keeps the permissions it had. *)
ReportError(n) ==
    /\ job[n].at = "error"
    /\ LET old == job[n].copy.status
           new == [old EXCEPT !.obs = job[n].copy.gen, !.ready = "Error"]
       IN IF new = old THEN UNCHANGED <<role, events>>
          ELSE Update(n, [role[n] EXCEPT !.status = new])
    /\ End(n, TRUE)
    /\ UNCHANGED <<rest, tuples, faults>>

(* A call that fails without effect. *)
Fail(n) ==
    /\ job[n].at # "idle" /\ faults > 0
    /\ faults' = faults - 1
    /\ End(n, TRUE)
    /\ UNCHANGED <<rest, role, events, tuples>>

(* The next process lists everything anew and queues every Role. *)
Restart ==
    /\ faults > 0
    /\ faults' = faults - 1
    /\ crole' = role /\ events' = <<>> /\ noted' = <<>>
    /\ creg' = reg /\ nreg' = {}
    /\ queue' = {n \in Names : Stored(role[n])}
    /\ job' = [n \in Names |-> NoJob]
    /\ UNCHANGED <<role, reg, tuples, plan, regPlan>>

-----------------------------------------------------------------------------
(* What the status of a stored Role ought to be. *)
(* The Roles in every set that has the Role and what those in it inherit.      *)
Reachable(of, name) ==
    LET closed == {S \in SUBSET Names : name \in S /\ \A n \in S : Inherits(of, n) \subseteq S}
    IN {m \in Names : \A S \in closed : m \in S}

ReachablePerms(of, n) == UNION {of[m].perms : m \in {x \in Reachable(of, n) : Stored(of[x])}}
Dangling(of, n) == {m \in Reachable(of, n) : ~Stored(of[m])}

RightStatus(n) ==
    StatusOf(role[n].gen, ReachablePerms(role, n), Dangling(role, n), reg)

(* Roles are there and settled, or not there. *)
Init ==
    \E c \in Casts :
        LET bare == [n \in Names |-> IF c.from[n] = Nowhere THEN NoRole
                        ELSE [NoRole EXCEPT !.st = "live", !.gen = 1, !.fin = TRUE,
                                            !.perms = c.from[n].perms, !.refs = c.from[n].refs]]
        IN /\ role = [n \in Names |-> IF ~Stored(bare[n]) THEN NoRole
                        ELSE [bare[n] EXCEPT !.status =
                                StatusOf(1, ReachablePerms(bare, n), Dangling(bare, n), c.reg)]]
           /\ crole = role /\ events = <<>> /\ noted = <<>>
           /\ reg = c.reg /\ creg = reg /\ nreg = {}
           /\ tuples = c.legacy
           /\ queue = {} /\ job = [n \in Names |-> NoJob]
           /\ plan = c.plan /\ regPlan = c.regPlan /\ faults = c.faults

Step(n) ==
    \/ Start(n) \/ AddFinalizer(n) \/ Finalize(n) \/ Strip(n)
    \/ ListRegistrations(n) \/ GetInherited(n) \/ UpdateStatus(n) \/ ReportError(n)

Next ==
    \/ \E n \in Names : Create(n) \/ Edit(n) \/ Delete(n) \/ Leave(n)
    \/ EditRegistration
    \/ Deliver \/ NotifyInheritors
    \/ SyncRegistration \/ \E p \in Perms : NotifyRegistration(p)
    \/ \E n \in Names : Step(n) \/ WalkFails(n) \/ Fail(n)
    \/ Restart

(* A reconcile goes on until it ends, the queue runs every key, informers     *)
(* deliver, and others' finalizers go. Users and faults have no obligation.   *)
Fairness ==
    /\ \A n \in Names : WF_vars(Step(n))
    /\ WF_vars(\E n \in Names : Leave(n))
    /\ WF_vars(Deliver) /\ WF_vars(NotifyInheritors)
    /\ WF_vars(SyncRegistration) /\ WF_vars(\E p \in Perms : NotifyRegistration(p))

Spec == Init /\ [][Next]_vars /\ Fairness

-----------------------------------------------------------------------------
(* Properties.                                                               *)

(* Whatever the references look like - cycles, diamonds, Roles that are not   *)
(* there - the walk ends with the permissions of exactly the Roles that can   *)
(* be reached and reports exactly those that are missing                      *)
(* (getAllEffectivePermissions), and a change of a Role is announced to       *)
(* exactly the Roles that reach it (rolesDependentOnRole). *)
WalkIsReachability ==
    \A n \in Names :
        /\ Stored(crole[n]) => /\ Walk(crole, n).perms = ReachablePerms(crole, n)
                              /\ Walk(crole, n).missing = Dangling(crole, n)
        /\ Dependents(crole, n) = {m \in Names : n \in Reachable(crole, m)}

(* A Role leaves storage only after the tuples that earlier versions wrote    *)
(* for it (OpenFGARoleFinalizer.Finalize). *)
RoleTuplesGoFirst == \A n \in Names : ~Stored(role[n]) => n \notin tuples

(* The informer is behind by the writes it has not delivered and nothing else, *)
(* so that what no undelivered write outdates is what is stored. *)
InformerInv ==
    /\ \A n \in Names : (\A i \in DOMAIN events : events[i][1] # n) => crole[n] = role[n]
    /\ \A i \in DOMAIN events :
        (\A j \in DOMAIN events : j > i => events[j][1] # events[i][1]) => events[i][2] = role[events[i][1]]
    /\ \A n \in Names : job[n].fresh => job[n].copy = role[n]

(* What RoleTuplesGoFirst and ObservedIsStored rest on: our finalizer is on   *)
(* every Role with tuples until a reconcile has deleted them (DeleteRole). *)
RoleInv ==
    /\ \A n \in tuples : Stored(role[n]) /\ role[n].fin
    /\ \A n \in Names : job[n].at = "strip" => n \notin tuples
    /\ InformerInv

(* A status that is written is about the spec that is stored at that moment,  *)
(* however many edits came while the reconcile walked: observedGeneration     *)
(* never names another one (updateRoleStatus, which writes the copy it read). *)
ObservedIsStored ==
    [][\A n \in Names : Stored(role[n]) /\ role'[n].status # role[n].status =>
            ~Stored(role'[n]) \/ role'[n].status.obs = role'[n].gen]_vars

(* In the end every Role that was deleted has left, and every other's stored  *)
(* status is what its inheritance and the registrations amount to, however    *)
(* far up the change was and whatever came in between, as long as changes go  *)
(* one way: a status that is to return to an earlier value may be taken for   *)
(* written. A reported error is such a value, so Ready may stay on it         *)
(* (enqueueRequestsForInheritedRoleChange,                                    *)
(* enqueueRequestsForProtectedResourceChange, Reconcile). *)
RolesSettle ==
    <>[](\A n \in Names :
            \/ role[n].st = "none"
            \/ /\ role[n].st = "live"
               /\ \E ready \in {RightStatus(n).ready, "Error"} :
                    role[n].status = [RightStatus(n) EXCEPT !.ready = ready])

=============================================================================
