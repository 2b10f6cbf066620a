--------------------------- MODULE PolicyBindings ---------------------------
(***************************************************************************)
(* How PolicyBindings on one target share its tuples: each binding's        *)
(* reconcile diffs what it wants against what is stored, and a removal      *)
(* spares what a sibling wants.  internal/openfga/policy_reconciler.go and  *)
(* the reconcile of internal/controller/policybinding_controller.go.        *)
(*                                                                          *)
(* Bindings, Roles and the registration of the target's type are read from  *)
(* informer caches, tuples from OpenFGA; every read and write is a step.    *)
(* The target is live and held: TargetHold has the guard and its lock.      *)
(***************************************************************************)
EXTENDS Naturals, FiniteSets

CONSTANTS
    Bindings,       \* names of PolicyBindings on the target
    Roles, Subjects, Perms,
    RoleOf,         \* the roleRef of each binding
    SubjectsOf,     \* the subjects each binding is created with
    Children,       \* the permissions of the target type's child types
    SubPerms,       \* the permissions on subresources
    Flags,          \* the values of EnableSubresourceAuthorization considered
    MayGrow,        \* may bindings be created and Roles gain permissions?
    MayEdit,        \* may a binding's subjects be edited?
    MayVanish,      \* may Roles be deleted and the type be unregistered?
    MaxChanges,     \* bound: changes of Roles and of the registration
    MaxFaults       \* bound: failed calls, lost answers and restarts together

ASSUME RoleOfType == RoleOf \in [Bindings -> Roles]
ASSUME SubjectsOfType == SubjectsOf \in [Bindings -> SUBSET Subjects]
ASSUME PermsType == Children \subseteq Perms /\ SubPerms \subseteq Perms
ASSUME FlagTypes == Flags \subseteq BOOLEAN /\ {MayGrow, MayEdit, MayVanish} \subseteq BOOLEAN
ASSUME BoundTypes == MaxChanges \in Nat /\ MaxFaults \in Nat

VARIABLES
    flag,           \* EnableSubresourceAuthorization, as the process was started
    bind,           \* the stored bindings
    role,           \* the effective permissions of each Role
    reg,            \* the registration of the target's type, and its own permissions
    others,         \* the permissions of the child types, which are registered
                    \* under other parents as well
    tuples,         \* stored tuples <<subject, permission>> on the target
    cbind, crole, creg, cothers,    \* the caches
    nbind, nrole, nreg,     \* cache updates whose handler has not run yet
    queue,          \* the dirty keys of the workqueue
    pc,             \* where each binding's worker is
    job,            \* the binding as its worker read it
    valid,          \* the permissions its worker takes for valid
    want,           \* the tuples it wants
    have,           \* the tuples it has read
    sibs,           \* the sibling bindings it has listed
    keep,           \* the tuples those siblings want
    changes, faults

storedVars == <<flag, bind, role, reg, others>>
cacheVars == <<cbind, crole, creg, cothers, nbind, nrole, nreg>>
snapVars == <<job, valid, want, have, sibs, keep>>
workVars == <<pc, snapVars>>
vars == <<storedVars, tuples, cacheVars, queue, workVars, changes, faults>>

Tuples == Subjects \X Perms
NoBinding == [st |-> "none", fin |-> FALSE, subs |-> {}]
Gone == [st |-> "gone", fin |-> FALSE, subs |-> {}]     \* a name is used once
Binding == [st: {"none", "live", "deleting", "gone"}, fin: BOOLEAN, subs: SUBSET Subjects]
Stored(x) == x.st \in {"live", "deleting"}
Role == [there: BOOLEAN, perms: SUBSET Perms]

Deleting == {"deleteRead", "deleteList", "deleteSpare", "deleteWrite", "unbind"}
Revoking == {"revokeRead", "revokeList", "revokeSpare", "revokeWrite"}
Retracting == {"retractRead", "retractList", "retractSpare", "retractWrite"}
Writing == {"validate", "valid", "role", "read", "diff", "list", "spare", "write"}
Pc == {"idle"} \cup Writing \cup Deleting \cup Revoking \cup Retracting

(* Every variable keeps the type the code gives it. *)
TypeOK ==
    /\ flag \in BOOLEAN
    /\ bind \in [Bindings -> Binding] /\ cbind \in [Bindings -> Binding]
    /\ role \in [Roles -> Role] /\ crole \in [Roles -> Role]
    /\ reg \in Role /\ creg \in Role
    /\ others \subseteq Children /\ cothers \subseteq Children
    /\ tuples \subseteq Tuples
    /\ nbind \subseteq Bindings /\ nrole \subseteq Roles /\ nreg \in BOOLEAN
    /\ queue \subseteq Bindings
    /\ pc \in [Bindings -> Pc] /\ job \in [Bindings -> Binding]
    /\ valid \in [Bindings -> SUBSET Perms]
    /\ want \in [Bindings -> SUBSET Tuples] /\ have \in [Bindings -> SUBSET Tuples]
    /\ sibs \in [Bindings -> SUBSET (Bindings \X SUBSET Subjects)]
    /\ keep \in [Bindings -> SUBSET Tuples]
    /\ changes \in 0..MaxChanges /\ faults \in 0..MaxFaults

-----------------------------------------------------------------------------
(* Helpers of the code.                                                     *)

(* Subject and permission the wrong way round. *)
GrantSwapped(subs, perms, ok) == (perms \cap ok) \X subs

(* Without the flag, permissions on subresources are granted to nobody. *)
Enabled(perms) == IF flag THEN perms ELSE perms \ SubPerms

(* buildPermissionTuples: one tuple per subject and valid permission. Without *)
(* the flag, an empty set of valid permissions filters nothing. *)
Grant(subs, perms, ok) ==
    subs \X (IF flag \/ ok # {} THEN Enabled(perms) \cap ok ELSE Enabled(perms))

(* getHierarchicalPermissionsForSelector: the permissions of the type and of   *)
(* what is below it. A type that is not registered gets those of every type. *)
validPerms(own, rest) == Enabled(own.perms \cup rest)

(* Only the tuples the Role still gives. *)
ExistingOfRole(b) == {t \in tuples : t[1] \in job[b].subs /\ t[2] \in crole[RoleOf[b]].perms}

existing(b) == {t \in tuples : t[1] \in job[b].subs}

(* siblingDesiredTuples, first half: the other live bindings that share a     *)
(* subject, as the cache has them. *)
Siblings(b) ==
    {<<c, cbind[c].subs>> : c \in {d \in Bindings \ {b} :
        cbind[d].st = "live" /\ cbind[d].subs \cap job[b].subs # {}}}

(* No sibling's tuples are spared. *)
SparedNone(b) == {}

(* Second half: what they want, with the Roles as the cache has them. A       *)
(* sibling whose Role is gone wants nothing. *)
SiblingTuples(b) ==
    UNION {Grant(s[2], crole[RoleOf[s[1]]].perms, valid[b]) :
               s \in {x \in sibs[b] : crole[RoleOf[x[1]]].there}}

(* API server: an Update takes effect only on the version that was read. A    *)
(* name is used once, so equal records are the same version. *)
Current(b) == job[b] = bind[b]

Answered(ack) ==
    /\ ack \/ faults < MaxFaults
    /\ faults' = IF ack THEN faults ELSE faults + 1

-----------------------------------------------------------------------------
(* Users, and the role controller.                                          *)

users == <<flag, tuples, cacheVars, queue, workVars, faults>>

CreateBinding(b) ==
    /\ MayGrow /\ bind[b] = NoBinding
    /\ bind' = [bind EXCEPT ![b] = [st |-> "live", fin |-> FALSE, subs |-> SubjectsOf[b]]]
    /\ UNCHANGED <<role, reg, others, users, changes>>

DeleteBinding(b) ==
    /\ bind[b].st = "live"
    /\ bind' = [bind EXCEPT ![b] = IF bind[b].fin THEN [@ EXCEPT !.st = "deleting"] ELSE Gone]
    /\ UNCHANGED <<role, reg, others, users, changes>>

EditSubjects(b) ==
    /\ MayEdit /\ bind[b].st = "live" /\ bind[b].subs = SubjectsOf[b]
    /\ changes < MaxChanges
    /\ \E s \in (SUBSET Subjects) \ {{}, SubjectsOf[b]} :
        bind' = [bind EXCEPT ![b] = [@ EXCEPT !.subs = s]]
    /\ changes' = changes + 1
    /\ UNCHANGED <<role, reg, others, users>>

(* A Role, or the registration, is edited, deleted or put back. *)
Edits(old) ==
    {new \in Role : /\ new # old /\ (new.there \/ new.perms = {})
                    /\ MayGrow \/ (new.perms \subseteq old.perms /\ (new.there => old.there))
                    /\ MayVanish \/ new.there}

EditRole(r) ==
    /\ changes < MaxChanges
    /\ \E new \in Edits(role[r]) : role' = [role EXCEPT ![r] = new]
    /\ changes' = changes + 1
    /\ UNCHANGED <<bind, reg, others, users>>

EditRegistration ==
    /\ changes < MaxChanges
    /\ reg' \in Edits(reg)
    /\ changes' = changes + 1
    /\ UNCHANGED <<bind, role, others, users>>

(* So is that of a child type. *)
EditChildren ==
    /\ changes < MaxChanges
    /\ others' \in (SUBSET (IF MayGrow THEN Children ELSE others)) \ {others}
    /\ changes' = changes + 1
    /\ UNCHANGED <<bind, role, reg, users>>

-----------------------------------------------------------------------------
(* Informers and handlers.                                                  *)

(* GenerationChangedPredicate drops updates of the metadata alone. *)
SyncBinding(b) ==
    /\ cbind[b] # bind[b]
    /\ cbind' = [cbind EXCEPT ![b] = bind[b]]
    /\ nbind' = IF cbind[b].st = bind[b].st /\ cbind[b].subs = bind[b].subs
                THEN nbind ELSE nbind \cup {b}
    /\ UNCHANGED <<storedVars, tuples, crole, creg, cothers, nrole, nreg, queue, workVars, changes, faults>>

NotifyBinding(b) ==
    /\ b \in nbind
    /\ nbind' = nbind \ {b}
    /\ queue' = queue \cup {b}
    /\ UNCHANGED <<storedVars, tuples, cbind, crole, creg, cothers, nrole, nreg, workVars, changes, faults>>

SyncRole(r) ==
    /\ crole[r] # role[r]
    /\ crole' = [crole EXCEPT ![r] = role[r]]
    /\ nrole' = nrole \cup {r}
    /\ UNCHANGED <<storedVars, tuples, cbind, creg, cothers, nbind, nreg, queue, workVars, changes, faults>>

(* A handler that never enqueues. *)
NotifyRoleLost(r) ==
    /\ r \in nrole
    /\ nrole' = nrole \ {r}
    /\ UNCHANGED <<storedVars, tuples, cbind, crole, creg, cothers, nbind, nreg, queue, workVars, changes, faults>>

(* enqueuePolicyBindingsForRoleChange looks bindings up in the cache. *)
NotifyRole(r) ==
    /\ r \in nrole
    /\ nrole' = nrole \ {r}
    /\ queue' = queue \cup {b \in Bindings : Stored(cbind[b]) /\ RoleOf[b] = r}
    /\ UNCHANGED <<storedVars, tuples, cbind, crole, creg, cothers, nbind, nreg, workVars, changes, faults>>

SyncRegistration ==
    /\ creg # reg
    /\ creg' = reg /\ nreg' = TRUE
    /\ UNCHANGED <<storedVars, tuples, cbind, crole, cothers, nbind, nrole, queue, workVars, changes, faults>>

(* The handler of a child type's event lists every binding with the flag, and  *)
(* without it only those on the child type. *)
SyncChildren ==
    /\ cothers # others
    /\ cothers' = others /\ nreg' = (nreg \/ flag)
    /\ UNCHANGED <<storedVars, tuples, cbind, crole, creg, nbind, nrole, queue, workVars, changes, faults>>

(* A handler that never enqueues. *)
NotifyRegistrationLost ==
    /\ nreg
    /\ nreg' = FALSE
    /\ UNCHANGED <<storedVars, tuples, cbind, crole, creg, cothers, nbind, nrole, queue, workVars, changes, faults>>

NotifyRegistration ==
    /\ nreg
    /\ nreg' = FALSE
    /\ queue' = queue \cup {b \in Bindings : Stored(cbind[b])}
    /\ UNCHANGED <<storedVars, tuples, cbind, crole, creg, cothers, nbind, nrole, workVars, changes, faults>>

-----------------------------------------------------------------------------
(* A binding's worker.                                                      *)

bRest == <<flag, role, reg, others, cacheVars, changes>>

Goto(b, p) == pc' = [pc EXCEPT ![b] = p]

(* A reconcile ends; an error or Requeue puts the key back. *)
End(b, again) ==
    /\ Goto(b, "idle")
    /\ queue' = IF again THEN queue \cup {b} ELSE queue
    /\ job' = [job EXCEPT ![b] = NoBinding]
    /\ valid' = [valid EXCEPT ![b] = {}]
    /\ want' = [want EXCEPT ![b] = {}]
    /\ have' = [have EXCEPT ![b] = {}]
    /\ sibs' = [sibs EXCEPT ![b] = {}]
    /\ keep' = [keep EXCEPT ![b] = {}]

(* The finalizers come first: they add ours to a live binding, and run        *)
(* DeletePolicy on one being deleted. *)
Start(b) ==
    /\ pc[b] = "idle" /\ b \in queue
    /\ \/ /\ ~Stored(cbind[b]) \/ (cbind[b].st = "deleting" /\ ~cbind[b].fin)
          /\ queue' = queue \ {b}
          /\ UNCHANGED <<bind, pc, job>>
       \/ /\ cbind[b].st = "live" /\ ~cbind[b].fin
          /\ bind' = IF cbind[b] = bind[b] THEN [bind EXCEPT ![b] = [@ EXCEPT !.fin = TRUE]] ELSE bind
          /\ UNCHANGED <<queue, pc, job>>
       \/ /\ cbind[b].fin
          /\ Goto(b, IF cbind[b].st = "live" THEN "validate" ELSE "deleteRead")
          /\ job' = [job EXCEPT ![b] = cbind[b]]
          /\ queue' = queue \ {b}
          /\ UNCHANGED bind
    /\ UNCHANGED <<bRest, tuples, valid, want, have, sibs, keep, faults>>

(* validateResourceType; with the flag, an unregistered type revokes. *)
Validate(b) ==
    /\ pc[b] = "validate"
    /\ \/ /\ creg.there
          /\ Goto(b, "valid")
          /\ UNCHANGED <<queue, snapVars>>
       \/ /\ ~creg.there /\ flag
          /\ Goto(b, "revokeRead")
          /\ UNCHANGED <<queue, snapVars>>
       \/ /\ ~creg.there /\ ~flag
          /\ End(b, FALSE)
    /\ UNCHANGED <<bRest, bind, tuples, faults>>

(* The second read of the registrations. *)
ValidPerms(b) ==
    /\ pc[b] = "valid"
    /\ valid' = [valid EXCEPT ![b] = validPerms(creg, cothers)]
    /\ Goto(b, "role")
    /\ UNCHANGED <<bRest, bind, tuples, queue, job, want, have, sibs, keep, faults>>

(* fetchRole; with the flag, a Role that is gone revokes before the error. *)
FetchRole(b) ==
    /\ pc[b] = "role"
    /\ \/ /\ crole[RoleOf[b]].there
          /\ want' = [want EXCEPT ![b] = Grant(job[b].subs, crole[RoleOf[b]].perms, valid[b])]
          /\ Goto(b, "read")
          /\ UNCHANGED <<queue, job, valid, have, sibs, keep>>
       \/ /\ ~crole[RoleOf[b]].there /\ flag
          /\ Goto(b, "retractRead")
          /\ UNCHANGED <<queue, snapVars>>
       \/ /\ ~crole[RoleOf[b]].there /\ ~flag
          /\ End(b, TRUE)
    /\ UNCHANGED <<bRest, bind, tuples, faults>>

ReadExisting(b) ==
    /\ pc[b] = "read"
    /\ have' = [have EXCEPT ![b] = existing(b)]
    /\ Goto(b, "diff")
    /\ UNCHANGED <<bRest, bind, tuples, queue, job, valid, want, sibs, keep, faults>>

added(b) == want[b] \ have[b]
removed(b) == have[b] \ want[b]

(* Siblings are listed only when something would be removed, and nothing is   *)
(* written when nothing differs. *)
DiffTuples(b) ==
    /\ pc[b] = "diff"
    /\ \/ /\ removed(b) # {}
          /\ Goto(b, "list")
          /\ UNCHANGED <<queue, snapVars>>
       \/ /\ removed(b) = {} /\ added(b) # {}
          /\ Goto(b, "write")
          /\ UNCHANGED <<queue, snapVars>>
       \/ /\ removed(b) = {} /\ added(b) = {}
          /\ End(b, FALSE)
    /\ UNCHANGED <<bRest, bind, tuples, faults>>

ListSiblings(b) ==
    /\ pc[b] = "list"
    /\ sibs' = [sibs EXCEPT ![b] = Siblings(b)]
    /\ Goto(b, "spare")
    /\ UNCHANGED <<bRest, bind, tuples, queue, job, valid, want, have, keep, faults>>

(* The siblings' Roles are fetched after the list. *)
SpareSiblings(b) ==
    /\ pc[b] \in {"spare", "deleteSpare", "revokeSpare", "retractSpare"}
    /\ keep' = [keep EXCEPT ![b] = SiblingTuples(b)]
    /\ sibs' = [sibs EXCEPT ![b] = {}]
    /\ Goto(b, CASE pc[b] = "spare" -> "write" [] pc[b] = "deleteSpare" -> "deleteWrite"
                 [] pc[b] = "revokeSpare" -> "revokeWrite" [] OTHER -> "retractWrite")
    /\ UNCHANGED <<bRest, bind, tuples, queue, job, valid, want, have, faults>>

(* One Write adds and removes; duplicates and missing tuples are ignored. *)
Write(b) ==
    /\ pc[b] = "write"
    /\ tuples' = (tuples \ (removed(b) \ keep[b])) \cup added(b)
    /\ \E ack \in BOOLEAN : Answered(ack) /\ End(b, ~ack)
    /\ UNCHANGED <<bRest, bind>>

(* DeletePolicy, for the finalizer, for an unregistered type and for a Role   *)
(* that is gone: read, list the siblings, delete what none of them wants.     *)
(* Only the Role that is gone is an error then. *)
DeleteRead(b) ==
    /\ pc[b] \in {"deleteRead", "revokeRead", "retractRead"}
    /\ \/ /\ existing(b) # {}
          /\ have' = [have EXCEPT ![b] = existing(b)]
          /\ Goto(b, CASE pc[b] = "deleteRead" -> "deleteList"
                       [] pc[b] = "revokeRead" -> "revokeList" [] OTHER -> "retractList")
          /\ UNCHANGED <<queue, job, valid, want, sibs, keep>>
       \/ /\ existing(b) = {} /\ pc[b] = "deleteRead"
          /\ Goto(b, "unbind")
          /\ UNCHANGED <<queue, snapVars>>
       \/ /\ existing(b) = {} /\ pc[b] # "deleteRead"
          /\ End(b, pc[b] = "retractRead")
    /\ UNCHANGED <<bRest, bind, tuples, faults>>

DeleteList(b) ==
    /\ pc[b] \in {"deleteList", "revokeList", "retractList"}
    /\ valid' = [valid EXCEPT ![b] = validPerms(creg, cothers)]
    /\ sibs' = [sibs EXCEPT ![b] = Siblings(b)]
    /\ Goto(b, CASE pc[b] = "deleteList" -> "deleteSpare"
                 [] pc[b] = "revokeList" -> "revokeSpare" [] OTHER -> "retractSpare")
    /\ UNCHANGED <<bRest, bind, tuples, queue, job, want, have, keep, faults>>

Deleted(b) == tuples \ (have[b] \ keep[b])

DeleteWrite(b) ==
    /\ pc[b] = "deleteWrite"
    /\ tuples' = Deleted(b)
    /\ \E ack \in BOOLEAN :
        /\ Answered(ack)
        /\ \/ /\ ack
              /\ Goto(b, "unbind")
              /\ UNCHANGED <<queue, snapVars>>
           \/ /\ ~ack
              /\ End(b, TRUE)
    /\ UNCHANGED <<bRest, bind>>

RevokeWrite(b) ==
    /\ pc[b] \in {"revokeWrite", "retractWrite"}
    /\ tuples' = Deleted(b)
    /\ \E ack \in BOOLEAN : Answered(ack) /\ End(b, ~ack \/ pc[b] = "retractWrite")
    /\ UNCHANGED <<bRest, bind>>

(* The Update without our finalizer; the binding leaves storage with it. A    *)
(* binding that was updated requeues itself, and so does an error. *)
Unbind(b) ==
    /\ pc[b] = "unbind"
    /\ bind' = IF Current(b) THEN [bind EXCEPT ![b] = Gone] ELSE bind
    /\ End(b, TRUE)
    /\ UNCHANGED <<bRest, tuples, faults>>

(* Any call fails: the reconcile ends with an error. *)
Fail(b) ==
    /\ pc[b] # "idle" /\ faults < MaxFaults
    /\ faults' = faults + 1
    /\ End(b, TRUE)
    /\ UNCHANGED <<bRest, bind, tuples>>

(* The leader stops; its successor, whose flag may differ, starts with fresh   *)
(* caches and a full queue. *)
Restart ==
    /\ faults < MaxFaults
    /\ faults' = faults + 1
    /\ cbind' = bind /\ crole' = role /\ creg' = reg /\ cothers' = others
    /\ nbind' = {} /\ nrole' = {} /\ nreg' = FALSE
    /\ queue' = {b \in Bindings : Stored(bind[b])}
    /\ pc' = [b \in Bindings |-> "idle"] /\ job' = [b \in Bindings |-> NoBinding]
    /\ valid' = [b \in Bindings |-> {}]
    /\ want' = [b \in Bindings |-> {}] /\ have' = [b \in Bindings |-> {}]
    /\ sibs' = [b \in Bindings |-> {}] /\ keep' = [b \in Bindings |-> {}]
    /\ flag' \in Flags
    /\ UNCHANGED <<bind, role, reg, others, tuples, changes>>

-----------------------------------------------------------------------------
Idle ==
    /\ cbind = bind /\ crole = role /\ creg = reg /\ cothers = others
    /\ nbind = {} /\ nrole = {} /\ nreg = FALSE
    /\ queue = {} /\ pc = [b \in Bindings |-> "idle"]
    /\ job = [b \in Bindings |-> NoBinding] /\ valid = [b \in Bindings |-> {}]
    /\ want = [b \in Bindings |-> {}] /\ have = want
    /\ sibs = [b \in Bindings |-> {}] /\ keep = want
    /\ changes = 0 /\ faults = 0

(* What a stored binding asks for. *)
Wanted(b) ==
    IF bind[b].st = "live" /\ reg.there /\ role[RoleOf[b]].there
    THEN Grant(bind[b].subs, role[RoleOf[b]].perms, validPerms(reg, others)) ELSE {}

Init ==
    /\ flag \in Flags
    /\ bind = [b \in Bindings |-> NoBinding]
    /\ role \in [Roles -> {r \in Role : r.there}]
    /\ reg = [there |-> TRUE, perms |-> Perms \ Children] /\ others = Children
    /\ tuples = {}
    /\ Idle

(* Every binding has been reconciled, and nothing else is going on. *)
Settled ==
    /\ flag \in Flags
    /\ bind = [b \in Bindings |-> [st |-> "live", fin |-> TRUE, subs |-> SubjectsOf[b]]]
    /\ role \in [Roles -> {r \in Role : r.there}]
    /\ reg = [there |-> TRUE, perms |-> Perms \ Children] /\ others = Children
    /\ tuples = UNION {Wanted(b) : b \in Bindings}
    /\ Idle

BStep(b) ==
    \/ Start(b) \/ Validate(b) \/ ValidPerms(b) \/ FetchRole(b) \/ ReadExisting(b)
    \/ DiffTuples(b) \/ ListSiblings(b) \/ SpareSiblings(b) \/ Write(b)
    \/ DeleteRead(b) \/ DeleteList(b) \/ DeleteWrite(b) \/ RevokeWrite(b) \/ Unbind(b)

Next ==
    \/ \E b \in Bindings :
        \/ CreateBinding(b) \/ DeleteBinding(b) \/ EditSubjects(b) \/ BStep(b) \/ Fail(b)
        \/ SyncBinding(b) \/ NotifyBinding(b)
    \/ \E r \in Roles : EditRole(r) \/ SyncRole(r) \/ NotifyRole(r)
    \/ EditRegistration \/ SyncRegistration \/ NotifyRegistration
    \/ EditChildren \/ SyncChildren
    \/ Restart

Spec == Init /\ [][Next]_vars

(* A reconcile goes on until it ends, the workqueue runs every queued key and *)
(* informers deliver. Users and faults are under no obligation. *)
Fairness ==
    /\ \A b \in Bindings : WF_vars(BStep(b)) /\ WF_vars(SyncBinding(b)) /\ WF_vars(NotifyBinding(b))
    /\ \A r \in Roles : WF_vars(SyncRole(r)) /\ WF_vars(NotifyRole(r))
    /\ WF_vars(SyncRegistration) /\ WF_vars(SyncChildren) /\ WF_vars(NotifyRegistration)

FairSpec == Spec /\ Fairness

-----------------------------------------------------------------------------
(* Properties.                                                              *)

(* A tuple never loses its last binding: while it is stored, some stored      *)
(* binding names its subject. Bindings that share tuples may be deleted       *)
(* together, each sparing what it takes the other to want (DeletePolicy,      *)
(* openFGAFinalizer). *)
NoOrphanGrants ==
    \A t \in tuples : \E b \in Bindings : Stored(bind[b]) /\ t[1] \in bind[b].subs

(* Once bindings are settled, nothing that is only taken away - a binding, a  *)
(* Role, a permission, the registration - ever costs a live binding a tuple   *)
(* it still asks for (siblingDesiredTuples, reconcilePolicy). *)
SharedGrantsKept == \A b \in Bindings : Wanted(b) \subseteq tuples

(* No binding is created or edited. *)
NoneAdded ==
    \A b \in Bindings :
        bind'[b].st = "live" => bind[b].st = "live" /\ bind'[b].subs = bind[b].subs

Less(old, new) == new.perms \subseteq old.perms /\ (new.there => old.there)

(* Things are only taken away. *)
OnlyTaken ==
    /\ NoneAdded /\ flag' = flag
    /\ \A r \in Roles : Less(role[r], role'[r])
    /\ Less(reg, reg') /\ others' \subseteq others

(* Who deletes b has seen it deleted, who writes for it has it stored, and    *)
(* both know whom it names. *)
KnowsSharer(b) ==
    /\ Stored(bind[b]) => /\ bind[b].fin /\ Stored(cbind[b]) /\ cbind[b].subs = bind[b].subs
                          /\ pc[b] # "idle" => job[b].subs = bind[b].subs
    /\ bind[b].st = "live" => cbind[b].st = "live"
    /\ cbind[b].st = "live" => Stored(bind[b]) /\ pc[b] \notin Deleting
    /\ pc[b] \in Writing => Stored(bind[b])
    /\ \A t \in want[b] \cup have[b] : t[1] \in job[b].subs
    /\ pc[b] = "idle" => want[b] = {} /\ have[b] = {}

SharersInv == \A b \in Bindings : KnowsSharer(b)

(* The binding c wants t, as far as the others can know, or its worker is     *)
(* going to delete t. *)
Answers(c, t) ==
    /\ Stored(bind[c]) /\ t[1] \in bind[c].subs
    /\ \/ pc[c] \notin Deleting \ {"deleteRead"}
       \/ pc[c] = "deleteList" /\ t \in have[c]
       \/ pc[c] = "deleteSpare" /\ t \in have[c] /\ \A s \in sibs[c] : t[1] \notin s[2]
       \/ pc[c] = "deleteWrite" /\ t \in have[c] \ keep[c]

(* What NoOrphanGrants rests on: of the bindings that share a tuple, each     *)
(* sparing it for the others, one answers for it (DeletePolicy). *)
AnsweredFor == SharersInv /\ \A t \in tuples : \E c \in Bindings : Answers(c, t)

(* What a sibling asks for among the tuples of b's subjects is kept. *)
Spared(b) ==
    \A c \in Bindings \ {b} : \A t \in Wanted(c) : t[1] \in job[b].subs => t \in keep[b]

(* What b's worker knows is at least what there is. *)
KnowsEnough(b) ==
    /\ pc[b] \in Revoking => ~reg.there
    /\ pc[b] \in Retracting => ~role[RoleOf[b]].there
    /\ pc[b] \in {"role", "read", "diff", "list", "spare", "deleteSpare", "revokeSpare", "retractSpare"} =>
         reg.perms \cup others \subseteq valid[b]
    /\ pc[b] \in {"read", "diff", "list", "spare", "write"} => Wanted(b) \subseteq want[b]
    /\ pc[b] \in {"spare", "deleteSpare", "revokeSpare", "retractSpare"} =>
         \A c \in Bindings \ {b} :
            bind[c].st = "live" /\ bind[c].subs \cap job[b].subs # {} => <<c, bind[c].subs>> \in sibs[b]
    /\ pc[b] = "write" => removed(b) = {} \/ Spared(b)
    /\ pc[b] \in {"deleteWrite", "revokeWrite", "retractWrite"} => Spared(b)

(* What SharedGrantsKept rests on: when things are only taken away, caches and *)
(* what was read from them err towards keeping (siblingDesiredTuples). *)
SparingInv ==
    /\ flag /\ SharersInv
    /\ \A r \in Roles : Less(crole[r], role[r])
    /\ Less(creg, reg) /\ others \subseteq cothers
    /\ \A b \in Bindings : KnowsEnough(b)
    /\ SharedGrantsKept

(* With the flag, the stored tuples of whoever a binding names end up being    *)
(* what the bindings ask for, whatever the caches, failures and restarts in    *)
(* between, among them one that turns the flag on (Reconcile). *)
Converges ==
    <>[](flag => {t \in tuples : \E b \in Bindings : Stored(bind[b]) /\ t[1] \in bind[b].subs}
                 = UNION {Wanted(b) : b \in Bindings})

(* Whoever a live binding names now ends up with the permissions it gives,    *)
(* edits of its subjects, its Role and the registrations included. Without    *)
(* the flag this is said of the type's own permissions only: nothing wakes a  *)
(* binding when a child type changes                                          *)
(* (enqueuePolicyBindingsForProtectedResourceChange, reconcilePolicy). *)
GrantsArrive ==
    <>[](\A b \in Bindings : \A t \in Wanted(b) : flag \/ t[2] \in reg.perms => t \in tuples)

Quiet ==
    /\ cbind = bind /\ crole = role /\ creg = reg /\ cothers = others
    /\ nbind = {} /\ nrole = {} /\ ~nreg
    /\ queue = {} /\ \A b \in Bindings : pc[b] = "idle"

(* With nothing left to do, every live binding has the tuples it asks for:    *)
(* a sibling's removal has preserved them (the doc of DeletePolicy). *)
GrantedWhenQuiet == Quiet => \A b \in Bindings : Wanted(b) \subseteq tuples

=============================================================================
