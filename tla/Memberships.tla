---------------------------- MODULE Memberships ----------------------------
(***************************************************************************)
(* Who is a member of which group in OpenFGA: the GroupMemberships of       *)
(* internal/controller/groupmembership_controller.go with                   *)
(* internal/openfga/group_member_reconciler.go, and the membership in       *)
(* system:authenticated that                                                *)
(* internal/controller/systemgroup_controller.go gives every User and       *)
(* ServiceAccount.                                                          *)
(*                                                                          *)
(* Both act on an informer's copies of objects whose names are used again,  *)
(* and both hold an object with a finalizer until its tuple is gone.        *)
(***************************************************************************)
EXTENDS Naturals

CONSTANTS
    Users, Accounts, Groups, Members,   \* names; Members are the GroupMemberships
    UserOf, GroupOf,    \* the User and the Group a GroupMembership refers to
    Local,          \* the GroupMemberships in the namespace of their Group
    Casts,          \* how often each object may be created or deleted, one choice per
                    \* behaviour, and the Users and Groups that are settled at its start
    MaxTimes,       \* bound: creations and deletions of one object
    Relisted,       \* the objects whose watch may break and be listed anew
    MaxFaults       \* bound: failed calls, lost answers and restarts together

Principals == Users \cup Accounts
Keys == Principals \cup Members
Objects == Keys \cup Groups

ASSUME NamesDiffer ==
    Users \cap Accounts = {} /\ Members \cap Principals = {} /\ Groups \cap Keys = {}
ASSUME RefTypes == UserOf \in [Members -> Users] /\ GroupOf \in [Members -> Groups]
ASSUME CastTypes ==
    \A c \in Casts : c.times \in [Objects -> 0..MaxTimes] /\ c.settled \subseteq Users \cup Groups
ASSUME SetTypes == Local \subseteq Members /\ Relisted \subseteq Objects /\ MaxFaults \in Nat /\ MaxTimes \in Nat

VARIABLES
    obj,            \* the stored objects
    cached,         \* the informers' copies
    left,           \* how often an object may still be created or deleted
    queue,          \* the dirty keys
    job,            \* what the worker of a key is doing
    authenticated,  \* member tuples of system_authenticated
    members,        \* member tuples of Groups
    faults

vars == <<obj, cached, left, queue, job, authenticated, members, faults>>
tuples == <<authenticated, members>>

Refs == {"user", "group"}
Uids == 0..(MaxTimes + 1)   \* 0: there is no such object

(* An object: UID, deletion timestamp, this provider's finalizer, and a       *)
(* GroupMembership's status, the references found valid once it is "set".     *)
Object == [uid: Uids, del: BOOLEAN, fin: BOOLEAN, stat: SUBSET (Refs \cup {"set"})]
Absent == [uid |-> 0, del |-> FALSE, fin |-> FALSE, stat |-> {}]

(* A reconcile: where it is, the copy it read, the references it found and    *)
(* the UID of the Group. *)
Job == [at: {"idle", "addFinalizer", "read", "write", "delete", "strip",
             "validate", "check", "add", "status", "finalize", "recheck", "remove"},
        seen: Object, found: SUBSET Refs, group: Uids]
NoJob == [at |-> "idle", seen |-> Absent, found |-> {}, group |-> 0]

(* What a tuple of system_authenticated names is a User's name or a           *)
(* ServiceAccount's UID, and a Group is always named by its UID. *)
TypeOK ==
    /\ obj \in [Objects -> Object] /\ cached \in [Objects -> Object]
    /\ left \in [Objects -> 0..MaxTimes]
    /\ queue \subseteq Keys /\ job \in [Keys -> Job]
    /\ authenticated \subseteq (Users \X {0}) \cup (Accounts \X (Uids \ {0}))
    /\ members \subseteq Users \X Groups \X (Uids \ {0})
    /\ faults \in 0..MaxFaults

-----------------------------------------------------------------------------
(* Names in OpenFGA and the cluster.                                        *)

(* systemGroupTupleKey *)
Token(p, r) == <<p, IF p \in Accounts THEN r.uid ELSE 0>>

(* The Group where the User belongs. *)
MemberTupleSwapped(m, group) == <<GroupOf[m], UserOf[m], group>>

(* getOpenFGAGroupAndMember *)
MemberTuple(m, group) == <<UserOf[m], GroupOf[m], group>>

Present(r) == r.uid # 0
Live(r) == Present(r) /\ ~r.del

(* A call whose answer is lost fails for the caller. *)
Answered(ack) ==
    /\ ack \/ faults < MaxFaults
    /\ faults' = IF ack THEN faults ELSE faults + 1

(* What is left is never the same twice, and serves as UID. *)
Create(o) ==
    /\ ~Present(obj[o]) /\ left[o] > 0
    /\ obj' = [obj EXCEPT ![o] = [Absent EXCEPT !.uid = left[o]]]
    /\ left' = [left EXCEPT ![o] = @ - 1]
    /\ UNCHANGED <<cached, queue, job, tuples, faults>>

Delete(o) ==
    /\ Live(obj[o]) /\ left[o] > 0
    /\ obj' = [obj EXCEPT ![o].del = TRUE]
    /\ left' = [left EXCEPT ![o] = @ - 1]
    /\ UNCHANGED <<cached, queue, job, tuples, faults>>

(* Others' finalizers may hold an object for a while as well. *)
Leave(o) ==
    /\ obj[o].del /\ ~obj[o].fin
    /\ obj' = [obj EXCEPT ![o] = Absent]
    /\ UNCHANGED <<cached, left, queue, job, tuples, faults>>

(* API server: a deletion timestamp is a new generation, a finalizer or a     *)
(* status is not. *)
Generation(r) == IF r.del THEN 2 ELSE 1

(* GenerationChangedPredicate lets creations and deletions pass. *)
Passes(old, new) ==
    \/ ~Present(old) \/ ~Present(new)
    \/ Generation(old) # Generation(new)

(* Without enqueueGroupMembershipsForGroupChange. *)
RequestsOfUsers(o) ==
    (({o} \cap Keys) \cup {m \in Members : Present(cached[m]) /\ UserOf[m] = o})

(* The controllers' own keys, and the GroupMemberships an index finds for a   *)
(* User or a Group: enqueueGroupMembershipsForUserChange and ...ForGroupChange. *)
Requests(o) ==
    ({o} \cap Keys) \cup
    {m \in Members : Present(cached[m]) /\ (UserOf[m] = o \/ (GroupOf[m] = o /\ m \in Local))}

Notice(o, r) ==
    /\ cached' = [cached EXCEPT ![o] = r]
    /\ queue' = IF Passes(cached[o], r) THEN queue \cup Requests(o) ELSE queue
    /\ UNCHANGED <<obj, left, job, tuples, faults>>

(* A watch delivers the end of one incarnation before the next one. *)
Observe(o) ==
    /\ cached[o] # obj[o]
    /\ Notice(o, IF cached[o].uid \in {0, obj[o].uid} THEN obj[o] ELSE Absent)

(* A list after a broken watch shows the next incarnation as an update. *)
Relist(o) ==
    /\ o \in Relisted /\ Present(cached[o]) /\ Present(obj[o])
    /\ cached[o].uid # obj[o].uid
    /\ Notice(o, obj[o])

-----------------------------------------------------------------------------
(* Both kinds of reconcile.                                                 *)

Kind(p) == IF p \in Users THEN Users ELSE Accounts

(* Writes before the object is held. *)
FirstStepUnheld(r) ==
    CASE ~Present(r) -> "idle"
      [] Present(r) /\ r.del -> IF r.fin THEN "delete" ELSE "idle"
      [] OTHER -> "read"

(* reconcileUser, reconcileServiceAccountMultiCluster, reconcileObject and    *)
(* handleDeletion up to their first call. *)
FirstStep(r) ==
    CASE ~Present(r) -> "idle"
      [] Present(r) /\ r.del -> IF r.fin THEN "delete" ELSE "idle"
      [] Live(r) /\ ~r.fin -> "addFinalizer"
      [] OTHER -> "read"

(* GroupMembershipReconciler.Reconcile up to its first call. *)
FirstMemberStep(r) ==
    CASE ~Present(r) -> "idle"
      [] Present(r) /\ r.del -> IF r.fin THEN "finalize" ELSE "idle"
      [] Live(r) /\ ~r.fin -> "addFinalizer"
      [] OTHER -> "validate"

Start(k, at) ==
    /\ queue' = queue \ {k}
    /\ job' = [job EXCEPT ![k] = IF at = "idle" THEN NoJob
                                 ELSE [NoJob EXCEPT !.at = at, !.seen = cached[k]]]
    /\ UNCHANGED <<obj, cached, left, tuples, faults>>

(* Users have one worker and ServiceAccounts have one. *)
StartPrincipal(p) ==
    /\ p \in queue /\ \A q \in Kind(p) : job[q].at = "idle"
    /\ Start(p, FirstStep(cached[p]))

(* GroupMemberships have twenty workers; a key is never with two of them. *)
StartMember(m) ==
    /\ m \in queue /\ job[m].at = "idle"
    /\ Start(m, FirstMemberStep(cached[m]))

Goto(k, at) == job' = [job EXCEPT ![k].at = at] /\ UNCHANGED queue

End(k, again) ==
    /\ job' = [job EXCEPT ![k] = NoJob]
    /\ queue' = IF again THEN queue \cup {k} ELSE queue

(* A failed call is returned as an error, which queues the key again. *)
Continue(k, ack, at) == IF ack THEN Goto(k, at) ELSE End(k, TRUE)

(* API server: an Update takes effect only on the version that was read. *)
Update(k, r) == obj' = [obj EXCEPT ![k] = IF job[k].seen = @ THEN r ELSE @]

(* controllerutil.AddFinalizer, or the first run of Finalizers.Finalize. *)
AddFinalizer(k, ack) ==
    /\ job[k].at = "addFinalizer"
    /\ Answered(ack)
    /\ Update(k, [obj[k] EXCEPT !.fin = TRUE])
    /\ End(k, TRUE)
    /\ UNCHANGED <<cached, left, tuples>>

(* The last call of handleDeletion, and of a finalized GroupMembership, which *)
(* asks to be queued again in any case. *)
Strip(k, ack) ==
    /\ job[k].at = "strip"
    /\ Answered(ack)
    /\ Update(k, [obj[k] EXCEPT !.fin = FALSE])
    /\ End(k, ~ack \/ k \in Members \/ job[k].seen # obj[k])
    /\ UNCHANGED <<cached, left, tuples>>

(* A failure that is logged and not returned. *)
FailSwallowed(k) ==
    /\ job[k].at \notin {"idle", "read"} /\ faults < MaxFaults
    /\ faults' = faults + 1
    /\ End(k, FALSE)
    /\ UNCHANGED <<obj, cached, left, tuples>>

(* Any call but the read fails without effect. *)
Fail(k) ==
    /\ job[k].at \notin {"idle", "read"} /\ faults < MaxFaults
    /\ faults' = faults + 1
    /\ End(k, TRUE)
    /\ UNCHANGED <<obj, cached, left, tuples>>

(* The process stops; the next one lists everything and queues what it finds. *)
Restart ==
    /\ faults < MaxFaults
    /\ faults' = faults + 1
    /\ job' = [k \in Keys |-> NoJob]
    /\ cached' = obj
    /\ queue' = {k \in Keys : Present(obj[k])}
    /\ UNCHANGED <<obj, left, tuples>>

-----------------------------------------------------------------------------
(* system:authenticated.                                                    *)

(* A failed read taken for a stored tuple. *)
ReadTupleTrusted(p) ==
    /\ job[p].at = "read"
    /\ \/ /\ IF Token(p, job[p].seen) \in authenticated THEN End(p, FALSE) ELSE Goto(p, "write")
          /\ UNCHANGED faults
       \/ faults < MaxFaults /\ faults' = faults + 1 /\ End(p, FALSE)
    /\ UNCHANGED <<obj, cached, left, tuples>>

(* systemGroupTupleExists: a failed read is answered with a write. *)
ReadTuple(p) ==
    /\ job[p].at = "read"
    /\ \/ /\ IF Token(p, job[p].seen) \in authenticated THEN End(p, FALSE) ELSE Goto(p, "write")
          /\ UNCHANGED faults
       \/ faults < MaxFaults /\ faults' = faults + 1 /\ Goto(p, "write")
    /\ UNCHANGED <<obj, cached, left, tuples>>

(* writeSystemGroupTuple: a tuple that exists already is success. *)
WriteTuple(p, ack) ==
    /\ job[p].at = "write"
    /\ Answered(ack)
    /\ authenticated' = authenticated \cup {Token(p, job[p].seen)}
    /\ End(p, ~ack)
    /\ UNCHANGED <<obj, cached, left, members>>

(* deleteSystemGroupTuple: a tuple that does not exist is success. *)
DeleteTuple(p, ack) ==
    /\ job[p].at = "delete"
    /\ Answered(ack)
    /\ authenticated' = authenticated \ {Token(p, job[p].seen)}
    /\ Continue(p, ack, "strip")
    /\ UNCHANGED <<obj, cached, left, members>>

-----------------------------------------------------------------------------
(* GroupMemberships.                                                        *)

(* validateRef, or the two Gets of Finalize: references are looked up in the  *)
(* cache, and what is being deleted is found too. *)
Found(m) ==
    {ref \in Refs : Present(cached[IF ref = "user" THEN UserOf[m] ELSE GroupOf[m]])}

LookUp(m, from, valid, invalid) ==
    /\ job[m].at = from
    /\ job' = [job EXCEPT ![m].at = IF Found(m) = Refs THEN valid ELSE invalid,
                          ![m].found = Found(m),
                          ![m].group = cached[GroupOf[m]].uid]
    /\ UNCHANGED <<obj, cached, left, queue, tuples, faults>>

ValidateRefs(m) == LookUp(m, "validate", "check", "status")

(* UserGroupFinalizer.Finalize: without the User or the Group it does nothing. *)
Finalize(m) == LookUp(m, "finalize", "recheck", "strip")

Stored(m) == MemberTuple(m, job[m].group) \in members

(* checkIfTupleKeyExists, of AddMemberToGroup and of RemoveMemberFromGroup: a  *)
(* Check that OpenFGA answers from its store, as with its query cache off. *)
CheckTuple(m) ==
    /\ \/ job[m].at = "check" /\ Goto(m, IF Stored(m) THEN "status" ELSE "add")
       \/ job[m].at = "recheck" /\ Goto(m, IF Stored(m) THEN "remove" ELSE "strip")
    /\ UNCHANGED <<obj, cached, left, tuples, faults>>

AddMember(m, ack) ==
    /\ job[m].at = "add"
    /\ Answered(ack)
    /\ members' = members \cup {MemberTuple(m, job[m].group)}
    /\ Continue(m, ack, "status")
    /\ UNCHANGED <<obj, cached, left, authenticated>>

(* Takes any error for a tuple that was not found. *)
RemoveMemberForgiving(m, ack) ==
    /\ job[m].at = "remove"
    /\ Answered(ack)
    /\ members' = IF ack THEN members \ {MemberTuple(m, job[m].group)} ELSE members
    /\ Goto(m, "strip")
    /\ UNCHANGED <<obj, cached, left, authenticated>>

RemoveMember(m, ack) ==
    /\ job[m].at = "remove"
    /\ Answered(ack)
    /\ members' = members \ {MemberTuple(m, job[m].group)}
    /\ Continue(m, ack, "strip")
    /\ UNCHANGED <<obj, cached, left, authenticated>>

(* The conditions are written only if they changed. *)
UpdateStatus(m, ack) ==
    LET stat == job[m].found \cup {"set"} IN
    /\ job[m].at = "status"
    /\ IF stat = job[m].seen.stat
       THEN ack /\ End(m, FALSE) /\ UNCHANGED <<obj, faults>>
       ELSE /\ Answered(ack)
            /\ Update(m, [obj[m] EXCEPT !.stat = stat])
            /\ End(m, ~ack \/ job[m].seen # obj[m])
    /\ UNCHANGED <<cached, left, tuples>>

-----------------------------------------------------------------------------
Init ==
    /\ \E c \in Casts :
         /\ left = c.times
         /\ obj = [o \in Objects |->
                     IF o \in c.settled
                     THEN [Absent EXCEPT !.uid = c.times[o] + 1, !.fin = o \in Principals]
                     ELSE Absent]
         /\ authenticated = {Token(p, obj[p]) : p \in c.settled \cap Principals}
    /\ cached = obj /\ members = {}
    /\ queue = {} /\ job = [k \in Keys |-> NoJob]
    /\ faults = 0

PrincipalStep(p) ==
    \/ StartPrincipal(p) \/ ReadTuple(p)
    \/ \E ack \in BOOLEAN : AddFinalizer(p, ack) \/ WriteTuple(p, ack)
                            \/ DeleteTuple(p, ack) \/ Strip(p, ack)

MemberStep(m) ==
    \/ StartMember(m) \/ ValidateRefs(m) \/ Finalize(m) \/ CheckTuple(m)
    \/ \E ack \in BOOLEAN : AddFinalizer(m, ack) \/ AddMember(m, ack) \/ RemoveMember(m, ack)
                            \/ UpdateStatus(m, ack) \/ Strip(m, ack)

Next ==
    \/ \E o \in Objects : Create(o) \/ Delete(o) \/ Leave(o) \/ Observe(o) \/ Relist(o)
    \/ \E p \in Principals : PrincipalStep(p)
    \/ \E m \in Members : MemberStep(m)
    \/ \E k \in Keys : Fail(k)
    \/ Restart

(* Watches deliver, what nothing holds leaves storage, and workers take keys  *)
(* off the queue and finish. A key comes back only for an event, a fault or a *)
(* conflict that ends with the next event, so none keeps a worker for good.   *)
Fairness ==
    /\ \A o \in Objects : WF_vars(Observe(o)) /\ WF_vars(Leave(o))
    /\ \A p \in Principals : WF_vars(PrincipalStep(p))
    /\ \A m \in Members : WF_vars(MemberStep(m))

Spec == Init /\ [][Next]_vars /\ Fairness

-----------------------------------------------------------------------------
(* system_authenticated never has a member that is not a stored User or       *)
(* ServiceAccount, of that UID, which this provider's finalizer holds: the    *)
(* finalizer comes before the write and goes after the delete, whatever the   *)
(* copy a reconcile acts on (reconcileObject, handleDeletion). *)
NoOrphanAuthenticated ==
    \A t \in authenticated :
        /\ Present(obj[t[1]]) /\ obj[t[1]].fin
        /\ t = Token(t[1], obj[t[1]])

Others(m) == {n \in Members \ {m} : UserOf[n] = UserOf[m] /\ GroupOf[n] = GroupOf[m]}

(* When a GroupMembership whose finalization found User and Group is released, *)
(* its User is no member of the Group of that name any more, unless another   *)
(* GroupMembership names the same pair: a Group re-created meanwhile has no   *)
(* tuple left either (UserGroupFinalizer.Finalize). *)
ReleasedMembersGone ==
    [][\A m \in Members :
         obj[m].fin /\ ~obj'[m].fin /\ job[m].found = Refs /\ Others(m) = {} =>
           MemberTuple(m, obj[GroupOf[m]].uid) \notin members']_vars

(* Names in use are told apart by what is left: no copy and no tuple has a UID *)
(* that is still to come. *)
FreshInv ==
    /\ \A o \in Objects : \A c \in {obj[o], cached[o]} : Present(c) => left[o] < c.uid
    /\ \A k \in Keys : Present(job[k].seen) => left[k] < job[k].seen.uid
    /\ \A m \in Members : job[m].group # 0 => left[GroupOf[m]] < job[m].group
    /\ \A t \in members : left[t[2]] < t[3]

(* c is of the incarnation d is of. *)
Same(c, d) == Present(c) /\ c.uid = d.uid

(* What a worker read is no newer than the cache, nor the cache than storage,  *)
(* and a copy of a live object under our finalizer is of one that has it still. *)
CopyInv ==
    \A p \in Principals :
        LET seen == job[p].seen IN
        /\ Same(cached[p], obj[p]) /\ cached[p].del => obj[p].del
        /\ Same(seen, obj[p]) => cached[p].uid = obj[p].uid /\ (seen.del => cached[p].del)
        /\ \A c \in {cached[p], seen} : Live(c) /\ c.fin => c.uid = obj[p].uid /\ obj[p].fin

PrincipalInv ==
    \A p \in Principals :
        LET seen == job[p].seen IN
        /\ job[p].at \in {"read", "write"} => Live(seen) /\ seen.fin
        /\ job[p].at \in {"delete", "strip"} => Present(seen) /\ seen.del
        /\ job[p].at = "strip" => Token(p, seen) \notin authenticated

(* A Group's UID reaches a worker and a tuple through the cache only, so a    *)
(* finalization that has looked up the Group knows of every tuple on the      *)
(* Group of that name. *)
MemberInv ==
    /\ \A t \in members : t[3] = obj[t[2]].uid => cached[t[2]].uid = t[3]
    /\ \A m \in Members :
        LET j == job[m]
            group == obj[GroupOf[m]].uid IN
        /\ (obj[m].fin => Present(obj[m])) /\ (j.at = "addFinalizer" => Present(j.seen))
        /\ j.at \in {"check", "add", "recheck", "remove"} => j.group # 0
        /\ j.group # 0 /\ j.group = group => cached[GroupOf[m]].uid = group
        /\ j.at \in {"recheck", "remove", "strip"} /\ j.found = Refs /\ Others(m) = {} =>
             /\ MemberTuple(m, group) \in members => group = j.group
             /\ j.at = "strip" => MemberTuple(m, j.group) \notin members

(* What NoOrphanAuthenticated and ReleasedMembersGone rest on: how old the    *)
(* copies are that a reconcile acts on, and what it has made sure of before   *)
(* it takes its finalizer off (reconcileObject, handleDeletion, Finalize). *)
MembershipInv == FreshInv /\ CopyInv /\ PrincipalInv /\ MemberInv /\ NoOrphanAuthenticated

(* However users come, go and come back, in the end exactly the live Users    *)
(* and ServiceAccounts are members of system_authenticated (SystemGroupReconciler). *)
AuthenticatedSettles ==
    <>[](authenticated = {Token(p, obj[p]) : p \in {q \in Principals : Live(obj[q])}})

(* In the end the User of a live GroupMembership is a member of the Group that *)
(* bears the name now, if both exist, the Group's events reach it and no      *)
(* other GroupMembership names the same pair                                  *)
(* (GroupMembershipReconciler.Reconcile). *)
MembersSettle ==
    <>[](\A m \in Local :
           /\ Live(obj[m]) /\ Others(m) = {}
           /\ Present(obj[UserOf[m]]) /\ Present(obj[GroupOf[m]])
           => MemberTuple(m, obj[GroupOf[m]].uid) \in members)

(* What is deleted leaves storage: no finalizer stays on for ever             *)
(* (handleDeletion, Finalizers.Finalize). *)
DeletedObjectsLeave == \A o \in Objects : obj[o].del ~> ~obj[o].del
=============================================================================
