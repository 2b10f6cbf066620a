----------------------------- MODULE TargetHold -----------------------------
(***************************************************************************)
(* How tuples that name an Organization or a Project are kept from          *)
(* outliving it: the finalizer ("hold") both kinds carry, the per-object    *)
(* locks the controllers share, the guarded write of a PolicyBinding, the   *)
(* parent tuple of a Project, and the clear-then-release of a deleted       *)
(* object.  internal/controller: target_hold.go, object_tuples.go,          *)
(* organization_controller.go, resourceownerhierarchy_controller.go and the *)
(* locked half of policybinding_controller.go.                              *)
(*                                                                          *)
(* Every API call, OpenFGA call and lock operation is a step of its own.    *)
(* One worker per key: the workqueue never runs two reconciles of one key.  *)
(***************************************************************************)
EXTENDS Naturals, FiniteSets

CONSTANTS
    Orgs,           \* names of Organizations
    Projects,       \* names of Projects
    Bindings,       \* names of PolicyBindings whose target is of a held kind
    Grants,         \* what a binding grants: a subject and a permission
    GrantOf,        \* the grant of each binding; bindings may share one
    Locks,          \* the pool of the hashed key mutex
    LockOf,         \* the hash: the lock of each object
    NoName,         \* no object: the owner of an object without owner reference
    Free,           \* the holder of a lock nobody holds
    Subresource,    \* the flag EnableSubresourceAuthorization
    MayUnregister,  \* may the Project registration stop naming Organization as parent?
    MiloHolds,      \* whether Milo's finalizer is on a new object: the cases considered
    Deletable,      \* bound: the objects users delete
    MaxUid,         \* bound: objects ever created
    MaxBinds,       \* bound: PolicyBindings ever created under one name
    MaxMoves,       \* bound: owner-reference edits of one Project
    MaxFaults,      \* bound: failed calls, lost answers and restarts together
    MaxLate         \* bound: timed-out grant writes that may still be applied later

Objects == Orgs \cup Projects

ASSUME NamesDisjoint ==
    /\ Orgs \cap Projects = {}
    /\ Bindings \cap Objects = {}
    /\ NoName \notin Objects
    /\ Free \notin Bindings \cup Objects
ASSUME LockOfType == LockOf \in [Objects -> Locks]
ASSUME GrantOfType == GrantOf \in [Bindings -> Grants]
ASSUME FlagTypes == Subresource \in BOOLEAN /\ MayUnregister \in BOOLEAN /\ MiloHolds \subseteq BOOLEAN
ASSUME DeletableType == Deletable \subseteq Objects
ASSUME BoundTypes ==
    MaxUid \in Nat /\ MaxBinds \in Nat /\ MaxMoves \in Nat /\ MaxFaults \in Nat /\ MaxLate \in Nat

VARIABLES
    api,        \* the object each name holds in storage; uid 0 is "no object"
    cache,      \* the informer's copy of it, which typed Gets read
    notify,     \* objects with a cache update whose handler has not run yet
    nextUid,
    registered, \* does the Project registration name Organization as a parent?
    bind,       \* the PolicyBindings
    cbind,      \* the informer's copies of them
    made,       \* how many were created under each name
    grants,     \* stored tuples <<grant, object>>, whichever bindings ask for them
    parents,    \* stored tuples <<organization, project>>
    late,       \* grants whose write timed out at the client, not yet applied
    lock,       \* the holder of each lock
    bq, oq,     \* the dirty keys of the workqueues
    bpc, opc,   \* where each worker is
    job,        \* the binding as its worker read it
    target,     \* the target as the guard read it
    snap,       \* the object as its worker read it from the cache
    owner,      \* the owner as the Project's worker read it
    foundG, foundP, \* the tuples an object's worker has read
    faults, timeouts

objVars == <<api, cache, notify, nextUid, registered>>
fgaVars == <<grants, parents, late>>
bVars == <<bind, cbind, made, bq, bpc, job, target>>
oVars == <<oq, opc, snap, owner, foundG, foundP>>
vars == <<objVars, fgaVars, bVars, oVars, lock, faults, timeouts>>

Object == [uid: Nat, ours: BOOLEAN, milo: BOOLEAN, del: BOOLEAN,
           owner: Orgs \cup {NoName}, ouid: Nat, moves: Nat]
NoObject == [uid |-> 0, ours |-> FALSE, milo |-> FALSE, del |-> FALSE,
             owner |-> NoName, ouid |-> 0, moves |-> 0]
NoBinding == [st |-> "none", fin |-> FALSE, target |-> NoName, uid |-> 0]
Binding == [st: {"live", "deleting"}, fin: BOOLEAN, target: Objects, uid: Nat] \cup {NoBinding}

BGuarded == {"diff", "guard", "hold", "write"}
BPc == {"idle", "validate", "lock", "evict", "deletePolicy", "unbind"} \cup BGuarded
OClearing == {"clearObject", "clearUser", "delete", "lock"}
OFinal == {"remObject", "remUser", "release"}
OSyncing == {"existing", "stale", "lockOwner"}
OParent == {"ownerRead", "ownerHold", "parent", "unparent"}
OPc == {"idle"} \cup OClearing \cup OFinal \cup OSyncing \cup OParent

ObjectsOK ==
    /\ api \in [Objects -> Object] /\ cache \in [Objects -> Object]
    /\ notify \subseteq Objects
    /\ nextUid \in 1..(MaxUid + 1)
    /\ registered \in BOOLEAN
StoreOK ==
    /\ bind \in [Bindings -> Binding] /\ cbind \in [Bindings -> Binding]
    /\ made \in [Bindings -> 0..MaxBinds]
    /\ grants \subseteq Grants \X Objects
    /\ parents \subseteq Orgs \X Projects
    /\ late \subseteq Grants \X Objects
BWorkersOK ==
    /\ bpc \in [Bindings -> BPc] /\ bq \subseteq Bindings
    /\ job \in [Bindings -> Binding] /\ target \in [Bindings -> Object]
OWorkersOK ==
    /\ opc \in [Objects -> OPc] /\ oq \subseteq Objects
    /\ snap \in [Objects -> Object] /\ owner \in [Objects -> Object]
    /\ foundG \in [Objects -> SUBSET (Grants \X Objects)]
    /\ foundP \in [Objects -> SUBSET (Orgs \X Projects)]
LocksOK == lock \in [Locks -> Bindings \cup Objects \cup {Free}]
BoundsOK == faults \in 0..MaxFaults /\ timeouts \in 0..MaxLate

(* Every variable keeps the type the code gives it. *)
TypeOK == ObjectsOK /\ StoreOK /\ BWorkersOK /\ OWorkersOK /\ LocksOK /\ BoundsOK

-----------------------------------------------------------------------------
(* Helpers of the code.                                                     *)

(* A hold that forgets the UID: any object under the name will do. *)
HoldOfAnyUid(obj, uid) ==
    IF obj.uid = 0 THEN "missing"
    ELSE IF obj.del THEN "deleting"
    ELSE IF obj.ours THEN "held" ELSE "notYet"

holdOf(obj, uid) ==
    IF obj.uid = 0 THEN "missing"
    ELSE IF obj.uid # uid THEN "replaced"
    ELSE IF obj.del THEN "deleting"
    ELSE IF obj.ours THEN "held" ELSE "notYet"

(* Milo's finalizer read the wrong way round: clear before Milo has drained. *)
DrainedEarly(obj) == TRUE

drained(obj) == ~obj.milo

(* The tuples on the object itself: grants, and the parent tuple of a Project. *)
grantsOn(o) == {t \in grants : t[2] = o}
parentsOn(o) == {t \in parents : t[2] = o}

(* A lookup that forgets that the object can be the user of a tuple. *)
ChildrenForgotten(o) == {}

(* The tuples in which the object is the user, found through the registered *)
(* child types only. *)
parentsOf(o) == IF registered THEN {t \in parents : t[1] = o} ELSE {}

(* API server: an Update takes effect only on the version that was read. The *)
(* fields of one incarnation only move forward, so equal records are the     *)
(* same version. *)
Current(o, read) == read = api[o] /\ read.uid # 0

Hold(o) == [api EXCEPT ![o] = [@ EXCEPT !.ours = TRUE]]

(* API server: an object leaves storage with its last finalizer. *)
Removed(obj) == IF obj.ours \/ obj.milo THEN obj ELSE NoObject

Unhold(o) == [api EXCEPT ![o] = Removed([@ EXCEPT !.ours = FALSE])]
Deleted(o) == [api EXCEPT ![o] = Removed([@ EXCEPT !.del = TRUE])]
Drained(o) == [api EXCEPT ![o] = Removed([@ EXCEPT !.milo = FALSE])]

LockFree(o) == lock[LockOf[o]] = Free
(* A lock that does not exclude anybody. *)
AcquiredUnchecked(o, w) == lock' = [lock EXCEPT ![LockOf[o]] = w]

Acquire(o, w) == LockFree(o) /\ lock' = [lock EXCEPT ![LockOf[o]] = w]

(* A return path that forgets to unlock. *)
Unlocked(w) == UNCHANGED lock

Unlock(w) == lock' = [l \in Locks |-> IF lock[l] = w THEN Free ELSE lock[l]]

(* A call fails, or its answer is lost, only while the budget lasts. *)
Answered(ack) ==
    /\ ack \/ faults < MaxFaults
    /\ faults' = IF ack THEN faults ELSE faults + 1

-----------------------------------------------------------------------------
(* Users and Milo.                                                          *)

Fresh(milo, own, ouid) ==
    [uid |-> nextUid, ours |-> FALSE, milo |-> milo, del |-> FALSE,
     owner |-> own, ouid |-> ouid, moves |-> 0]

(* An object is created, with Milo's finalizer or deleted before Milo added  *)
(* it. A Project may name an Organization that exists as its owner. *)
Create(o) ==
    /\ api[o].uid = 0 /\ nextUid <= MaxUid
    /\ \E milo \in MiloHolds :
        \/ /\ o \in Orgs
           /\ api' = [api EXCEPT ![o] = Fresh(milo, NoName, 0)]
        \/ \E r \in Orgs :
             /\ o \in Projects /\ api[r].uid # 0
             /\ api' = [api EXCEPT ![o] = Fresh(milo, r, api[r].uid)]
    /\ nextUid' = nextUid + 1
    /\ UNCHANGED <<cache, notify, registered, fgaVars, bVars, oVars, lock, faults, timeouts>>

Delete(o) ==
    /\ o \in Deletable /\ api[o].uid # 0 /\ ~api[o].del
    /\ api' = Deleted(o)
    /\ UNCHANGED <<cache, notify, nextUid, registered, fgaVars, bVars, oVars, lock, faults, timeouts>>

MiloDrains(o) ==
    /\ api[o].del /\ api[o].milo
    /\ api' = Drained(o)
    /\ UNCHANGED <<cache, notify, nextUid, registered, fgaVars, bVars, oVars, lock, faults, timeouts>>

Moved(obj, r, ouid) == [obj EXCEPT !.owner = r, !.ouid = ouid, !.moves = obj.moves + 1]

(* The owner reference of a live Project is edited. *)
Reparent(p, r) ==
    /\ api[p].uid # 0 /\ ~api[p].del /\ api[p].moves < MaxMoves
    /\ api[r].uid # 0 /\ api[p].owner # r
    /\ api' = [api EXCEPT ![p] = Moved(api[p], r, api[r].uid)]
    /\ UNCHANGED <<cache, notify, nextUid, registered, fgaVars, bVars, oVars, lock, faults, timeouts>>

(* The Project's ProtectedResource drops Organization as a parent. *)
Unregister ==
    /\ MayUnregister /\ registered
    /\ registered' = FALSE
    /\ UNCHANGED <<api, cache, notify, nextUid, fgaVars, bVars, oVars, lock, faults, timeouts>>

(* A binding names a target by the name and UID the object has by then. *)
CreateBinding(b, o) ==
    /\ bind[b].st = "none" /\ made[b] < MaxBinds /\ api[o].uid # 0
    /\ bind' = [bind EXCEPT ![b] = [st |-> "live", fin |-> FALSE, target |-> o, uid |-> api[o].uid]]
    /\ made' = [made EXCEPT ![b] = @ + 1]
    /\ UNCHANGED <<objVars, fgaVars, cbind, bq, bpc, job, target, oVars, lock, faults, timeouts>>

DeleteBinding(b) ==
    /\ bind[b].st = "live"
    /\ bind' = [bind EXCEPT ![b] = IF bind[b].fin THEN [@ EXCEPT !.st = "deleting"] ELSE NoBinding]
    /\ UNCHANGED <<objVars, fgaVars, cbind, made, bq, bpc, job, target, oVars, lock, faults, timeouts>>

(* The informer stores the newest version of a binding, and its handler       *)
(* queues the key, whatever the worker does meanwhile. Its predicate drops     *)
(* the finalizer's own update, whose reconcile asks for another one itself. *)
SyncBinding(b) ==
    /\ cbind[b] # bind[b]
    /\ cbind' = [cbind EXCEPT ![b] = bind[b]]
    /\ bq' = bq \cup {b}
    /\ UNCHANGED <<objVars, fgaVars, bind, made, bpc, job, target, oVars, lock, faults, timeouts>>

(* The informer stores the newest version, and calls the handler later. A    *)
(* Project's delete event is dropped: its last version lacks our finalizer. *)
SyncCache(o) ==
    /\ cache[o] # api[o]
    /\ cache' = [cache EXCEPT ![o] = api[o]]
    /\ notify' = IF o \in Projects /\ api[o].uid = 0 THEN notify ELSE notify \cup {o}
    /\ UNCHANGED <<api, nextUid, registered, fgaVars, bVars, oVars, lock, faults, timeouts>>

Notify(o) ==
    /\ o \in notify
    /\ notify' = notify \ {o}
    /\ oq' = oq \cup {o}
    /\ UNCHANGED <<api, cache, nextUid, registered, fgaVars, bVars, opc, snap, owner,
                   foundG, foundP, lock, faults, timeouts>>

-----------------------------------------------------------------------------
(* The PolicyBinding's worker.                                              *)

bRest == <<objVars, oVars, cbind, made, timeouts>>

Target(b) == job[b].target

(* The tuple a binding asks for: user, relation and object, no UID. *)
Tuple(b) == <<GrantOf[b], Target(b)>>

(* A reconcile ends; an error or Requeue puts the key back. *)
BEnd(b, again) ==
    /\ bpc' = [bpc EXCEPT ![b] = "idle"]
    /\ bq' = IF again THEN bq \cup {b} ELSE bq
    /\ job' = [job EXCEPT ![b] = NoBinding]
    /\ target' = [target EXCEPT ![b] = NoObject]
    /\ Unlock(b)

(* The reconcile starts from the cached binding. Its own finalizer goes on     *)
(* the version that was read, or the Update fails and is retried. *)
BStart(b) ==
    /\ bpc[b] = "idle" /\ b \in bq
    /\ \/ /\ cbind[b].st = "none"
          /\ bq' = bq \ {b}
          /\ UNCHANGED <<bind, bpc, job>>
       \/ /\ cbind[b].st = "live" /\ ~cbind[b].fin
          /\ bind' = IF bind[b] = cbind[b] THEN [bind EXCEPT ![b] = [@ EXCEPT !.fin = TRUE]]
                     ELSE bind
          /\ UNCHANGED <<bq, bpc, job>>
       \/ /\ cbind[b].fin
          /\ bpc' = [bpc EXCEPT ![b] = IF cbind[b].st = "live" THEN "validate" ELSE "deletePolicy"]
          /\ job' = [job EXCEPT ![b] = cbind[b]]
          /\ bq' = bq \ {b}
          /\ UNCHANGED bind
    /\ UNCHANGED <<bRest, fgaVars, target, lock, faults>>

(* validateResourceRef: a missing target is retried, another UID is not; the *)
(* flag has both revoke what was programmed. *)
BValidate(b) ==
    /\ bpc[b] = "validate"
    /\ \/ /\ api[Target(b)].uid = job[b].uid
          /\ bpc' = [bpc EXCEPT ![b] = "lock"]
          /\ UNCHANGED <<bq, job, target, lock>>
       \/ /\ api[Target(b)].uid # job[b].uid
          /\ ~Subresource
          /\ BEnd(b, api[Target(b)].uid = 0)
       \/ /\ api[Target(b)].uid # job[b].uid
          /\ Subresource
          /\ bpc' = [bpc EXCEPT ![b] = "evict"]
          /\ bq' = IF api[Target(b)].uid = 0 THEN bq \cup {b} ELSE bq
          /\ UNCHANGED <<job, target, lock>>
    /\ UNCHANGED <<bRest, fgaVars, bind, faults>>

(* The target's type is not registered, which the flag has revoked and nobody  *)
(* retries; or a subject is missing, which is retried, or replaced, which is   *)
(* not. Registrations and subjects are whatever the caches say. *)
BInvalid(b) ==
    /\ bpc[b] = "validate"
    /\ \/ /\ Subresource
          /\ bpc' = [bpc EXCEPT ![b] = "evict"]
          /\ UNCHANGED <<bq, job, target, lock>>
       \/ /\ ~Subresource
          /\ BEnd(b, FALSE)
       \/ /\ api[Target(b)].uid = job[b].uid
          /\ \E missing \in BOOLEAN : BEnd(b, missing)
    /\ UNCHANGED <<bRest, fgaVars, bind, faults>>

(* siblingDesiredTuples: the other live bindings on the target's name, as the  *)
(* cache has them, that ask for the same tuple. Nobody compares their UIDs. *)
Siblings(b) ==
    {s \in Bindings \ {b} :
        cbind[s].st = "live" /\ cbind[s].target = Target(b) /\ GrantOf[s] = GrantOf[b]}

(* DeletePolicy: the tuple goes, unless a sibling's Role still gives it. Its    *)
(* read, list and write are one step here and three in PolicyBindings; a       *)
(* sibling that is listed too late to be spared is one whose Role gives        *)
(* nothing. *)
Revoke(b) ==
    \/ grants' = grants \ {Tuple(b)}
    \/ Siblings(b) # {} /\ grants' = grants

BEvict(b) ==
    /\ bpc[b] = "evict"
    /\ Revoke(b)
    /\ BEnd(b, FALSE)
    /\ UNCHANGED <<bRest, parents, late, bind, faults>>

BDeletePolicy(b) ==
    /\ bpc[b] = "deletePolicy"
    /\ Revoke(b)
    /\ bpc' = [bpc EXCEPT ![b] = "unbind"]
    /\ UNCHANGED <<bRest, parents, late, bind, bq, job, target, lock, faults>>

(* The Update without the binding's finalizer, on the version that was read. *)
BUnbind(b) ==
    /\ bpc[b] = "unbind"
    /\ bind' = IF bind[b] = job[b] THEN [bind EXCEPT ![b] = NoBinding] ELSE bind
    /\ BEnd(b, TRUE)
    /\ UNCHANGED <<bRest, fgaVars, faults>>

BLock(b) ==
    /\ bpc[b] = "lock"
    /\ Acquire(Target(b), b)
    /\ bpc' = [bpc EXCEPT ![b] = "diff"]
    /\ UNCHANGED <<bRest, fgaVars, bind, bq, job, target, faults>>

(* A tuple that is already stored needs no write, and no guard. *)
BDiff(b) ==
    /\ bpc[b] = "diff"
    /\ \/ /\ Tuple(b) \in grants
          /\ BEnd(b, FALSE)
       \/ /\ Tuple(b) \notin grants
          /\ bpc' = [bpc EXCEPT ![b] = "guard"]
          /\ UNCHANGED <<bq, job, target, lock>>
    /\ UNCHANGED <<bRest, fgaVars, bind, faults>>

(* The Role is missing, which is an error, and which the flag has revoked; or  *)
(* it no longer gives the permission, and the difference is a removal. *)
BRoleGone(b) ==
    /\ bpc[b] = "diff"
    /\ \/ Revoke(b) /\ BEnd(b, FALSE)
       \/ Subresource /\ Revoke(b) /\ BEnd(b, TRUE)
       \/ ~Subresource /\ grants' = grants /\ BEnd(b, TRUE)
    /\ UNCHANGED <<bRest, parents, late, bind, faults>>

(* targetGuard: one live read; not held and not to be held is a deferral. *)
BGuard(b) ==
    /\ bpc[b] = "guard"
    /\ LET h == holdOf(api[Target(b)], job[b].uid) IN
       \/ /\ h = "held"
          /\ bpc' = [bpc EXCEPT ![b] = "write"]
          /\ UNCHANGED <<bq, job, target, lock>>
       \/ /\ h = "notYet"
          /\ bpc' = [bpc EXCEPT ![b] = "hold"]
          /\ target' = [target EXCEPT ![b] = api[Target(b)]]
          /\ UNCHANGED <<bq, job, lock>>
       \/ /\ h \notin {"held", "notYet"}
          /\ BEnd(b, TRUE)
    /\ UNCHANGED <<bRest, fgaVars, bind, faults>>

(* holdTarget adds the finalizer; a version conflict is an error. *)
BHold(b) ==
    /\ bpc[b] = "hold"
    /\ \/ /\ Current(Target(b), target[b])
          /\ api' = Hold(Target(b))
          /\ bpc' = [bpc EXCEPT ![b] = "write"]
          /\ target' = [target EXCEPT ![b] = NoObject]
          /\ UNCHANGED <<bq, job, lock>>
       \/ /\ ~Current(Target(b), target[b])
          /\ BEnd(b, TRUE)
          /\ UNCHANGED api
    /\ UNCHANGED <<cache, notify, nextUid, registered, oVars, fgaVars, bind, cbind, made, faults, timeouts>>

BWrite(b) ==
    /\ bpc[b] = "write"
    /\ \E ack \in BOOLEAN : Answered(ack) /\ BEnd(b, ~ack)
    /\ grants' = grants \cup {Tuple(b)}
    /\ UNCHANGED <<bRest, parents, late, bind>>

(* The client gives up on the write; the server may still apply it. *)
BWriteTimesOut(b) ==
    /\ bpc[b] = "write" /\ timeouts < MaxLate
    /\ timeouts' = timeouts + 1
    /\ late' = late \cup {Tuple(b)}
    /\ BEnd(b, TRUE)
    /\ UNCHANGED <<objVars, oVars, grants, parents, bind, cbind, made, faults>>

LateWriteLands(t) ==
    /\ t \in late
    /\ late' = late \ {t}
    /\ grants' = grants \cup {t}
    /\ UNCHANGED <<bRest, parents, bVars, lock, faults>>

BFail(b) ==
    /\ bpc[b] # "idle" /\ faults < MaxFaults
    /\ faults' = faults + 1
    /\ BEnd(b, TRUE)
    /\ UNCHANGED <<bRest, fgaVars, bind>>

-----------------------------------------------------------------------------
(* The worker of an Organization or a Project.                              *)

oRest == <<bVars, timeouts>>

OEnd(o, again) ==
    /\ opc' = [opc EXCEPT ![o] = "idle"]
    /\ oq' = IF again THEN oq \cup {o} ELSE oq
    /\ snap' = [snap EXCEPT ![o] = NoObject]
    /\ owner' = [owner EXCEPT ![o] = NoObject]
    /\ foundG' = [foundG EXCEPT ![o] = {}]
    /\ foundP' = [foundP EXCEPT ![o] = {}]
    /\ Unlock(o)

(* The reconcile starts from the cached object. *)
OGet(o) == opc[o] = "idle" /\ o \in oq

Live(obj) == obj.uid # 0 /\ ~obj.del

(* Not found; or Milo has yet to drain it; or a live Organization we hold. *)
ONothingToDo(o) ==
    /\ OGet(o)
    /\ \/ cache[o].uid = 0
       \/ cache[o].del /\ ~drained(cache[o])
       \/ Live(cache[o]) /\ cache[o].ours /\ o \in Orgs
    /\ oq' = oq \ {o}
    /\ UNCHANGED <<oRest, objVars, fgaVars, opc, snap, owner, foundG, foundP, lock, faults>>

(* A Project asks for another reconcile; an Organization does not. *)
OEnsureFinalizer(o) ==
    /\ OGet(o)
    /\ Live(cache[o]) /\ ~cache[o].ours
    /\ \/ /\ Current(o, cache[o])
          /\ api' = Hold(o)
          /\ oq' = IF o \in Projects THEN oq ELSE oq \ {o}
       \/ /\ ~Current(o, cache[o])
          /\ UNCHANGED <<api, oq>>
    /\ UNCHANGED <<oRest, cache, notify, nextUid, registered, fgaVars, opc, snap, owner,
                   foundG, foundP, lock, faults>>

OStartClear(o) ==
    /\ OGet(o)
    /\ cache[o].del /\ drained(cache[o])
    /\ opc' = [opc EXCEPT ![o] = "clearObject"]
    /\ snap' = [snap EXCEPT ![o] = cache[o]]
    /\ oq' = oq \ {o}
    /\ UNCHANGED <<oRest, objVars, fgaVars, owner, foundG, foundP, lock, faults>>

(* naming, first half: the tuples on the object. It serves the clear and,    *)
(* under the lock, the read that must find none. *)
NamingObject(o) ==
    /\ opc[o] \in {"clearObject", "remObject"}
    /\ foundG' = [foundG EXCEPT ![o] = grantsOn(o)]
    /\ foundP' = [foundP EXCEPT ![o] = parentsOn(o)]
    /\ opc' = [opc EXCEPT ![o] = IF opc[o] = "clearObject" THEN "clearUser" ELSE "remUser"]
    /\ UNCHANGED <<oRest, objVars, fgaVars, oq, snap, owner, lock, faults>>

(* naming, second half: the tuples in which the object is the parent. *)
NamingUser(o) ==
    /\ opc[o] = "clearUser"
    /\ foundP' = [foundP EXCEPT ![o] = @ \cup parentsOf(o)]
    /\ opc' = [opc EXCEPT ![o] = "delete"]
    /\ UNCHANGED <<oRest, objVars, fgaVars, oq, snap, owner, foundG, lock, faults>>

(* DeleteTuples, which ignores tuples that are already gone. *)
ClearDelete(o) ==
    /\ opc[o] = "delete"
    /\ grants' = grants \ foundG[o]
    /\ parents' = parents \ foundP[o]
    /\ opc' = [opc EXCEPT ![o] = "lock"]
    /\ foundG' = [foundG EXCEPT ![o] = {}]
    /\ foundP' = [foundP EXCEPT ![o] = {}]
    /\ UNCHANGED <<oRest, objVars, late, oq, snap, owner, lock, faults>>

(* One of its batches fails: some of the tuples are gone. *)
ClearDeletePartly(o) ==
    /\ opc[o] = "delete" /\ faults < MaxFaults
    /\ faults' = faults + 1
    /\ \E G \in SUBSET foundG[o], P \in SUBSET foundP[o] :
        grants' = grants \ G /\ parents' = parents \ P
    /\ OEnd(o, TRUE)
    /\ UNCHANGED <<oRest, objVars, late>>

(* The finalizers run: what is deleted, drained and still stored carries     *)
(* ours, there being no third one. *)
OLock(o) ==
    /\ opc[o] = "lock"
    /\ Acquire(o, o)
    /\ opc' = [opc EXCEPT ![o] = "remObject"]
    /\ UNCHANGED <<oRest, objVars, fgaVars, oq, snap, owner, foundG, foundP, faults>>

(* Releasing whatever the read under the lock found. *)
RemainingIgnored(o) ==
    /\ opc[o] = "remUser"
    /\ opc' = [opc EXCEPT ![o] = "release"]
    /\ UNCHANGED <<oRest, objVars, fgaVars, oq, snap, owner, foundG, foundP, lock, faults>>

(* Tuples left are not an error: nobody comes back for them. *)
RemainingDropped(o) ==
    /\ opc[o] = "remUser"
    /\ \/ /\ foundG[o] = {} /\ foundP[o] = {} /\ parentsOf(o) = {}
          /\ opc' = [opc EXCEPT ![o] = "release"]
          /\ UNCHANGED <<oq, snap, owner, foundG, foundP, lock>>
       \/ /\ ~(foundG[o] = {} /\ foundP[o] = {} /\ parentsOf(o) = {})
          /\ OEnd(o, FALSE)
    /\ UNCHANGED <<oRest, objVars, fgaVars, faults>>

(* remaining: any tuple left fails the finalizer. *)
Remaining(o) ==
    /\ opc[o] = "remUser"
    /\ \/ /\ foundG[o] = {} /\ foundP[o] = {} /\ parentsOf(o) = {}
          /\ opc' = [opc EXCEPT ![o] = "release"]
          /\ UNCHANGED <<oq, snap, owner, foundG, foundP, lock>>
       \/ /\ ~(foundG[o] = {} /\ foundP[o] = {} /\ parentsOf(o) = {})
          /\ OEnd(o, TRUE)
    /\ UNCHANGED <<oRest, objVars, fgaVars, faults>>

(* The Update without our finalizer; the object leaves storage with it. A    *)
(* conflict, a vanished object and a lost answer are errors. *)
Release(o) ==
    /\ opc[o] = "release"
    /\ \/ /\ Current(o, snap[o])
          /\ api' = Unhold(o)
          /\ \E ack \in BOOLEAN : Answered(ack) /\ OEnd(o, ~ack)
       \/ /\ ~Current(o, snap[o])
          /\ OEnd(o, TRUE)
          /\ UNCHANGED <<api, faults>>
    /\ UNCHANGED <<oRest, cache, notify, nextUid, registered, fgaVars>>

-----------------------------------------------------------------------------
(* A live Project that carries our finalizer: its parent tuple.             *)

PStartSync(p) ==
    /\ OGet(p)
    /\ p \in Projects /\ Live(cache[p]) /\ cache[p].ours
    /\ opc' = [opc EXCEPT ![p] = "existing"]
    /\ snap' = [snap EXCEPT ![p] = cache[p]]
    /\ oq' = oq \ {p}
    /\ UNCHANGED <<oRest, objVars, fgaVars, owner, foundG, foundP, lock, faults>>

PExisting(p) ==
    /\ opc[p] = "existing"
    /\ foundP' = [foundP EXCEPT ![p] = parentsOn(p)]
    /\ opc' = [opc EXCEPT ![p] = "stale"]
    /\ UNCHANGED <<oRest, objVars, fgaVars, oq, snap, owner, foundG, lock, faults>>

(* Parents that are no longer owners. This delete, like syncParent's, fails  *)
(* when a tuple is already gone. *)
PDeleteStale(p) ==
    /\ opc[p] = "stale"
    /\ LET stale == {t \in foundP[p] : t[1] # snap[p].owner} IN
       \/ /\ stale \subseteq parents
          /\ parents' = parents \ stale
          /\ opc' = [opc EXCEPT ![p] = "lockOwner"]
          /\ foundP' = [foundP EXCEPT ![p] = @ \ stale]
          /\ UNCHANGED <<oq, snap, owner, foundG, lock>>
       \/ /\ ~(stale \subseteq parents)
          /\ OEnd(p, TRUE)
          /\ UNCHANGED parents
    /\ UNCHANGED <<oRest, objVars, grants, late, faults>>

PLockOwner(p) ==
    /\ opc[p] = "lockOwner"
    /\ Acquire(snap[p].owner, p)
    /\ opc' = [opc EXCEPT ![p] = "ownerRead"]
    /\ UNCHANGED <<oRest, objVars, fgaVars, oq, snap, owner, foundG, foundP, faults>>

POwnerRead(p) ==
    /\ opc[p] = "ownerRead"
    /\ LET h == holdOf(api[snap[p].owner], snap[p].ouid) IN
       \/ /\ h = "deleting"
          /\ OEnd(p, FALSE)
       \/ /\ h # "deleting"
          /\ opc' = [opc EXCEPT ![p] = IF h = "held" THEN "parent"
                                       ELSE IF h = "notYet" THEN "ownerHold" ELSE "unparent"]
          /\ owner' = [owner EXCEPT ![p] = api[snap[p].owner]]
          /\ UNCHANGED <<oq, snap, foundG, foundP, lock>>
    /\ UNCHANGED <<oRest, objVars, fgaVars, faults>>

POwnerHold(p) ==
    /\ opc[p] = "ownerHold"
    /\ \/ /\ Current(snap[p].owner, owner[p])
          /\ api' = Hold(snap[p].owner)
          /\ opc' = [opc EXCEPT ![p] = "parent"]
          /\ UNCHANGED <<oq, snap, owner, foundG, foundP, lock>>
       \/ /\ ~Current(snap[p].owner, owner[p])
          /\ OEnd(p, TRUE)
          /\ UNCHANGED api
    /\ UNCHANGED <<oRest, cache, notify, nextUid, registered, fgaVars, faults>>

(* User and object of the parent tuple swapped. *)
ParentTupleSwapped(p) == <<p, snap[p].owner>>

ParentTuple(p) == <<snap[p].owner, p>>

(* The difference is taken against the read made before the lock. OpenFGA   *)
(* refuses a parent tuple the registered types do not admit. *)
PWriteParent(p) ==
    /\ opc[p] = "parent"
    /\ \/ /\ ParentTuple(p) \in foundP[p]
          /\ OEnd(p, FALSE)
          /\ UNCHANGED <<parents, faults>>
       \/ /\ ParentTuple(p) \notin foundP[p] /\ ~registered
          /\ OEnd(p, TRUE)
          /\ UNCHANGED <<parents, faults>>
       \/ /\ ParentTuple(p) \notin foundP[p] \cup parents /\ registered
          /\ parents' = parents \cup {ParentTuple(p)}
          /\ \E ack \in BOOLEAN : Answered(ack) /\ OEnd(p, ~ack)
    /\ UNCHANGED <<oRest, objVars, grants, late>>

PDeleteParent(p) ==
    /\ opc[p] = "unparent"
    /\ \/ /\ ParentTuple(p) \in foundP[p] /\ ParentTuple(p) \notin parents
          /\ OEnd(p, TRUE)
          /\ UNCHANGED parents
       \/ /\ ParentTuple(p) \notin foundP[p] \/ ParentTuple(p) \in parents
          /\ parents' = parents \ (foundP[p] \cap {ParentTuple(p)})
          /\ OEnd(p, FALSE)
    /\ UNCHANGED <<oRest, objVars, grants, late, faults>>

OFail(o) ==
    /\ opc[o] # "idle" /\ faults < MaxFaults
    /\ faults' = faults + 1
    /\ OEnd(o, TRUE)
    /\ UNCHANGED <<oRest, objVars, fgaVars>>

(* The leader stops; its successor starts with fresh caches and queues. *)
Restart ==
    /\ faults < MaxFaults
    /\ faults' = faults + 1
    /\ cache' = api /\ notify' = {} /\ cbind' = bind
    /\ bpc' = [b \in Bindings |-> "idle"] /\ opc' = [o \in Objects |-> "idle"]
    /\ lock' = [l \in Locks |-> Free]
    /\ bq' = {b \in Bindings : bind[b].st # "none"}
    /\ oq' = {o \in Objects : api[o].uid # 0}
    /\ job' = [b \in Bindings |-> NoBinding] /\ target' = [b \in Bindings |-> NoObject]
    /\ snap' = [o \in Objects |-> NoObject] /\ owner' = [o \in Objects |-> NoObject]
    /\ foundG' = [o \in Objects |-> {}] /\ foundP' = [o \in Objects |-> {}]
    /\ UNCHANGED <<api, nextUid, registered, fgaVars, bind, made, timeouts>>

-----------------------------------------------------------------------------
Init ==
    /\ api = [o \in Objects |-> NoObject] /\ cache = api
    /\ notify = {} /\ nextUid = 1 /\ registered = TRUE
    /\ bind = [b \in Bindings |-> NoBinding] /\ cbind = bind
    /\ made = [b \in Bindings |-> 0]
    /\ grants = {} /\ parents = {} /\ late = {}
    /\ lock = [l \in Locks |-> Free]
    /\ bq = {} /\ oq = {}
    /\ bpc = [b \in Bindings |-> "idle"] /\ opc = [o \in Objects |-> "idle"]
    /\ job = bind
    /\ target = [b \in Bindings |-> NoObject]
    /\ snap = api /\ owner = api
    /\ foundG = [o \in Objects |-> {}] /\ foundP = [o \in Objects |-> {}]
    /\ faults = 0 /\ timeouts = 0

BStep(b) ==
    \/ BStart(b) \/ BValidate(b) \/ BInvalid(b) \/ BEvict(b) \/ BDeletePolicy(b) \/ BUnbind(b)
    \/ BLock(b) \/ BDiff(b) \/ BRoleGone(b) \/ BGuard(b) \/ BHold(b) \/ BWrite(b)

OStep(o) ==
    \/ ONothingToDo(o) \/ OEnsureFinalizer(o) \/ OStartClear(o)
    \/ NamingObject(o) \/ NamingUser(o) \/ ClearDelete(o)
    \/ OLock(o) \/ Remaining(o) \/ Release(o)

PStep(p) ==
    \/ PStartSync(p) \/ PExisting(p) \/ PDeleteStale(p) \/ PLockOwner(p)
    \/ POwnerRead(p) \/ POwnerHold(p) \/ PWriteParent(p) \/ PDeleteParent(p)

Next ==
    \/ \E o \in Objects :
        \/ Create(o) \/ Delete(o) \/ MiloDrains(o) \/ SyncCache(o) \/ Notify(o)
        \/ OStep(o) \/ ClearDeletePartly(o) \/ OFail(o)
    \/ \E p \in Projects : PStep(p) \/ \E r \in Orgs : Reparent(p, r)
    \/ \E b \in Bindings :
        \/ BStep(b) \/ BWriteTimesOut(b) \/ BFail(b) \/ DeleteBinding(b) \/ SyncBinding(b)
        \/ \E o \in Objects : CreateBinding(b, o)
    \/ \E t \in late : LateWriteLands(t)
    \/ Unregister
    \/ Restart

Spec == Init /\ [][Next]_vars

(* A reconcile goes on until it ends, the workqueue runs every queued key,   *)
(* informers deliver, a Go mutex starves no waiter, and Milo drains what is   *)
(* deleted. Users, faults and late writes are under no obligation. *)
Fairness ==
    /\ \A o \in Objects :
        /\ WF_vars(OStep(o)) /\ SF_vars(OLock(o))
        /\ WF_vars(SyncCache(o)) /\ WF_vars(Notify(o)) /\ WF_vars(MiloDrains(o))
    /\ \A p \in Projects : WF_vars(PStep(p)) /\ SF_vars(PLockOwner(p))
    /\ \A b \in Bindings : WF_vars(BStep(b)) /\ SF_vars(BLock(b)) /\ WF_vars(SyncBinding(b))

FairSpec == Spec /\ Fairness

-----------------------------------------------------------------------------
(* Properties.                                                              *)

(* No grant outlives the object it is on: while a grant is stored, the object *)
(* is in storage and carries our finalizer (ObjectLocks, target_hold.go). *)
GrantsNeverOutlive == \A t \in grants : api[t[2]].ours

(* No parent tuple outlives the Project it is on or the Organization it names *)
(* (OrganizationReconciler, syncParent). *)
ParentsNeverOutlive == \A t \in parents : api[t[1]].ours /\ api[t[2]].ours

(* A grant belongs to the incarnation it was written for: it is written only   *)
(* for a stored binding that names, by UID, the object that holds the name at   *)
(* that moment, and the name changes hands under no stored grant, so a name     *)
(* that is reused inherits none (targetGuard, holdOf, openFGAFinalizer). Which   *)
(* binding keeps a shared grant afterwards is another matter: DeletePolicy       *)
(* spares it for a sibling that names another UID. *)
GrantNamesItsTarget ==
    [][\A t \in grants' :
        /\ api'[t[2]].uid = api[t[2]].uid
        /\ t \in grants \/ \E b \in Bindings :
            /\ GrantOf[b] = t[1] /\ bind[b].fin
            /\ bind[b].target = t[2] /\ bind[b].uid = api[t[2]].uid]_vars

(* Access lasts while Milo drains an object that is being deleted: its        *)
(* finalizer removes no grant, whatever the bindings' own workers revoke, and  *)
(* no parent tuple a Project still asks for, before Milo's has left. A Project *)
(* whose worker has a copy with another owner asks for that one               *)
(* (handleProjectDeletion, syncParent). *)
AccessLastsUntilDrained ==
    [][/\ \A t \in grants \ grants' :
            api[t[2]].del /\ bpc' = bpc /\ snap[t[2]].uid = api[t[2]].uid
                => ~api[t[2]].milo
       /\ \A t \in parents \ parents' :
            api[t[1]].del /\ Live(api[t[2]]) /\ api[t[2]].owner = t[1]
                /\ snap[t[2]].owner \in {t[1], NoName}
                /\ (snap[t[1]].uid = api[t[1]].uid \/ snap[t[1]].uid = 0)
                => ~api[t[1]].milo]_vars

(* Every deleted object eventually leaves storage: no clear is blocked by a   *)
(* lock, a lost wake-up, a conflict or a binding that keeps writing. *)
DeletionCompletes ==
    \A o \in Objects, u \in 1..MaxUid :
        (api[o].uid = u /\ api[o].del) ~> (api[o].uid # u)

-----------------------------------------------------------------------------
(* The inductive invariant behind the first three properties, in layers.    *)

(* A Project has an owner, and so has the copy its worker syncs from. *)
OwnerInv ==
    /\ \A p \in Projects :
        /\ api[p].uid # 0 => api[p].owner \in Orgs
        /\ cache[p].uid # 0 => cache[p].owner \in Orgs
    /\ \A o \in Objects :
        opc[o] \in OSyncing \cup OParent => o \in Projects /\ snap[o].owner \in Orgs

(* The binding a worker writes for is the stored one: a copy that is live and *)
(* held is of a binding that is still held, because only the worker itself     *)
(* takes the finalizer off, and only after it has seen the deletion. *)
JobInv ==
    \A b \in Bindings :
        /\ cbind[b].st = "live" /\ cbind[b].fin =>
            bind[b].fin /\ bind[b].target = cbind[b].target /\ bind[b].uid = cbind[b].uid
        /\ cbind[b].st = "deleting" => ~(bind[b].st = "live" /\ bind[b].fin)
        /\ bpc[b] # "idle" => job[b].target \in Objects
        /\ bpc[b] \in {"deletePolicy", "unbind"} =>
            /\ ~(cbind[b].st = "live" /\ cbind[b].fin)
            /\ ~(bind[b].st = "live" /\ bind[b].fin)
        /\ bpc[b] \in {"validate", "evict", "lock"} \cup BGuarded =>
            bind[b].fin /\ bind[b].target = job[b].target /\ bind[b].uid = job[b].uid

(* A worker in its locked section holds the lock of the object it is about. *)
LockInv ==
    /\ \A b \in Bindings : bpc[b] \in BGuarded => lock[LockOf[job[b].target]] = b
    /\ \A o \in Objects :
        /\ opc[o] \in OFinal => lock[LockOf[o]] = o
        /\ opc[o] \in OParent => lock[LockOf[snap[o].owner]] = o

(* Copies are older versions: of a dead incarnation, or of this one, whose   *)
(* deletion is never undone. A copy that is live and held is of an object    *)
(* that is still held, because its worker releases only what it has seen     *)
(* deleted. *)
Versions(o) ==
    /\ api[o].uid < nextUid /\ cache[o].uid < nextUid /\ snap[o].uid < nextUid
    /\ api[o].uid = 0 => ~api[o].ours /\ ~api[o].del
    /\ cache[o].uid = 0 => ~cache[o].ours /\ ~cache[o].del
    /\ cache[o].del /\ cache[o].uid = api[o].uid => api[o].del
    /\ Live(cache[o]) /\ cache[o].ours => api[o].ours /\ api[o].uid = cache[o].uid
    /\ opc[o] \in OClearing \cup OFinal =>
        /\ snap[o].del /\ snap[o].uid # 0
        /\ cache[o].uid = snap[o].uid => cache[o].del
        /\ api[o].uid = snap[o].uid => api[o].del
    /\ opc[o] \in OSyncing \cup OParent => api[o].ours /\ api[o].uid = snap[o].uid
VersionInv == \A o \in Objects : Versions(o)

(* Who is about to write has seen the hold, and the lock keeps it. *)
WriterInv ==
    /\ \A b \in Bindings :
        /\ bpc[b] = "hold" => target[b].uid = job[b].uid
        /\ bpc[b] = "write" =>
            api[job[b].target].ours /\ api[job[b].target].uid = job[b].uid
    /\ \A o \in Objects : opc[o] = "parent" => api[snap[o].owner].ours

(* Between the read that finds nothing and the release, nothing is written. *)
ClearedInv ==
    /\ MaxLate = 0 => late = {}
    /\ ~MayUnregister => registered
    /\ \A o \in Objects :
        /\ opc[o] = "remUser" =>
            /\ MaxLate = 0 /\ foundG[o] = {} => \A t \in grants : t[2] # o
            /\ foundP[o] = {} => \A t \in parents : t[2] # o
        /\ opc[o] = "release" =>
            /\ MaxLate = 0 => \A t \in grants : t[2] # o
            /\ \A t \in parents : t[2] # o
            /\ ~MayUnregister => \A t \in parents : t[1] # o

(* The tuples: under which assumption none outlives what it names. *)
TupleInv ==
    /\ MaxLate = 0 => \A t \in grants : api[t[2]].ours
    /\ \A t \in parents : api[t[2]].ours
    /\ ~MayUnregister => \A t \in parents : api[t[1]].ours

(* What the lock, the finalizer and the copies that workers hold amount to    *)
(* together; inductive with TypeOK (target_hold.go, object_tuples.go). *)
HoldInv == OwnerInv /\ JobInv /\ LockInv /\ VersionInv /\ WriterInv /\ ClearedInv /\ TupleInv

=============================================================================
