---------------------------- MODULE AccessProofs ----------------------------
(***************************************************************************)
(* TLAPS proof that access lasts while Milo drains a deleted object: the    *)
(* finalizer of TargetHold takes no grant and no parent tuple away before.  *)
(* It rests on HoldInv and on what UIDs tell about copies: a copy of this   *)
(* incarnation that Milo has left is of an object that Milo has left, and   *)
(* who is named as an owner by UID is that owner or is gone for good.       *)
(***************************************************************************)
EXTENDS TargetHoldProofs

Clearing(o) == opc[o] \in OClearing \cup OFinal
Syncing(o) == opc[o] \in OSyncing \cup OParent

(* Milo's finalizer does not come back, so a worker that clears this very    *)
(* object has seen it leave; and it clears only tuples of that name. *)
DrainInv ==
  \A o \in Objects :
    /\ cache[o].uid = api[o].uid /\ api[o].milo => cache[o].milo
    /\ Clearing(o) /\ snap[o].uid = api[o].uid => ~api[o].milo
    /\ \A t \in foundG[o] : t[2] = o
    /\ \A t \in foundP[o] : o \in {t[1], t[2]}

(* d is c, or a later version: when it names the owner c names, which is     *)
(* still that one, it names it by the same UID. *)
Follows(c, d) == c.owner = d.owner /\ c.ouid = api[c.owner].uid => d.ouid = c.ouid

KnownOwner(c) == c.ouid # 0 /\ c.ouid < nextUid

(* The versions of a Project, and what its worker knows of its owner. *)
OwnerUids ==
  \A p \in Projects :
    /\ api[p].uid # 0 => KnownOwner(api[p])
    /\ cache[p].uid # 0 => KnownOwner(cache[p])
    /\ cache[p].uid = api[p].uid /\ api[p].uid # 0 => Follows(cache[p], api[p])
    /\ Syncing(p) =>
        /\ KnownOwner(snap[p]) /\ cache[p].uid = snap[p].uid
        /\ Follows(snap[p], api[p]) /\ Follows(snap[p], cache[p])
    /\ opc[p] = "ownerHold" => owner[p].uid = snap[p].ouid
    /\ opc[p] = "parent" => api[snap[p].owner].uid = snap[p].ouid
    /\ opc[p] = "unparent" => api[snap[p].owner].uid # snap[p].ouid

(* A parent tuple is of the Project's present incarnation, and whoever names *)
(* that parent as owner names the present Organization. *)
ParentUids ==
  \A t \in parents :
    /\ cache[t[2]].uid = api[t[2]].uid
    /\ Clearing(t[2]) => snap[t[2]].uid = api[t[2]].uid
    /\ api[t[2]].owner = t[1] => api[t[2]].ouid = api[t[1]].uid
    /\ cache[t[2]].owner = t[1] => cache[t[2]].ouid = api[t[1]].uid
    /\ Syncing(t[2]) /\ snap[t[2]].owner = t[1] => snap[t[2]].ouid = api[t[1]].uid

AccessInv == DrainInv /\ OwnerUids /\ ParentUids

-----------------------------------------------------------------------------
(* What a step may do to a stored object, its copies and its worker.        *)

Kept(x) ==
  /\ api'[x].uid = api[x].uid /\ api'[x].owner = api[x].owner /\ api'[x].ouid = api[x].ouid
  /\ api'[x].milo => api[x].milo

Left(x) == api'[x] = NoObject

(* The new version of a Project names an Organization that is stored. *)
NamesOwner(x) ==
  /\ api'[x].owner \in Orgs
  /\ api'[x].ouid = api'[api'[x].owner].uid /\ api'[x].ouid # 0

Came(x) ==
  /\ api[x].uid = 0 /\ api'[x].uid = nextUid
  /\ x \in Projects => NamesOwner(x)

Moves(x) ==
  /\ x \in Projects /\ api'[x].uid = api[x].uid /\ api'[x].milo = api[x].milo
  /\ NamesOwner(x)

ApiStep(x) == Kept(x) \/ Left(x) \/ Came(x) \/ Moves(x)

(* What the API server's edits leave of an object. *)
LEMMA EditsKeep ==
  ASSUME ObjectsOK, NEW o \in Objects, NEW x \in Objects,
         api' = Hold(o) \/ api' = Deleted(o) \/ api' = Drained(o) \/ api' = Unhold(o)
  PROVE  Kept(x) \/ Left(x)
<1>1. CASE x # o
  <2>1. api'[x] = api[x]
    BY <1>1 DEF ObjectsOK, Hold, Deleted, Drained, Unhold
  <2> QED BY <2>1 DEF Kept
<1>2. CASE x = o
  <2>0. api[x] \in Object
    BY DEF ObjectsOK
  <2>1. \E y \in Object : /\ y.uid = api[x].uid /\ y.owner = api[x].owner /\ y.ouid = api[x].ouid
                          /\ y.milo => api[x].milo
                          /\ api'[x] = y \/ api'[x] = Removed(y)
    <3>1. CASE api' = Hold(o)
      <4> DEFINE y == [api[x] EXCEPT !.ours = TRUE]
      <4>1. y \in Object /\ y.uid = api[x].uid /\ y.owner = api[x].owner /\ y.ouid = api[x].ouid /\ y.milo = api[x].milo
        BY <2>0 DEF Object
      <4>2. api'[x] = y
        BY <1>2, <3>1 DEF Hold, ObjectsOK
      <4> QED BY <4>1, <4>2
    <3>2. CASE api' = Deleted(o)
      <4> DEFINE y == [api[x] EXCEPT !.del = TRUE]
      <4>1. y \in Object /\ y.uid = api[x].uid /\ y.owner = api[x].owner /\ y.ouid = api[x].ouid /\ y.milo = api[x].milo
        BY <2>0 DEF Object
      <4>2. api'[x] = Removed(y)
        BY <1>2, <3>2 DEF Deleted, ObjectsOK
      <4> QED BY <4>1, <4>2
    <3>3. CASE api' = Drained(o)
      <4> DEFINE y == [api[x] EXCEPT !.milo = FALSE]
      <4>1. y \in Object /\ y.uid = api[x].uid /\ y.owner = api[x].owner /\ y.ouid = api[x].ouid /\ ~y.milo
        BY <2>0 DEF Object
      <4>2. api'[x] = Removed(y)
        BY <1>2, <3>3 DEF Drained, ObjectsOK
      <4> QED BY <4>1, <4>2
    <3>4. CASE api' = Unhold(o)
      <4> DEFINE y == [api[x] EXCEPT !.ours = FALSE]
      <4>1. y \in Object /\ y.uid = api[x].uid /\ y.owner = api[x].owner /\ y.ouid = api[x].ouid /\ y.milo = api[x].milo
        BY <2>0 DEF Object
      <4>2. api'[x] = Removed(y)
        BY <1>2, <3>4 DEF Unhold, ObjectsOK
      <4> QED BY <4>1, <4>2
    <3> QED BY <3>1, <3>2, <3>3, <3>4
  <2> QED BY <2>1 DEF Removed, Kept, Left
<1> QED BY <1>1, <1>2

(* A stored object changes by an edit, by leaving, by being created with a  *)
(* UID nobody had, or by being moved; UIDs are only given, never taken back. *)
LEMMA ApiSteps ==
  ASSUME TypeOK, OwnerInv, JobInv, Next, NEW x \in Objects
  PROVE  ApiStep(x) /\ nextUid' \in Nat /\ nextUid' >= nextUid
<1> USE NamesDisjoint, BoundTypes DEF TypeOK
<1> USE DEF bRest, oRest, objVars, fgaVars, bVars, oVars
<1> DEFINE Goal == ApiStep(x) /\ nextUid' \in Nat /\ nextUid' >= nextUid
<1>n. nextUid \in Nat
  BY DEF ObjectsOK
<1>0. ASSUME UNCHANGED <<api, nextUid>> PROVE Goal
  BY <1>0, <1>n DEF ApiStep, Kept
<1>1. ASSUME NEW y \in Objects, Create(y) PROVE Goal
  <2>1. PICK milo \in MiloHolds :
          \/ y \in Orgs /\ api' = [api EXCEPT ![y] = Fresh(milo, NoName, 0)]
          \/ \E r \in Orgs : /\ y \in Projects /\ api[r].uid # 0
                             /\ api' = [api EXCEPT ![y] = Fresh(milo, r, api[r].uid)]
    BY <1>1 DEF Create
  <2>2. api[y].uid = 0 /\ nextUid' = nextUid + 1
    BY <1>1 DEF Create
  <2>3. CASE x # y
    <3>1. api'[x] = api[x]
      BY <2>1, <2>3 DEF ObjectsOK
    <3> QED BY <1>n, <2>2, <3>1 DEF ApiStep, Kept
  <2>4. CASE x = y /\ y \in Orgs /\ api' = [api EXCEPT ![y] = Fresh(milo, NoName, 0)]
    <3>1. api'[x].uid = nextUid
      BY <2>4 DEF ObjectsOK, Fresh
    <3>2. x \notin Projects
      BY <2>4
    <3> QED BY <1>n, <2>2, <2>4, <3>1, <3>2 DEF ApiStep, Came
  <2>5. ASSUME NEW r \in Orgs, x = y, y \in Projects, api[r].uid # 0,
               api' = [api EXCEPT ![y] = Fresh(milo, r, api[r].uid)]
        PROVE  Goal
    <3>1. api'[x] = Fresh(milo, r, api[r].uid)
      BY <2>5 DEF ObjectsOK
    <3>2. api'[x].uid = nextUid /\ api'[x].owner = r /\ api'[x].ouid = api[r].uid
      BY <3>1 DEF Fresh
    <3>3. r # y /\ r \in Objects
      BY <2>5 DEF Objects
    <3>4. api'[r] = api[r]
      BY <2>5, <3>3 DEF ObjectsOK
    <3> QED BY <1>n, <2>2, <2>5, <3>2, <3>4 DEF ApiStep, Came, NamesOwner
  <2> QED BY <2>1, <2>3, <2>4, <2>5
<1>2. ASSUME NEW y \in Objects, Delete(y) PROVE Goal
  <2>1. Kept(x) \/ Left(x)
    BY <1>2, EditsKeep DEF Delete
  <2> QED BY <1>n, <2>1, <1>2 DEF ApiStep, Delete
<1>3. ASSUME NEW y \in Objects, MiloDrains(y) PROVE Goal
  <2>1. Kept(x) \/ Left(x)
    BY <1>3, EditsKeep DEF MiloDrains
  <2> QED BY <1>n, <2>1, <1>3 DEF ApiStep, MiloDrains
<1>4. ASSUME NEW y \in Objects, OEnsureFinalizer(y) PROVE Goal
  <2>1. y \in Objects
    BY <1>4 DEF OEnsureFinalizer
  <2>2. api' = api \/ api' = Hold(y)
    BY <1>4 DEF OEnsureFinalizer
  <2>3. CASE api' = api
    BY <1>0, <2>3, <1>4 DEF OEnsureFinalizer
  <2>4. CASE api' = Hold(y)
    <3>1. Kept(x) \/ Left(x)
      BY <2>1, <2>4, EditsKeep
    <3> QED BY <1>n, <3>1, <1>4 DEF ApiStep, OEnsureFinalizer
  <2> QED BY <2>2, <2>3, <2>4
<1>5. ASSUME NEW y \in Objects, Release(y) PROVE Goal
  <2>1. api' = api \/ api' = Unhold(y)
    BY <1>5 DEF Release
  <2>2. CASE api' = api
    BY <1>0, <2>2, <1>5 DEF Release
  <2>3. CASE api' = Unhold(y)
    <3>1. Kept(x) \/ Left(x)
      BY <2>3, EditsKeep
    <3> QED BY <1>n, <3>1, <1>5 DEF ApiStep, Release
  <2> QED BY <2>1, <2>2, <2>3
<1>6. ASSUME NEW q \in Projects, POwnerHold(q) PROVE Goal
  <2>1. snap[q].owner \in Objects
    BY <1>6 DEF POwnerHold, OwnerInv, OParent, Objects
  <2>2. api' = api \/ api' = Hold(snap[q].owner)
    BY <1>6 DEF POwnerHold
  <2>3. CASE api' = api
    BY <1>0, <2>3, <1>6 DEF POwnerHold
  <2>4. CASE api' = Hold(snap[q].owner)
    <3>1. Kept(x) \/ Left(x)
      BY <2>1, <2>4, EditsKeep
    <3> QED BY <1>n, <3>1, <1>6 DEF ApiStep, POwnerHold
  <2> QED BY <2>2, <2>3, <2>4
<1>7. ASSUME NEW c \in Bindings, BHold(c) PROVE Goal
  <2>1. Target(c) \in Objects
    BY <1>7 DEF BHold, Target, JobInv
  <2>2. api' = api \/ api' = Hold(Target(c))
    BY <1>7 DEF BHold
  <2>3. CASE api' = api
    BY <1>0, <2>3, <1>7 DEF BHold
  <2>4. CASE api' = Hold(Target(c))
    <3>1. Kept(x) \/ Left(x)
      BY <2>1, <2>4, EditsKeep
    <3> QED BY <1>n, <3>1, <1>7 DEF ApiStep, BHold
  <2> QED BY <2>2, <2>3, <2>4
<1>8. ASSUME NEW y \in Objects,
             SyncCache(y) \/ Notify(y) \/ ONothingToDo(y) \/ OStartClear(y)
             \/ NamingObject(y) \/ NamingUser(y) \/ ClearDelete(y)
             \/ ClearDeletePartly(y) \/ OLock(y) \/ Remaining(y) \/ OFail(y)
      PROVE  Goal
  BY <1>0, <1>8 DEF SyncCache, Notify, ONothingToDo, OStartClear,
     NamingObject, NamingUser, ClearDelete, ClearDeletePartly, OLock,
     Remaining, OFail
<1>9. ASSUME NEW q \in Projects,
             PStartSync(q) \/ PExisting(q) \/ PDeleteStale(q) \/ PLockOwner(q)
             \/ POwnerRead(q) \/ PWriteParent(q) \/ PDeleteParent(q)
      PROVE  Goal
  BY <1>0, <1>9 DEF PStartSync, PExisting, PDeleteStale, PLockOwner,
     POwnerRead, PWriteParent, PDeleteParent
<1>10. ASSUME NEW c \in Bindings,
             DeleteBinding(c) \/ SyncBinding(c) \/ BStart(c) \/ BValidate(c)
             \/ BInvalid(c) \/ BRoleGone(c) \/ BEvict(c)
             \/ BDeletePolicy(c) \/ BUnbind(c) \/ BLock(c) \/ BDiff(c)
             \/ BGuard(c) \/ BWrite(c) \/ BWriteTimesOut(c) \/ BFail(c)
      PROVE  Goal
  BY <1>0, <1>10 DEF DeleteBinding, SyncBinding, BStart, BValidate, BInvalid,
     BRoleGone, BEvict, BDeletePolicy,
     BUnbind, BLock, BDiff, BGuard, BWrite, BWriteTimesOut, BFail
<1>11. ASSUME NEW q \in Projects, NEW s \in Orgs, Reparent(q, s) PROVE Goal
  <2>0. /\ q \in Objects /\ s \in Objects /\ s # q /\ nextUid' = nextUid
        /\ api[s].uid # 0 /\ api' = [api EXCEPT ![q] = Moved(api[q], s, api[s].uid)]
    BY <1>11 DEF Reparent, Objects
  <2>1. CASE x # q
    <3>1. api'[x] = api[x]
      BY <2>0, <2>1 DEF ObjectsOK
    <3> QED BY <1>n, <2>0, <3>1 DEF ApiStep, Kept
  <2>2. CASE x = q
    <3>1. api'[x] = Moved(api[x], s, api[s].uid) /\ api'[s] = api[s]
      BY <2>0, <2>2 DEF ObjectsOK
    <3>2. api[x] \in Object
      BY DEF ObjectsOK
    <3>3. /\ api'[x].uid = api[x].uid /\ api'[x].milo = api[x].milo
          /\ api'[x].owner = s /\ api'[x].ouid = api[s].uid
      BY <3>1, <3>2 DEF Moved, Object
    <3> QED BY <1>n, <2>0, <2>2, <3>1, <3>3 DEF ApiStep, Moves, NamesOwner
  <2> QED BY <2>1, <2>2
<1>12. ASSUME NEW c \in Bindings, NEW y \in Objects, CreateBinding(c, y) PROVE Goal
  BY <1>0, <1>12 DEF CreateBinding
<1>13. ASSUME NEW u \in late, LateWriteLands(u) PROVE Goal
  BY <1>0, <1>13 DEF LateWriteLands
<1>14. ASSUME Unregister PROVE Goal
  BY <1>0, <1>14 DEF Unregister
<1>15. ASSUME Restart PROVE Goal
  BY <1>0, <1>15 DEF Restart
<1> QED
  BY <1>1, <1>2, <1>3, <1>4, <1>5, <1>6, <1>7, <1>8, <1>9, <1>10, <1>11,
     <1>12, <1>13, <1>14, <1>15 DEF Next, OStep, PStep, BStep

(* A copy in the cache changes only when the informer catches up. *)
LEMMA CacheSteps ==
  ASSUME TypeOK, Next, NEW x \in Objects
  PROVE  cache'[x] = cache[x] \/ (cache'[x] = api[x] /\ api' = api /\ nextUid' = nextUid)
<1> USE DEF TypeOK
<1> USE DEF bRest, oRest, objVars, fgaVars, bVars, oVars
<1> DEFINE Goal == cache'[x] = cache[x] \/ (cache'[x] = api[x] /\ api' = api /\ nextUid' = nextUid)
<1>0. ASSUME UNCHANGED <<cache>> PROVE Goal
  BY <1>0
<1>1. ASSUME NEW y \in Objects, SyncCache(y) PROVE Goal
  BY <1>1 DEF SyncCache, ObjectsOK
<1>2. ASSUME NEW y \in Objects,
             Create(y) \/ Delete(y) \/ MiloDrains(y) \/ Notify(y)
             \/ ONothingToDo(y) \/ OEnsureFinalizer(y) \/ OStartClear(y)
             \/ NamingObject(y) \/ NamingUser(y) \/ ClearDelete(y)
             \/ ClearDeletePartly(y) \/ OLock(y) \/ Remaining(y) \/ Release(y)
             \/ OFail(y)
      PROVE  Goal
  BY <1>0, <1>2 DEF Create, Delete, MiloDrains, Notify, ONothingToDo,
     OEnsureFinalizer, OStartClear, NamingObject, NamingUser, ClearDelete,
     ClearDeletePartly, OLock, Remaining, Release, OFail
<1>3. ASSUME NEW q \in Projects,
             PStartSync(q) \/ PExisting(q) \/ PDeleteStale(q) \/ PLockOwner(q)
             \/ POwnerRead(q) \/ POwnerHold(q) \/ PWriteParent(q)
             \/ PDeleteParent(q)
      PROVE  Goal
  BY <1>0, <1>3 DEF PStartSync, PExisting, PDeleteStale, PLockOwner,
     POwnerRead, POwnerHold, PWriteParent, PDeleteParent
<1>4. ASSUME NEW c \in Bindings,
             DeleteBinding(c) \/ SyncBinding(c) \/ BStart(c) \/ BValidate(c)
             \/ BInvalid(c) \/ BRoleGone(c) \/ BEvict(c)
             \/ BDeletePolicy(c) \/ BUnbind(c) \/ BLock(c) \/ BDiff(c)
             \/ BGuard(c) \/ BHold(c) \/ BWrite(c) \/ BWriteTimesOut(c)
             \/ BFail(c)
      PROVE  Goal
  BY <1>0, <1>4 DEF DeleteBinding, SyncBinding, BStart, BValidate, BInvalid,
     BRoleGone, BEvict, BDeletePolicy,
     BUnbind, BLock, BDiff, BGuard, BHold, BWrite, BWriteTimesOut, BFail
<1>5. ASSUME NEW q \in Projects, NEW s \in Orgs, Reparent(q, s) PROVE Goal
  BY <1>0, <1>5 DEF Reparent
<1>6. ASSUME NEW c \in Bindings, NEW y \in Objects, CreateBinding(c, y) PROVE Goal
  BY <1>0, <1>6 DEF CreateBinding
<1>7. ASSUME NEW u \in late, LateWriteLands(u) PROVE Goal
  BY <1>0, <1>7 DEF LateWriteLands
<1>8. ASSUME Unregister PROVE Goal
  BY <1>0, <1>8 DEF Unregister
<1>9. ASSUME Restart PROVE Goal
  BY <1>9 DEF Restart
<1> QED
  BY <1>1, <1>2, <1>3, <1>4, <1>5, <1>6, <1>7, <1>8, <1>9 DEF Next, OStep,
     PStep, BStep

(* What the worker of an object does in a step: rest, end, start or go on. *)
Rests(o) == opc'[o] = opc[o] /\ snap'[o] = snap[o] /\ owner'[o] = owner[o]

ClearsOn(o) == Clearing(o) /\ Clearing(o)' /\ snap'[o] = snap[o]

SyncsOn(o) ==
  /\ Syncing(o) /\ Syncing(o)' /\ snap'[o] = snap[o]
  /\ opc'[o] \in {"ownerHold", "parent", "unparent"} => POwnerRead(o) \/ POwnerHold(o)

WorkerStep(o) ==
  \/ Rests(o) \/ opc'[o] = "idle" \/ ClearsOn(o) \/ SyncsOn(o)
  \/ OStartClear(o) \/ PStartSync(o)

LEMMA WorkerSteps ==
  ASSUME TypeOK, Next, NEW o \in Objects PROVE WorkerStep(o)
<1> USE DEF TypeOK, OWorkersOK
<1> USE DEF bRest, oRest, objVars, fgaVars, bVars, oVars
<1> USE DEF WorkerStep, Objects
<1> DEFINE Goal == WorkerStep(o)
<1>0. ASSUME UNCHANGED <<opc, snap, owner>> PROVE Goal
  BY <1>0 DEF Rests
<1>1. ASSUME NEW y \in Objects, OStartClear(y) PROVE Goal
  BY <1>1 DEF OStartClear, Rests
<1>2. ASSUME NEW y \in Objects, NamingObject(y) PROVE Goal
  BY <1>2 DEF NamingObject, Rests, ClearsOn, Clearing, OClearing, OFinal
<1>3. ASSUME NEW y \in Objects, NamingUser(y) PROVE Goal
  BY <1>3 DEF NamingUser, Rests, ClearsOn, Clearing, OClearing, OFinal
<1>4. ASSUME NEW y \in Objects, ClearDelete(y) PROVE Goal
  BY <1>4 DEF ClearDelete, Rests, ClearsOn, Clearing, OClearing, OFinal
<1>5. ASSUME NEW y \in Objects, ClearDeletePartly(y) PROVE Goal
  BY <1>5 DEF ClearDeletePartly, OEnd, Rests
<1>6. ASSUME NEW y \in Objects, OLock(y) PROVE Goal
  BY <1>6 DEF OLock, Rests, ClearsOn, Clearing, OClearing, OFinal
<1>7. ASSUME NEW y \in Objects, Remaining(y) PROVE Goal
  BY <1>7 DEF Remaining, OEnd, Rests, ClearsOn, Clearing, OClearing, OFinal
<1>8. ASSUME NEW y \in Objects, Release(y) PROVE Goal
  BY <1>8 DEF Release, OEnd, Rests
<1>9. ASSUME NEW y \in Objects, OFail(y) PROVE Goal
  BY <1>9 DEF OFail, OEnd, Rests
<1>10. ASSUME NEW q \in Projects, PStartSync(q) PROVE Goal
  BY <1>10 DEF PStartSync, Rests
<1>11. ASSUME NEW q \in Projects, PExisting(q) PROVE Goal
  BY <1>11 DEF PExisting, Rests, SyncsOn, Syncing, OSyncing, OParent
<1>12. ASSUME NEW q \in Projects, PDeleteStale(q) PROVE Goal
  BY <1>12 DEF PDeleteStale, OEnd, Rests, SyncsOn, Syncing, OSyncing, OParent
<1>13. ASSUME NEW q \in Projects, PLockOwner(q) PROVE Goal
  BY <1>13 DEF PLockOwner, Rests, SyncsOn, Syncing, OSyncing, OParent
<1>14. ASSUME NEW q \in Projects, POwnerRead(q) PROVE Goal
  BY <1>14 DEF POwnerRead, OEnd, Rests, SyncsOn, Syncing, OSyncing, OParent
<1>15. ASSUME NEW q \in Projects, POwnerHold(q) PROVE Goal
  BY <1>15 DEF POwnerHold, OEnd, Rests, SyncsOn, Syncing, OSyncing, OParent
<1>16. ASSUME NEW q \in Projects, PWriteParent(q) PROVE Goal
  BY <1>16 DEF PWriteParent, OEnd, Rests
<1>17. ASSUME NEW q \in Projects, PDeleteParent(q) PROVE Goal
  BY <1>17 DEF PDeleteParent, OEnd, Rests
<1>18. ASSUME NEW y \in Objects,
             Create(y) \/ Delete(y) \/ MiloDrains(y) \/ SyncCache(y)
             \/ Notify(y) \/ ONothingToDo(y) \/ OEnsureFinalizer(y)
      PROVE  Goal
  BY <1>0, <1>18 DEF Create, Delete, MiloDrains, SyncCache, Notify,
     ONothingToDo, OEnsureFinalizer
<1>19. ASSUME NEW c \in Bindings,
             DeleteBinding(c) \/ SyncBinding(c) \/ BStart(c) \/ BValidate(c)
             \/ BInvalid(c) \/ BRoleGone(c) \/ BEvict(c)
             \/ BDeletePolicy(c) \/ BUnbind(c) \/ BLock(c) \/ BDiff(c)
             \/ BGuard(c) \/ BHold(c) \/ BWrite(c) \/ BWriteTimesOut(c)
             \/ BFail(c)
      PROVE  Goal
  BY <1>0, <1>19 DEF DeleteBinding, SyncBinding, BStart, BValidate, BInvalid,
     BRoleGone, BEvict, BDeletePolicy,
     BUnbind, BLock, BDiff, BGuard, BHold, BWrite, BWriteTimesOut, BFail
<1>20. ASSUME NEW q \in Projects, NEW s \in Orgs, Reparent(q, s) PROVE Goal
  BY <1>0, <1>20 DEF Reparent
<1>21. ASSUME NEW c \in Bindings, NEW y \in Objects, CreateBinding(c, y) PROVE Goal
  BY <1>0, <1>21 DEF CreateBinding
<1>22. ASSUME NEW u \in late, LateWriteLands(u) PROVE Goal
  BY <1>0, <1>22 DEF LateWriteLands
<1>23. ASSUME Unregister PROVE Goal
  BY <1>0, <1>23 DEF Unregister
<1>24. ASSUME Restart PROVE Goal
  BY <1>24 DEF Restart
<1> QED
  BY <1>1, <1>2, <1>3, <1>4, <1>5, <1>6, <1>7, <1>8, <1>9, <1>10, <1>11,
     <1>12, <1>13, <1>14, <1>15, <1>16, <1>17, <1>18, <1>19, <1>20, <1>21,
     <1>22, <1>23, <1>24 DEF Next, OStep, PStep, BStep

(* A worker finds only tuples that name its object. *)
LEMMA FoundSteps ==
  ASSUME TypeOK, Next, NEW o \in Objects
  PROVE  /\ \A t \in foundG'[o] : t \in foundG[o] \/ t[2] = o
         /\ \A t \in foundP'[o] : t \in foundP[o] \/ o \in {t[1], t[2]}
<1> USE DEF TypeOK, OWorkersOK
<1> USE DEF bRest, oRest, objVars, fgaVars, bVars, oVars
<1> USE DEF Objects
<1> DEFINE Goal == /\ \A t \in foundG'[o] : t \in foundG[o] \/ t[2] = o
                   /\ \A t \in foundP'[o] : t \in foundP[o] \/ o \in {t[1], t[2]}
<1>0. ASSUME UNCHANGED <<foundG, foundP>> PROVE Goal
  BY <1>0
<1>1. ASSUME NEW y \in Objects, NamingObject(y) PROVE Goal
  BY <1>1 DEF NamingObject, grantsOn, parentsOn
<1>2. ASSUME NEW y \in Objects, NamingUser(y) PROVE Goal
  <2>1. foundG' = foundG /\ foundP' = [foundP EXCEPT ![y] = foundP[y] \cup parentsOf(y)]
    BY <1>2 DEF NamingUser
  <2>2. \A t \in parentsOf(y) : t[1] = y
    BY DEF parentsOf
  <2> QED BY <2>1, <2>2
<1>3. ASSUME NEW y \in Objects, ClearDelete(y) PROVE Goal
  BY <1>3 DEF ClearDelete
<1>4. ASSUME NEW y \in Objects, ClearDeletePartly(y) PROVE Goal
  BY <1>4 DEF ClearDeletePartly, OEnd
<1>5. ASSUME NEW y \in Objects, Remaining(y) PROVE Goal
  BY <1>5 DEF Remaining, OEnd
<1>6. ASSUME NEW y \in Objects, Release(y) PROVE Goal
  BY <1>6 DEF Release, OEnd
<1>7. ASSUME NEW y \in Objects, OFail(y) PROVE Goal
  BY <1>7 DEF OFail, OEnd
<1>8. ASSUME NEW q \in Projects, PExisting(q) PROVE Goal
  BY <1>8 DEF PExisting, parentsOn
<1>9. ASSUME NEW q \in Projects, PDeleteStale(q) PROVE Goal
  <2>1. foundG' = foundG \/ foundG' = [foundG EXCEPT ![q] = {}]
    BY <1>9 DEF PDeleteStale, OEnd
  <2>2. \/ foundP' = [foundP EXCEPT ![q] = foundP[q] \ {t \in foundP[q] : t[1] # snap[q].owner}]
        \/ foundP' = [foundP EXCEPT ![q] = {}]
    BY <1>9 DEF PDeleteStale, OEnd
  <2> QED BY <2>1, <2>2
<1>10. ASSUME NEW q \in Projects, POwnerRead(q) PROVE Goal
  BY <1>10 DEF POwnerRead, OEnd
<1>11. ASSUME NEW q \in Projects, POwnerHold(q) PROVE Goal
  BY <1>11 DEF POwnerHold, OEnd
<1>12. ASSUME NEW q \in Projects, PWriteParent(q) PROVE Goal
  BY <1>12 DEF PWriteParent, OEnd
<1>13. ASSUME NEW q \in Projects, PDeleteParent(q) PROVE Goal
  BY <1>13 DEF PDeleteParent, OEnd
<1>14. ASSUME NEW y \in Objects,
             Create(y) \/ Delete(y) \/ MiloDrains(y) \/ SyncCache(y)
             \/ Notify(y) \/ ONothingToDo(y) \/ OEnsureFinalizer(y)
             \/ OStartClear(y) \/ OLock(y)
      PROVE  Goal
  BY <1>0, <1>14 DEF Create, Delete, MiloDrains, SyncCache, Notify,
     ONothingToDo, OEnsureFinalizer, OStartClear, OLock
<1>15. ASSUME NEW q \in Projects,
             PStartSync(q) \/ PLockOwner(q)
      PROVE  Goal
  BY <1>0, <1>15 DEF PStartSync, PLockOwner
<1>16. ASSUME NEW c \in Bindings,
             DeleteBinding(c) \/ SyncBinding(c) \/ BStart(c) \/ BValidate(c)
             \/ BInvalid(c) \/ BRoleGone(c) \/ BEvict(c)
             \/ BDeletePolicy(c) \/ BUnbind(c) \/ BLock(c) \/ BDiff(c)
             \/ BGuard(c) \/ BHold(c) \/ BWrite(c) \/ BWriteTimesOut(c)
             \/ BFail(c)
      PROVE  Goal
  BY <1>0, <1>16 DEF DeleteBinding, SyncBinding, BStart, BValidate, BInvalid,
     BRoleGone, BEvict, BDeletePolicy,
     BUnbind, BLock, BDiff, BGuard, BHold, BWrite, BWriteTimesOut, BFail
<1>17. ASSUME NEW q \in Projects, NEW s \in Orgs, Reparent(q, s) PROVE Goal
  BY <1>0, <1>17 DEF Reparent
<1>18. ASSUME NEW c \in Bindings, NEW y \in Objects, CreateBinding(c, y) PROVE Goal
  BY <1>0, <1>18 DEF CreateBinding
<1>19. ASSUME NEW u \in late, LateWriteLands(u) PROVE Goal
  BY <1>0, <1>19 DEF LateWriteLands
<1>20. ASSUME Unregister PROVE Goal
  BY <1>0, <1>20 DEF Unregister
<1>21. ASSUME Restart PROVE Goal
  BY <1>21 DEF Restart
<1> QED
  BY <1>1, <1>2, <1>3, <1>4, <1>5, <1>6, <1>7, <1>8, <1>9, <1>10, <1>11,
     <1>12, <1>13, <1>14, <1>15, <1>16, <1>17, <1>18, <1>19, <1>20, <1>21 DEF
     Next, OStep, PStep, BStep

(* Who takes a grant away: a clear, or a binding's worker with a step. *)
LEMMA GrantLeaves ==
  ASSUME TypeOK, Next, NEW t \in grants, t \notin grants'
  PROVE  \/ \E o \in Objects : opc[o] = "delete" /\ t \in foundG[o]
         \/ bpc' # bpc
<1> USE DEF TypeOK, BWorkersOK
<1> USE DEF bRest, oRest, objVars, fgaVars, bVars, oVars
<1> DEFINE Goal == \/ \E o \in Objects : opc[o] = "delete" /\ t \in foundG[o]
                   \/ bpc' # bpc
<1>0. ASSUME UNCHANGED <<grants>> PROVE Goal
  BY <1>0
<1>1. ASSUME NEW y \in Objects, ClearDelete(y) PROVE Goal
  BY <1>1 DEF ClearDelete
<1>2. ASSUME NEW y \in Objects, ClearDeletePartly(y) PROVE Goal
  BY <1>2 DEF ClearDeletePartly
<1>3. ASSUME NEW c \in Bindings, BEvict(c) PROVE Goal
  BY <1>3 DEF BEvict, BEnd
<1>4. ASSUME NEW c \in Bindings, BDeletePolicy(c) PROVE Goal
  BY <1>4 DEF BDeletePolicy
<1>5. ASSUME NEW c \in Bindings, BWrite(c) PROVE Goal
  BY <1>5 DEF BWrite
<1>6. ASSUME NEW y \in Objects,
             Create(y) \/ Delete(y) \/ MiloDrains(y) \/ SyncCache(y)
             \/ Notify(y) \/ ONothingToDo(y) \/ OEnsureFinalizer(y)
             \/ OStartClear(y) \/ NamingObject(y) \/ NamingUser(y) \/ OLock(y)
             \/ Remaining(y) \/ Release(y) \/ OFail(y)
      PROVE  Goal
  BY <1>0, <1>6 DEF Create, Delete, MiloDrains, SyncCache, Notify,
     ONothingToDo, OEnsureFinalizer, OStartClear, NamingObject, NamingUser,
     OLock, Remaining, Release, OFail
<1>7. ASSUME NEW q \in Projects,
             PStartSync(q) \/ PExisting(q) \/ PDeleteStale(q) \/ PLockOwner(q)
             \/ POwnerRead(q) \/ POwnerHold(q) \/ PWriteParent(q)
             \/ PDeleteParent(q)
      PROVE  Goal
  BY <1>0, <1>7 DEF PStartSync, PExisting, PDeleteStale, PLockOwner,
     POwnerRead, POwnerHold, PWriteParent, PDeleteParent
<1>8. ASSUME NEW c \in Bindings,
             DeleteBinding(c) \/ SyncBinding(c) \/ BStart(c) \/ BValidate(c)
             \/ BInvalid(c) \/ BUnbind(c)
             \/ BLock(c) \/ BDiff(c) \/ BGuard(c) \/ BHold(c)
             \/ BWriteTimesOut(c) \/ BFail(c)
      PROVE  Goal
  BY <1>0, <1>8 DEF DeleteBinding, SyncBinding, BStart, BValidate, BInvalid,
     BUnbind, BLock, BDiff, BGuard, BHold, BWriteTimesOut, BFail
<1>9. ASSUME NEW q \in Projects, NEW s \in Orgs, Reparent(q, s) PROVE Goal
  BY <1>0, <1>9 DEF Reparent
<1>10. ASSUME NEW c \in Bindings, NEW y \in Objects, CreateBinding(c, y) PROVE Goal
  BY <1>0, <1>10 DEF CreateBinding
<1>11. ASSUME NEW u \in late, LateWriteLands(u) PROVE Goal
  BY <1>11 DEF LateWriteLands
<1>12. ASSUME Unregister PROVE Goal
  BY <1>0, <1>12 DEF Unregister
<1>13. ASSUME Restart PROVE Goal
  BY <1>0, <1>13 DEF Restart
<1>14. ASSUME NEW c \in Bindings, BRoleGone(c) PROVE Goal
  BY <1>14 DEF BRoleGone, BEnd
<1> QED
  BY <1>1, <1>2, <1>3, <1>4, <1>5, <1>6, <1>7, <1>8, <1>9, <1>10, <1>11,
     <1>12, <1>13, <1>14 DEF Next, OStep, PStep, BStep

(* Who takes a parent tuple away. *)
LEMMA ParentLeaves ==
  ASSUME TypeOK, Next, NEW t \in parents, t \notin parents'
  PROVE  \/ \E o \in Objects : opc[o] = "delete" /\ t \in foundP[o]
         \/ \E p \in Projects : opc[p] = "stale" /\ t \in foundP[p] /\ t[1] # snap[p].owner
         \/ \E p \in Projects : opc[p] = "unparent" /\ t = ParentTuple(p)
<1> USE DEF TypeOK
<1> USE DEF bRest, oRest, objVars, fgaVars, bVars, oVars
<1> DEFINE Goal == \/ \E o \in Objects : opc[o] = "delete" /\ t \in foundP[o]
                   \/ \E p \in Projects : opc[p] = "stale" /\ t \in foundP[p] /\ t[1] # snap[p].owner
                   \/ \E p \in Projects : opc[p] = "unparent" /\ t = ParentTuple(p)
<1>0. ASSUME UNCHANGED <<parents>> PROVE Goal
  BY <1>0
<1>1. ASSUME NEW y \in Objects, ClearDelete(y) PROVE Goal
  BY <1>1 DEF ClearDelete
<1>2. ASSUME NEW y \in Objects, ClearDeletePartly(y) PROVE Goal
  BY <1>2 DEF ClearDeletePartly
<1>3. ASSUME NEW q \in Projects, PDeleteStale(q) PROVE Goal
  BY <1>3 DEF PDeleteStale
<1>4. ASSUME NEW q \in Projects, PWriteParent(q) PROVE Goal
  BY <1>4 DEF PWriteParent
<1>5. ASSUME NEW q \in Projects, PDeleteParent(q) PROVE Goal
  BY <1>5 DEF PDeleteParent
<1>6. ASSUME NEW y \in Objects,
             Create(y) \/ Delete(y) \/ MiloDrains(y) \/ SyncCache(y)
             \/ Notify(y) \/ ONothingToDo(y) \/ OEnsureFinalizer(y)
             \/ OStartClear(y) \/ NamingObject(y) \/ NamingUser(y) \/ OLock(y)
             \/ Remaining(y) \/ Release(y) \/ OFail(y)
      PROVE  Goal
  BY <1>0, <1>6 DEF Create, Delete, MiloDrains, SyncCache, Notify,
     ONothingToDo, OEnsureFinalizer, OStartClear, NamingObject, NamingUser,
     OLock, Remaining, Release, OFail
<1>7. ASSUME NEW q \in Projects,
             PStartSync(q) \/ PExisting(q) \/ PLockOwner(q) \/ POwnerRead(q)
             \/ POwnerHold(q)
      PROVE  Goal
  BY <1>0, <1>7 DEF PStartSync, PExisting, PLockOwner, POwnerRead, POwnerHold
<1>8. ASSUME NEW c \in Bindings,
             DeleteBinding(c) \/ SyncBinding(c) \/ BStart(c) \/ BValidate(c)
             \/ BInvalid(c) \/ BRoleGone(c) \/ BEvict(c)
             \/ BDeletePolicy(c) \/ BUnbind(c) \/ BLock(c) \/ BDiff(c)
             \/ BGuard(c) \/ BHold(c) \/ BWrite(c) \/ BWriteTimesOut(c)
             \/ BFail(c)
      PROVE  Goal
  BY <1>0, <1>8 DEF DeleteBinding, SyncBinding, BStart, BValidate, BInvalid,
     BRoleGone, BEvict, BDeletePolicy,
     BUnbind, BLock, BDiff, BGuard, BHold, BWrite, BWriteTimesOut, BFail
<1>9. ASSUME NEW q \in Projects, NEW s \in Orgs, Reparent(q, s) PROVE Goal
  BY <1>0, <1>9 DEF Reparent
<1>10. ASSUME NEW c \in Bindings, NEW y \in Objects, CreateBinding(c, y) PROVE Goal
  BY <1>0, <1>10 DEF CreateBinding
<1>11. ASSUME NEW u \in late, LateWriteLands(u) PROVE Goal
  BY <1>0, <1>11 DEF LateWriteLands
<1>12. ASSUME Unregister PROVE Goal
  BY <1>0, <1>12 DEF Unregister
<1>13. ASSUME Restart PROVE Goal
  BY <1>0, <1>13 DEF Restart
<1> QED
  BY <1>1, <1>2, <1>3, <1>4, <1>5, <1>6, <1>7, <1>8, <1>9, <1>10, <1>11,
     <1>12, <1>13 DEF Next, OStep, PStep, BStep

-----------------------------------------------------------------------------
(* AccessInv is inductive, with TypeOK and HoldInv.                         *)

Good == TypeOK /\ HoldInv

(* An owner that is named by UID is, if it is there after a step, the one    *)
(* that was there before. *)
LEMMA OwnerWasThere ==
  ASSUME Good, Next, NEW r \in Objects, NEW u \in Nat, u # 0, u < nextUid, api'[r].uid = u
  PROVE  api[r].uid = u
<1>1. ApiStep(r) /\ nextUid \in Nat
  BY ApiSteps DEF Good, HoldInv, TypeOK, ObjectsOK
<1> QED BY <1>1 DEF ApiStep, Kept, Left, Came, Moves, NoObject

LEMMA DrainInvStep ==
  ASSUME Good, DrainInv, Next, Good' PROVE DrainInv'
<1>0. /\ TypeOK /\ OwnerInv /\ JobInv /\ VersionInv
      /\ \A o \in Objects : api[o].uid \in Nat /\ cache[o].uid \in Nat /\ snap[o].uid \in Nat
      /\ nextUid \in Nat
  BY DEF Good, HoldInv, TypeOK, ObjectsOK, OWorkersOK, Object
<1>1. SUFFICES ASSUME NEW o \in Objects
               PROVE  /\ cache'[o].uid = api'[o].uid /\ api'[o].milo => cache'[o].milo
                      /\ Clearing(o)' /\ snap'[o].uid = api'[o].uid => ~api'[o].milo
                      /\ \A t \in foundG'[o] : t[2] = o
                      /\ \A t \in foundP'[o] : o \in {t[1], t[2]}
  BY DEF DrainInv
<1>2. Kept(o) \/ Left(o) \/ Came(o) \/ Moves(o)
  BY <1>0, ApiSteps DEF ApiStep
<1>3. cache[o].uid < nextUid /\ snap[o].uid < nextUid
  BY <1>0 DEF VersionInv, Versions
<1>4. cache'[o].uid = api'[o].uid /\ api'[o].milo => cache'[o].milo
  <2>1. CASE cache'[o] = cache[o]
    <3>1. CASE Left(o)
      BY <3>1 DEF Left, NoObject
    <3>2. CASE Came(o)
      BY <1>0, <1>3, <2>1, <3>2 DEF Came
    <3>3. CASE Kept(o)
      BY <2>1, <3>3 DEF DrainInv, Kept
    <3>4. CASE Moves(o)
      BY <2>1, <3>4 DEF DrainInv, Moves
    <3> QED BY <1>2, <3>1, <3>2, <3>3, <3>4
  <2>2. CASE cache'[o] = api[o] /\ api' = api
    BY <2>2
  <2> QED BY <1>0, <2>1, <2>2, CacheSteps
<1>5. ASSUME Clearing(o)', snap'[o].uid = api'[o].uid PROVE ~api'[o].milo
  <2>1. CASE OStartClear(o)
    <3>1. api' = api /\ snap'[o] = cache[o] /\ ~cache[o].milo
      BY <1>0, <2>1 DEF OStartClear, drained, objVars, TypeOK, OWorkersOK
    <3> QED BY <1>5, <3>1 DEF DrainInv
  <2>2. CASE Clearing(o) /\ snap'[o] = snap[o]
    BY <1>0, <1>2, <1>3, <1>5, <2>2 DEF DrainInv, Kept, Left, Came, Moves, NoObject
  <2>3. ~Syncing(o)' /\ opc'[o] # "idle"
    BY <1>5 DEF Clearing, Syncing, OClearing, OFinal, OSyncing, OParent
  <2>4. PStartSync(o) => Syncing(o)'
    BY <1>0 DEF PStartSync, Syncing, OSyncing, TypeOK, OWorkersOK
  <2>5. Rests(o) => Clearing(o) /\ snap'[o] = snap[o]
    BY <1>5 DEF Rests, Clearing
  <2> QED BY <1>0, <2>1, <2>2, <2>3, <2>4, <2>5, WorkerSteps DEF WorkerStep, ClearsOn, SyncsOn
<1>6. (\A t \in foundG'[o] : t[2] = o) /\ (\A t \in foundP'[o] : o \in {t[1], t[2]})
  BY <1>0, FoundSteps DEF DrainInv
<1> QED BY <1>4, <1>5, <1>6

(* A later version of a Project still follows a copy of this incarnation. *)
LEMMA FollowsOn ==
  ASSUME Good, Next, NEW p \in Projects, NEW c \in Object, c.owner \in Orgs, KnownOwner(c),
         api'[p].uid # 0, api'[p].uid = api[p].uid, Follows(c, api[p])
  PROVE  c.owner = api'[p].owner /\ c.ouid = api'[c.owner].uid => api'[p].ouid = c.ouid
<1> SUFFICES ASSUME c.owner = api'[p].owner, c.ouid = api'[c.owner].uid PROVE api'[p].ouid = c.ouid
  OBVIOUS
<1>0. /\ p \in Objects /\ c.owner \in Objects /\ c.ouid \in Nat
      /\ TypeOK /\ OwnerInv /\ JobInv /\ VersionInv
  BY DEF Objects, Object, Good, HoldInv
<1>1. api[c.owner].uid = c.ouid
  BY <1>0, OwnerWasThere DEF KnownOwner
<1>2. Kept(p) \/ Moves(p)
  <2>1. api[p].uid \in Nat /\ api[p].uid < nextUid /\ nextUid \in Nat
    BY <1>0 DEF TypeOK, ObjectsOK, Object, VersionInv, Versions
  <2> QED BY <1>0, <2>1, ApiSteps DEF ApiStep, Left, Came, NoObject
<1> QED BY <1>1, <1>2 DEF Kept, Moves, NamesOwner, Follows

LEMMA OwnerUidsStep ==
  ASSUME Good, OwnerUids, Next, Good' PROVE OwnerUids'
<1>1. SUFFICES ASSUME NEW p \in Projects
       PROVE  /\ api'[p].uid # 0 => KnownOwner(api[p])'
              /\ cache'[p].uid # 0 => KnownOwner(cache[p])'
              /\ cache'[p].uid = api'[p].uid /\ api'[p].uid # 0 => Follows(cache[p], api[p])'
              /\ Syncing(p)' =>
                  /\ KnownOwner(snap[p])' /\ cache'[p].uid = snap'[p].uid
                  /\ Follows(snap[p], api[p])' /\ Follows(snap[p], cache[p])'
              /\ opc'[p] = "ownerHold" => owner'[p].uid = snap'[p].ouid
              /\ opc'[p] = "parent" => api'[snap'[p].owner].uid = snap'[p].ouid
              /\ opc'[p] = "unparent" => api'[snap'[p].owner].uid # snap'[p].ouid
  BY DEF OwnerUids
<1>0. /\ TypeOK /\ OwnerInv /\ JobInv /\ LockInv /\ VersionInv /\ WriterInv /\ p \in Objects
      /\ api[p] \in Object /\ cache[p] \in Object /\ snap[p] \in Object
  BY DEF Good, HoldInv, TypeOK, ObjectsOK, OWorkersOK, Objects
<1>2. /\ nextUid \in Nat /\ nextUid' \in Nat /\ nextUid' >= nextUid
      /\ Kept(p) \/ Left(p) \/ Came(p) \/ Moves(p)
  BY <1>0, ApiSteps DEF ApiStep, TypeOK, ObjectsOK
<1>3. /\ \A o \in Objects : api[o].uid \in Nat /\ api[o].uid < nextUid
      /\ cache[p].uid \in Nat /\ cache[p].uid < nextUid
      /\ api[p].ouid \in Nat /\ cache[p].ouid \in Nat /\ snap[p].ouid \in Nat
  BY <1>0 DEF TypeOK, ObjectsOK, Object, VersionInv, Versions
<1>4. ASSUME NEW c \in Object, KnownOwner(c) PROVE c.ouid # 0 /\ c.ouid < nextUid'
  BY <1>2, <1>4, ObjectFields DEF KnownOwner
<1>5. ASSUME api'[p].uid # 0 PROVE KnownOwner(api[p])'
  <2>1. CASE Kept(p)
    <3>1. KnownOwner(api[p])
      BY <1>5, <2>1 DEF Kept, OwnerUids
    <3> QED BY <1>0, <1>4, <2>1, <3>1 DEF Kept, KnownOwner
  <2>2. CASE NamesOwner(p)
    <3>1. api'[p].owner \in Objects
      BY <2>2 DEF NamesOwner, Objects
    <3>2. api'[api'[p].owner].uid < nextUid'
      BY <3>1 DEF Good, HoldInv, VersionInv, Versions
    <3> QED BY <2>2, <3>2 DEF NamesOwner, KnownOwner
  <2> QED BY <1>2, <1>5, <2>1, <2>2 DEF Left, Came, Moves, NoObject
<1>c. cache'[p] = cache[p] \/ (cache'[p] = api[p] /\ api' = api /\ nextUid' = nextUid)
  BY <1>0, CacheSteps
<1>6. ASSUME cache'[p].uid # 0 PROVE KnownOwner(cache[p])'
  <2>1. KnownOwner(cache[p]) \/ (cache'[p] = api[p] /\ KnownOwner(api[p]))
    BY <1>c, <1>6 DEF OwnerUids
  <2>2. CASE cache'[p] = cache[p]
    BY <1>0, <1>4, <1>6, <2>2 DEF OwnerUids, KnownOwner
  <2>3. CASE cache'[p] = api[p]
    BY <1>0, <1>4, <1>6, <2>3 DEF OwnerUids, KnownOwner
  <2> QED BY <1>c, <2>2, <2>3
<1>7. ASSUME cache'[p].uid = api'[p].uid, api'[p].uid # 0 PROVE Follows(cache[p], api[p])'
  <2>1. CASE cache'[p] = api[p] /\ api' = api
    BY <2>1 DEF Follows
  <2>2. CASE cache'[p] = cache[p]
    <3>1. api'[p].uid = api[p].uid
      BY <1>2, <1>3, <1>7, <2>2 DEF Kept, Left, Came, Moves, NoObject
    <3>2. cache[p].owner \in Orgs /\ KnownOwner(cache[p]) /\ Follows(cache[p], api[p])
      BY <1>0, <1>7, <2>2, <3>1 DEF OwnerInv, OwnerUids
    <3>3. cache[p].owner = api'[p].owner /\ cache[p].ouid = api'[cache[p].owner].uid
            => api'[p].ouid = cache[p].ouid
      BY <1>0, <1>7, <3>1, <3>2, FollowsOn
    <3> QED BY <2>2, <3>3 DEF Follows
  <2> QED BY <1>c, <2>1, <2>2
<1>w. /\ Syncing(p)' => PStartSync(p) \/ (Syncing(p) /\ snap'[p] = snap[p])
      /\ opc'[p] \in {"ownerHold", "parent", "unparent"} =>
            \/ opc[p] = opc'[p] /\ owner'[p] = owner[p]
            \/ POwnerRead(p) \/ POwnerHold(p)
  <2>1. OStartClear(p) => opc'[p] = "clearObject"
    BY <1>0 DEF OStartClear, TypeOK, OWorkersOK
  <2>2. PStartSync(p) => opc'[p] = "existing"
    BY <1>0 DEF PStartSync, TypeOK, OWorkersOK
  <2>3. WorkerStep(p)
    BY <1>0, WorkerSteps
  <2> QED BY <2>1, <2>2, <2>3 DEF WorkerStep, Rests, ClearsOn, SyncsOn, Clearing, Syncing,
             OClearing, OFinal, OSyncing, OParent
<1>8. ASSUME Syncing(p)'
      PROVE  /\ KnownOwner(snap[p])' /\ cache'[p].uid = snap'[p].uid
             /\ Follows(snap[p], api[p])' /\ Follows(snap[p], cache[p])'
  <2>1. CASE PStartSync(p)
    <3>1. /\ api' = api /\ cache' = cache /\ nextUid' = nextUid /\ snap'[p] = cache[p]
          /\ Live(cache[p]) /\ cache[p].ours
      BY <1>0, <2>1 DEF PStartSync, objVars, TypeOK, OWorkersOK
    <3>2. cache[p].uid # 0 /\ cache[p].uid = api[p].uid
      BY <1>0, <3>1 DEF Live, VersionInv, Versions
    <3>3. KnownOwner(cache[p]) /\ Follows(cache[p], api[p])
      BY <3>2 DEF OwnerUids
    <3> QED BY <3>1, <3>3 DEF KnownOwner, Follows
  <2>2. CASE Syncing(p) /\ snap'[p] = snap[p]
    <3>1. /\ KnownOwner(snap[p]) /\ cache[p].uid = snap[p].uid
          /\ Follows(snap[p], api[p]) /\ Follows(snap[p], cache[p])
          /\ snap[p].owner \in Orgs
      BY <1>0, <2>2 DEF OwnerUids, OwnerInv, Syncing
    <3>2. api[p].uid = snap[p].uid /\ api'[p].uid = snap'[p].uid /\ api'[p].ours
      BY <1>0, <1>8, <2>2 DEF Good, HoldInv, VersionInv, Versions, Syncing
    <3>3. api'[p].uid # 0
      BY <1>0, <3>2 DEF Good, HoldInv, VersionInv, Versions
    <3>4. KnownOwner(snap[p])'
      BY <1>0, <1>4, <2>2, <3>1 DEF KnownOwner
    <3>5. cache'[p].uid = snap'[p].uid
      BY <1>c, <2>2, <3>1, <3>2
    <3>6. Follows(snap[p], api[p])'
      BY <1>0, <2>2, <3>1, <3>2, <3>3, FollowsOn DEF Follows
    <3>7. Follows(snap[p], cache[p])'
      <4>1. CASE cache'[p] = api[p] /\ api' = api
        BY <3>6, <4>1 DEF Follows
      <4>2. CASE cache'[p] = cache[p]
        <5>1. snap[p].owner \in Objects
          BY <3>1 DEF Objects
        <5>2. snap[p].ouid = api'[snap[p].owner].uid => snap[p].ouid = api[snap[p].owner].uid
          BY <1>3, <3>1, <5>1, OwnerWasThere DEF KnownOwner
        <5> QED BY <2>2, <3>1, <4>2, <5>2 DEF Follows
      <4> QED BY <1>c, <4>1, <4>2
    <3> QED BY <3>4, <3>5, <3>6, <3>7
  <2> QED BY <1>8, <1>w, <2>1, <2>2
<1>r. ASSUME POwnerRead(p), opc'[p] # "idle"
      PROVE  /\ api' = api /\ snap' = snap /\ snap[p].ouid # 0
             /\ opc'[p] = "ownerHold" => owner'[p].uid = snap[p].ouid
             /\ opc'[p] = "parent" => api[snap[p].owner].uid = snap[p].ouid
             /\ opc'[p] = "unparent" => api[snap[p].owner].uid # snap[p].ouid
  <2>1. opc[p] = "ownerRead"
    BY <1>r DEF POwnerRead
  <2>2. snap[p].ouid # 0
    BY <2>1 DEF OwnerUids, Syncing, OParent, KnownOwner
  <2> DEFINE h == holdOf(api[snap[p].owner], snap[p].ouid)
  <2>3. /\ api' = api /\ snap' = snap
        /\ opc'[p] = IF h = "held" THEN "parent" ELSE IF h = "notYet" THEN "ownerHold" ELSE "unparent"
        /\ h # "deleting"
        /\ owner'[p] = api[snap[p].owner]
    BY <1>0, <1>r DEF POwnerRead, OEnd, objVars, TypeOK, OWorkersOK
  <2>4. h \in {"held", "notYet"} => api[snap[p].owner].uid = snap[p].ouid
    BY DEF holdOf
  <2>5. h \notin {"held", "notYet", "deleting"} => api[snap[p].owner].uid # snap[p].ouid
    BY <2>2 DEF holdOf
  <2> QED BY <2>2, <2>3, <2>4, <2>5
<1>h. ASSUME POwnerHold(p), opc'[p] # "idle"
      PROVE  opc'[p] = "parent" /\ snap' = snap /\ api'[snap[p].owner].uid = snap[p].ouid
  <2>1. /\ opc[p] = "ownerHold" /\ opc'[p] = "parent" /\ snap' = snap
        /\ owner[p] = api[snap[p].owner] /\ api' = Hold(snap[p].owner)
    BY <1>0, <1>h DEF POwnerHold, OEnd, Current, TypeOK, OWorkersOK
  <2>2. snap[p].owner \in Objects /\ owner[p].uid = snap[p].ouid
    BY <1>0, <2>1 DEF OwnerInv, OParent, OwnerUids, Objects
  <2> QED BY <1>0, <2>1, <2>2, HoldEffect DEF TypeOK
<1>9. opc'[p] = "ownerHold" => owner'[p].uid = snap'[p].ouid
  <2>1. opc'[p] = "ownerHold" /\ opc[p] = opc'[p] => snap'[p] = snap[p]
    <3>1. opc'[p] = "ownerHold" => Syncing(p)' /\ opc'[p] # "existing"
      BY DEF Syncing, OParent
    <3>2. PStartSync(p) => opc'[p] = "existing"
      BY <1>0 DEF PStartSync, TypeOK, OWorkersOK
    <3> QED BY <1>w, <3>1, <3>2
  <2> QED BY <1>w, <1>r, <1>h, <2>1 DEF OwnerUids
<1>10. ASSUME opc'[p] = "parent" PROVE api'[snap'[p].owner].uid = snap'[p].ouid
  <2>0. snap'[p] = snap[p]
    <3>1. Syncing(p)' /\ opc'[p] # "existing"
      BY <1>10 DEF Syncing, OParent
    <3>2. PStartSync(p) => opc'[p] = "existing"
      BY <1>0 DEF PStartSync, TypeOK, OWorkersOK
    <3> QED BY <1>w, <3>1, <3>2
  <2>1. CASE opc[p] = "parent"
    <3>1. /\ snap[p].owner \in Objects /\ snap[p].owner # p
          /\ api[snap[p].owner].uid = snap[p].ouid /\ api[snap[p].owner].ours
          /\ lock[LockOf[snap[p].owner]] = p
      BY <1>0, <2>1, NamesDisjoint DEF OwnerInv, LockInv, WriterInv, OParent, OwnerUids, Objects
    <3>2. ~Release(snap[p].owner)
      BY <1>0, <3>1 DEF Release, LockInv, OFinal
    <3> QED BY <1>0, <2>0, <3>1, <3>2, HeldStays
  <2> QED BY <1>w, <1>r, <1>h, <1>10, <2>0, <2>1
<1>11. ASSUME opc'[p] = "unparent" PROVE api'[snap'[p].owner].uid # snap'[p].ouid
  <2>0. snap'[p] = snap[p]
    <3>1. Syncing(p)' /\ opc'[p] # "existing"
      BY <1>11 DEF Syncing, OParent
    <3>2. PStartSync(p) => opc'[p] = "existing"
      BY <1>0 DEF PStartSync, TypeOK, OWorkersOK
    <3> QED BY <1>w, <3>1, <3>2
  <2>1. CASE opc[p] = "unparent"
    <3>1. snap[p].owner \in Objects /\ KnownOwner(snap[p]) /\ api[snap[p].owner].uid # snap[p].ouid
      BY <1>0, <2>1 DEF OwnerInv, OParent, OwnerUids, Syncing, Objects
    <3> QED BY <1>3, <2>0, <3>1, OwnerWasThere DEF KnownOwner
  <2> QED BY <1>w, <1>r, <1>h, <1>11, <2>0, <2>1
<1> QED BY <1>5, <1>6, <1>7, <1>8, <1>9, <1>10, <1>11

LEMMA ParentUidsStep ==
  ASSUME ~MayUnregister, Good, OwnerUids, ParentUids, Next, Good' PROVE ParentUids'
<1>0. /\ TypeOK /\ OwnerInv /\ JobInv /\ LockInv /\ VersionInv /\ ClearedInv /\ TupleInv
      /\ parents \subseteq Orgs \X Projects
  BY DEF Good, HoldInv, TypeOK, StoreOK
<1>1. SUFFICES ASSUME NEW t \in parents'
       PROVE  /\ cache'[t[2]].uid = api'[t[2]].uid
              /\ Clearing(t[2])' => snap'[t[2]].uid = api'[t[2]].uid
              /\ api'[t[2]].owner = t[1] => api'[t[2]].ouid = api'[t[1]].uid
              /\ cache'[t[2]].owner = t[1] => cache'[t[2]].ouid = api'[t[1]].uid
              /\ Syncing(t[2])' /\ snap'[t[2]].owner = t[1] => snap'[t[2]].ouid = api'[t[1]].uid
  BY DEF ParentUids
<1>2. CASE t \in parents
  <2> DEFINE r == t[1]
             p == t[2]
  <2>1. r \in Objects /\ p \in Objects /\ r \in Orgs /\ p \in Projects
    BY <1>0, <1>2 DEF Objects
  <2>2. api[r].ours /\ api[p].ours /\ ~Release(r) /\ ~Release(p)
    BY <1>0, <1>2, <2>1 DEF TupleInv, Release, ClearedInv
  <2>3. api'[r].uid = api[r].uid /\ api'[p].uid = api[p].uid /\ api'[p].ours
    BY <1>0, <2>1, <2>2, HeldStays
  <2>4. api[p].uid # 0 /\ api[p].uid \in Nat /\ api[p].uid < nextUid /\ nextUid \in Nat
    BY <1>0, <2>1, <2>2 DEF VersionInv, Versions, TypeOK, ObjectsOK, Object
  <2>5. Kept(p) \/ Moves(p)
    BY <1>0, <2>1, <2>3, <2>4, ApiSteps DEF ApiStep, Left, Came, NoObject
  <2>6. /\ cache[p].uid = api[p].uid
        /\ Clearing(p) => snap[p].uid = api[p].uid
        /\ api[p].owner = r => api[p].ouid = api[r].uid
        /\ cache[p].owner = r => cache[p].ouid = api[r].uid
        /\ Syncing(p) /\ snap[p].owner = r => snap[p].ouid = api[r].uid
    BY <1>2 DEF ParentUids
  <2>7. cache'[p] = cache[p] \/ (cache'[p] = api[p] /\ api' = api)
    BY <1>0, <2>1, CacheSteps
  <2>8. /\ Clearing(p)' => (Clearing(p) /\ snap'[p] = snap[p]) \/ snap'[p] = cache[p]
        /\ Syncing(p)' => (Syncing(p) /\ snap'[p] = snap[p]) \/ snap'[p] = cache[p]
    <3>1. OStartClear(p) \/ PStartSync(p) => snap'[p] = cache[p]
      BY <1>0, <2>1 DEF OStartClear, PStartSync, TypeOK, OWorkersOK
    <3>2. WorkerStep(p)
      BY <1>0, <2>1, WorkerSteps
    <3> QED BY <3>1, <3>2 DEF WorkerStep, Rests, ClearsOn, SyncsOn, Clearing, Syncing,
               OClearing, OFinal, OSyncing, OParent
  <2>9. api'[p].owner = r => api'[p].ouid = api'[r].uid
    BY <2>3, <2>5, <2>6 DEF Kept, Moves, NamesOwner
  <2> QED BY <2>3, <2>6, <2>7, <2>8, <2>9
<1>3. CASE t \notin parents
  <2>1. PICK p \in Projects : PWriteParent(p) /\ t = ParentTuple(p)
    BY <1>0, <1>3, NewParent
  <2>2. opc[p] = "parent" /\ api' = api /\ cache' = cache /\ opc'[p] = "idle"
    BY <1>0, <2>1 DEF PWriteParent, OEnd, objVars, TypeOK, OWorkersOK, Objects
  <2>3. Syncing(p) /\ ~Syncing(p)' /\ ~Clearing(p)'
    BY <2>2 DEF Syncing, Clearing, OSyncing, OParent, OClearing, OFinal
  <2>4. t[1] = snap[p].owner /\ t[2] = p /\ p \in Objects
    BY <2>1 DEF ParentTuple, Objects
  <2>5. /\ cache[p].uid = snap[p].uid /\ api[p].uid = snap[p].uid
        /\ Follows(snap[p], api[p]) /\ Follows(snap[p], cache[p])
        /\ api[snap[p].owner].uid = snap[p].ouid
    BY <1>0, <2>2, <2>3, <2>4 DEF OwnerUids, VersionInv, Versions, Syncing
  <2> QED BY <2>2, <2>3, <2>4, <2>5 DEF Follows
<1> QED BY <1>2, <1>3

-----------------------------------------------------------------------------
(* The property.                                                            *)

GrantLasts(t) ==
  api[t[2]].del /\ bpc' = bpc /\ snap[t[2]].uid = api[t[2]].uid => ~api[t[2]].milo

ParentLasts(t) ==
  api[t[1]].del /\ Live(api[t[2]]) /\ api[t[2]].owner = t[1]
    /\ snap[t[2]].owner \in {t[1], NoName}
    /\ (snap[t[1]].uid = api[t[1]].uid \/ snap[t[1]].uid = 0)
    => ~api[t[1]].milo

(* A grant that no binding's worker takes away is taken by the clear, which  *)
(* works on an object that Milo has left. *)
LEMMA GrantsLast ==
  ASSUME Good, DrainInv, Next, NEW t \in grants, t \notin grants'
  PROVE  GrantLasts(t)
<1>1. ASSUME NEW o \in Objects, opc[o] = "delete", t \in foundG[o] PROVE GrantLasts(t)
  <2>1. t[2] = o /\ Clearing(o)
    BY <1>1 DEF DrainInv, Clearing, OClearing
  <2> QED BY <1>1, <2>1 DEF DrainInv, GrantLasts
<1>2. ASSUME bpc' # bpc PROVE GrantLasts(t)
  BY <1>2 DEF GrantLasts
<1> QED BY <1>1, <1>2, GrantLeaves DEF Good

(* The Project's own worker takes away only what the Project does not ask    *)
(* for: a parent tuple of an owner that was replaced is gone already. Its    *)
(* clear and the owner's work on objects that Milo has left. *)
LEMMA ParentsLast ==
  ASSUME Good, DrainInv, OwnerUids, ParentUids, Next, NEW t \in parents, t \notin parents'
  PROVE  ParentLasts(t)
<1>0. /\ TypeOK /\ VersionInv /\ t[1] \in Orgs /\ t[2] \in Projects
      /\ parents \subseteq Orgs \X Projects
  BY DEF Good, HoldInv, TypeOK, StoreOK
<1>1. ASSUME NEW o \in Objects, opc[o] = "delete", t \in foundP[o] PROVE ParentLasts(t)
  <2>1. o \in {t[1], t[2]} /\ Clearing(o)
    BY <1>1 DEF DrainInv, Clearing, OClearing
  <2>2. CASE o = t[1]
    <3>1. snap[o].uid # 0
      BY <1>0, <2>1 DEF VersionInv, Versions, Clearing
    <3> QED BY <2>1, <2>2, <3>1 DEF DrainInv, ParentLasts
  <2>3. CASE o = t[2]
    <3>1. snap[o].uid = api[o].uid
      BY <2>1, <2>3 DEF ParentUids
    <3>2. api[o].del
      BY <1>0, <2>1, <3>1 DEF VersionInv, Versions, Clearing
    <3> QED BY <2>3, <3>2 DEF ParentLasts, Live
  <2> QED BY <2>1, <2>2, <2>3
<1>2. ASSUME NEW p \in Projects, opc[p] = "stale", t \in foundP[p], t[1] # snap[p].owner
      PROVE  ParentLasts(t)
  <2>1. p \in Objects /\ Syncing(p)
    BY <1>2 DEF Syncing, OSyncing, Objects
  <2>2. t[2] = p
    BY <1>0, <1>2, <2>1, NamesDisjoint DEF DrainInv
  <2>3. snap[p].owner \in Orgs /\ NoName \notin Orgs
    BY <2>1, NamesDisjoint DEF Good, HoldInv, OwnerInv, Syncing, Objects
  <2> QED BY <1>2, <2>2, <2>3 DEF ParentLasts
<1>3. ASSUME NEW p \in Projects, opc[p] = "unparent", t = ParentTuple(p) PROVE FALSE
  <2>1. Syncing(p) /\ api[snap[p].owner].uid # snap[p].ouid
    BY <1>3 DEF OwnerUids, Syncing, OParent
  <2>2. snap[p].ouid = api[snap[p].owner].uid
    BY <1>3, <2>1 DEF ParentUids, ParentTuple
  <2> QED BY <2>1, <2>2
<1> QED BY <1>0, <1>1, <1>2, <1>3, ParentLeaves

LEMMA AccessInvInit == Init => AccessInv
<1> SUFFICES ASSUME Init PROVE AccessInv
  OBVIOUS
<1>1. DrainInv
  BY DEF Init, DrainInv, NoObject, Clearing, OClearing, OFinal
<1>2. OwnerUids
  BY DEF Init, OwnerUids, NoObject, Syncing, OSyncing, OParent, Objects
<1> QED BY <1>1, <1>2 DEF Init, AccessInv, ParentUids

LEMMA AccessInvStep ==
  ASSUME ~MayUnregister, Good, AccessInv, [Next]_vars PROVE AccessInv'
<1>1. CASE Next
  <2>1. Good'
    BY HoldInvStep DEF Good
  <2> QED BY <1>1, <2>1, DrainInvStep, OwnerUidsStep, ParentUidsStep DEF AccessInv
<1>2. CASE UNCHANGED vars
  BY <1>2 DEF vars, objVars, fgaVars, bVars, oVars, AccessInv, DrainInv, OwnerUids,
     ParentUids, Clearing, Syncing, Follows, KnownOwner
<1> QED BY <1>1, <1>2

(* What UIDs tell about copies, in every reachable state, as long as the     *)
(* Project registration keeps naming Organization as a parent. *)
THEOREM AccessInvariant ==
  ASSUME ~MayUnregister PROVE Spec => []AccessInv
<1>1. Good /\ AccessInv /\ [Next]_vars => AccessInv'
  BY AccessInvStep
<1>2. TypeOK /\ HoldInv => Good
  BY DEF Good
<1> QED BY <1>1, <1>2, AccessInvInit, TypeCorrect, HoldInvariant, PTL DEF Spec

(* As long as the registration keeps naming Organization as a parent, access *)
(* lasts while Milo drains what is deleted (handleProjectDeletion,            *)
(* syncParent, openFGAFinalizer). *)
THEOREM AccessLasts ==
  ASSUME ~MayUnregister PROVE Spec => AccessLastsUntilDrained
<1> DEFINE Lasts == /\ \A t \in grants \ grants' : GrantLasts(t)
                    /\ \A t \in parents \ parents' : ParentLasts(t)
<1>1. TypeOK /\ HoldInv /\ AccessInv /\ [Next]_vars => [Lasts]_vars
  <2> SUFFICES ASSUME TypeOK, HoldInv, AccessInv, Next PROVE Lasts
    OBVIOUS
  <2>1. Good /\ DrainInv /\ OwnerUids /\ ParentUids
    BY DEF Good, AccessInv
  <2> QED BY <2>1, GrantsLast, ParentsLast
<1>2. [][Lasts]_vars => AccessLastsUntilDrained
  BY PTL DEF AccessLastsUntilDrained, GrantLasts, ParentLasts
<1> QED BY <1>1, <1>2, AccessInvariant, TypeCorrect, HoldInvariant, PTL DEF Spec

=============================================================================
