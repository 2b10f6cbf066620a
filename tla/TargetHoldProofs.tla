-------------------------- MODULE TargetHoldProofs --------------------------
(***************************************************************************)
(* TLAPS proofs about TargetHold, for every set of Organizations, Projects, *)
(* bindings and locks, every hash of objects to locks and every bound.      *)
(*                                                                          *)
(* TypeOK /\ HoldInv is inductive.  HoldInv is proved layer by layer, each  *)
(* from the ones before it: which binding and which owner a worker works on *)
(* (JobInv, OwnerInv), which lock it holds (LockInv), how old its copies    *)
(* may be (VersionInv), that the object it is about to name is held         *)
(* (WriterInv), that nothing names an object about to be released           *)
(* (ClearedInv), and from all of them that every tuple names objects that   *)
(* are held (TupleInv).                                                     *)
(***************************************************************************)
EXTENDS TargetHold, TLAPS

-----------------------------------------------------------------------------
(* Types.                                                                   *)

(* The empty name and the empty binding are values of their types. *)
LEMMA NoObjectType == NoObject \in Object
  BY DEF NoObject, Object

LEMMA NoBindingType == NoBinding \in Binding
  BY DEF Binding

(* Each edit of an object yields an object. *)
LEMMA ObjectEdits ==
  ASSUME NEW x \in Object
  PROVE  /\ [x EXCEPT !.ours = TRUE] \in Object
         /\ Removed([x EXCEPT !.del = TRUE]) \in Object
         /\ Removed([x EXCEPT !.milo = FALSE]) \in Object
         /\ Removed([x EXCEPT !.ours = FALSE]) \in Object
  BY NoObjectType DEF Removed, Object

LEMMA ObjectFields ==
  ASSUME NEW x \in Object
  PROVE  x.uid \in Nat /\ x.ouid \in Nat /\ x.moves \in Nat
  BY DEF Object

LEMMA ReparentType ==
  ASSUME NEW x \in Object, NEW r \in Orgs, NEW u \in Nat
  PROVE  Moved(x, r, u) \in Object
<1>1. x.moves + 1 \in Nat
  BY DEF Object
<1> QED BY <1>1 DEF Moved, Object

LEMMA HoldType ==
  ASSUME ObjectsOK, NEW o \in Objects PROVE Hold(o) \in [Objects -> Object]
<1>1. [api[o] EXCEPT !.ours = TRUE] \in Object
  BY ObjectEdits DEF ObjectsOK
<1> QED BY <1>1 DEF Hold, ObjectsOK

(* A lost answer stays within the budget. *)
LEMMA AnsweredType ==
  ASSUME BoundsOK, NEW ack \in BOOLEAN, Answered(ack)
  PROVE  faults' \in 0..MaxFaults
  BY BoundTypes DEF BoundsOK, Answered

(* A created object is an object. *)
LEMMA FreshType ==
  ASSUME ObjectsOK, NEW milo \in BOOLEAN, NEW r \in Orgs \cup {NoName}, NEW u \in Nat
  PROVE  Fresh(milo, r, u) \in Object
  BY BoundTypes DEF Fresh, Object, ObjectsOK

(* Each edit of a stored binding yields a binding. *)
LEMMA BindingEdits ==
  ASSUME NEW x \in Binding, x.st # "none"
  PROVE  /\ [x EXCEPT !.fin = TRUE] \in Binding
         /\ [x EXCEPT !.st = "deleting"] \in Binding
<1>1. x \in [st: {"live", "deleting"}, fin: BOOLEAN, target: Objects, uid: Nat]
  BY DEF Binding, NoBinding
<1>2. /\ [x EXCEPT !.fin = TRUE] \in [st: {"live", "deleting"}, fin: BOOLEAN, target: Objects, uid: Nat]
      /\ [x EXCEPT !.st = "deleting"] \in [st: {"live", "deleting"}, fin: BOOLEAN, target: Objects, uid: Nat]
  BY <1>1
<1> QED BY <1>2 DEF Binding

(* What ends a reconcile, or takes a lock, keeps the types. *)
LEMMA UnlockType ==
  ASSUME LocksOK, NEW w, Unlock(w) PROVE LocksOK'
  BY DEF LocksOK, Unlock

LEMMA BEndType ==
  ASSUME BWorkersOK, LocksOK, NEW b \in Bindings, NEW again, BEnd(b, again)
  PROVE  BWorkersOK' /\ LocksOK'
<1>1. BWorkersOK'
  BY NoBindingType, NoObjectType DEF BWorkersOK, BEnd, BPc
<1>2. LocksOK'
  BY UnlockType DEF BEnd
<1> QED BY <1>1, <1>2

LEMMA OEndType ==
  ASSUME OWorkersOK, LocksOK, NEW o \in Objects, NEW again, OEnd(o, again)
  PROVE  OWorkersOK' /\ LocksOK'
<1>1. OWorkersOK'
  BY NoObjectType DEF OWorkersOK, OEnd, OPc
<1>2. LocksOK'
  BY UnlockType DEF OEnd
<1> QED BY <1>1, <1>2

LEMMA AcquireType ==
  ASSUME LocksOK, NEW o \in Objects, NEW w \in Bindings \cup Objects, Acquire(o, w)
  PROVE  LocksOK'
  BY LockOfType DEF LocksOK, Acquire

(* Every step keeps TypeOK. A worker that is busy has a target and an owner *)
(* to work on: JobInv and OwnerInv say so. *)
LEMMA TypeStep ==
  ASSUME TypeOK, OwnerInv, JobInv, Next
  PROVE  TypeOK'
<1> USE NamesDisjoint, LockOfType, GrantOfType, FlagTypes, BoundTypes, DeletableType
<1> USE DEF TypeOK, bRest, oRest, objVars, fgaVars, bVars, oVars
<1>1. ASSUME NEW o \in Objects, Create(o) PROVE TypeOK'
  <2>1. ObjectsOK'
    <3>1. PICK milo \in MiloHolds :
            \/ o \in Orgs /\ api' = [api EXCEPT ![o] = Fresh(milo, NoName, 0)]
            \/ \E r \in Orgs : api' = [api EXCEPT ![o] = Fresh(milo, r, api[r].uid)]
      BY <1>1 DEF Create
    <3>2. milo \in BOOLEAN
      OBVIOUS
    <3>3. \A r \in Orgs : api[r].uid \in Nat
      BY ObjectFields DEF ObjectsOK, Objects
    <3>4. api' \in [Objects -> Object]
      BY <3>1, <3>2, <3>3, FreshType DEF ObjectsOK
    <3> QED BY <1>1, <3>4 DEF Create, ObjectsOK
  <2> QED
    BY <1>1, <2>1 DEF Create, StoreOK, BWorkersOK, OWorkersOK, LocksOK, BoundsOK
<1>2. ASSUME NEW o \in Objects, Delete(o) PROVE TypeOK'
  <2>1. ObjectsOK'
    BY <1>2, ObjectEdits DEF Delete, Deleted, ObjectsOK
  <2> QED
    BY <1>2, <2>1 DEF Delete, StoreOK, BWorkersOK, OWorkersOK, LocksOK, BoundsOK
<1>3. ASSUME NEW o \in Objects, MiloDrains(o) PROVE TypeOK'
  <2>1. ObjectsOK'
    BY <1>3, ObjectEdits DEF MiloDrains, Drained, ObjectsOK
  <2> QED
    BY <1>3, <2>1 DEF MiloDrains, StoreOK, BWorkersOK, OWorkersOK, LocksOK, BoundsOK
<1>4. ASSUME NEW p \in Projects, NEW r \in Orgs, Reparent(p, r) PROVE TypeOK'
  <2>1. ObjectsOK'
    <3>2. p \in Objects /\ api[p] \in Object /\ api[r].uid \in Nat
      BY ObjectFields DEF ObjectsOK, Objects
    <3>3. Moved(api[p], r, api[r].uid) \in Object
      BY <3>2, ReparentType
    <3> QED BY <1>4, <3>2, <3>3 DEF Reparent, ObjectsOK
  <2> QED
    BY <1>4, <2>1 DEF Reparent, StoreOK, BWorkersOK, OWorkersOK, LocksOK, BoundsOK
<1>5. ASSUME Unregister PROVE TypeOK'
  <2>1. ObjectsOK'
    BY <1>5 DEF Unregister, ObjectsOK
  <2> QED
    BY <1>5, <2>1 DEF Unregister, StoreOK, BWorkersOK, OWorkersOK, LocksOK, BoundsOK
<1>6. ASSUME NEW b \in Bindings, NEW o \in Objects, CreateBinding(b, o) PROVE TypeOK'
  <2>1. StoreOK'
    BY <1>6, ObjectFields DEF CreateBinding, StoreOK, ObjectsOK, Binding
  <2>2. BWorkersOK'
    BY <1>6 DEF CreateBinding, BWorkersOK
  <2> QED
    BY <1>6, <2>1, <2>2 DEF CreateBinding, ObjectsOK, OWorkersOK, LocksOK, BoundsOK
<1>7. ASSUME NEW b \in Bindings, DeleteBinding(b) PROVE TypeOK'
  <2>1. StoreOK'
    BY <1>7, BindingEdits, NoBindingType DEF DeleteBinding, StoreOK
  <2>2. BWorkersOK'
    BY <1>7 DEF DeleteBinding, BWorkersOK
  <2> QED
    BY <1>7, <2>1, <2>2 DEF DeleteBinding, ObjectsOK, OWorkersOK, LocksOK, BoundsOK
<1>8. ASSUME NEW o \in Objects, SyncCache(o) PROVE TypeOK'
  <2>1. ObjectsOK'
    BY <1>8 DEF SyncCache, ObjectsOK
  <2> QED
    BY <1>8, <2>1 DEF SyncCache, StoreOK, BWorkersOK, OWorkersOK, LocksOK, BoundsOK
<1>9. ASSUME NEW o \in Objects, Notify(o) PROVE TypeOK'
  <2>1. ObjectsOK'
    BY <1>9 DEF Notify, ObjectsOK
  <2>2. OWorkersOK'
    BY <1>9 DEF Notify, OWorkersOK
  <2> QED
    BY <1>9, <2>1, <2>2 DEF Notify, StoreOK, BWorkersOK, LocksOK, BoundsOK
<1>10. ASSUME NEW b \in Bindings, BStart(b) PROVE TypeOK'
  <2>1. StoreOK'
    <3>1. CASE UNCHANGED bind
      BY <1>10, <3>1 DEF BStart, StoreOK
    <3>2. CASE bind[b].st # "none" /\ bind' = [bind EXCEPT ![b] = [@ EXCEPT !.fin = TRUE]]
      <4>1. [bind[b] EXCEPT !.fin = TRUE] \in Binding
        BY <3>2, BindingEdits DEF StoreOK
      <4> QED BY <1>10, <3>2, <4>1 DEF BStart, StoreOK
    <3> QED BY <1>10, <3>1, <3>2 DEF BStart
  <2>2. BWorkersOK'
    BY <1>10 DEF BStart, BWorkersOK, StoreOK, BPc
  <2> QED
    BY <1>10, <2>1, <2>2 DEF BStart, ObjectsOK, OWorkersOK, LocksOK, BoundsOK
<1>11. ASSUME NEW b \in Bindings, BValidate(b) PROVE TypeOK'
  <2>1. BWorkersOK' /\ LocksOK'
    BY <1>11, BEndType DEF BValidate, BWorkersOK, LocksOK, BPc
  <2> QED
    BY <1>11, <2>1 DEF BValidate, ObjectsOK, StoreOK, OWorkersOK, BoundsOK
<1>12. ASSUME NEW b \in Bindings, BEvict(b) PROVE TypeOK'
  <2>1. BWorkersOK' /\ LocksOK'
    BY <1>12, BEndType DEF BEvict
  <2>2. StoreOK'
    BY <1>12 DEF BEvict, Revoke, StoreOK
  <2> QED
    BY <1>12, <2>1, <2>2 DEF BEvict, ObjectsOK, OWorkersOK, BoundsOK
<1>13. ASSUME NEW b \in Bindings, BDeletePolicy(b) PROVE TypeOK'
  <2>1. BWorkersOK'
    BY <1>13 DEF BDeletePolicy, BWorkersOK, BPc
  <2>2. StoreOK'
    BY <1>13 DEF BDeletePolicy, Revoke, StoreOK
  <2> QED
    BY <1>13, <2>1, <2>2 DEF BDeletePolicy, ObjectsOK, OWorkersOK, LocksOK, BoundsOK
<1>14. ASSUME NEW b \in Bindings, BUnbind(b) PROVE TypeOK'
  <2>1. BWorkersOK' /\ LocksOK'
    BY <1>14, BEndType DEF BUnbind
  <2>2. StoreOK'
    BY <1>14, NoBindingType DEF BUnbind, StoreOK
  <2> QED
    BY <1>14, <2>1, <2>2 DEF BUnbind, ObjectsOK, OWorkersOK, BoundsOK
<1>15. ASSUME NEW b \in Bindings, BLock(b) PROVE TypeOK'
  <2>1. LocksOK'
    BY <1>15, AcquireType DEF BLock, Target, JobInv
  <2>2. BWorkersOK'
    BY <1>15 DEF BLock, BWorkersOK, BPc, BGuarded
  <2> QED
    BY <1>15, <2>1, <2>2 DEF BLock, ObjectsOK, StoreOK, OWorkersOK, BoundsOK
<1>16. ASSUME NEW b \in Bindings, BDiff(b) PROVE TypeOK'
  <2>1. BWorkersOK' /\ LocksOK'
    BY <1>16, BEndType DEF BDiff, BWorkersOK, LocksOK, BPc, BGuarded
  <2> QED
    BY <1>16, <2>1 DEF BDiff, ObjectsOK, StoreOK, OWorkersOK, BoundsOK
<1>17. ASSUME NEW b \in Bindings, BGuard(b) PROVE TypeOK'
  <2>1. BWorkersOK' /\ LocksOK'
    <3>1. CASE BEnd(b, TRUE)
      BY <3>1, BEndType
    <3>2. CASE bpc' = [bpc EXCEPT ![b] = "write"] /\ UNCHANGED <<bq, job, target, lock>>
      BY <3>2 DEF BWorkersOK, LocksOK, BPc, BGuarded
    <3>3. CASE /\ bpc' = [bpc EXCEPT ![b] = "hold"]
               /\ target' = [target EXCEPT ![b] = api[Target(b)]]
               /\ UNCHANGED <<bq, job, lock>>
      <4>1. api[Target(b)] \in Object
        BY <1>17 DEF BGuard, Target, JobInv, ObjectsOK
      <4> QED BY <3>3, <4>1 DEF BWorkersOK, LocksOK, BPc, BGuarded
    <3> QED BY <1>17, <3>1, <3>2, <3>3 DEF BGuard
  <2> QED
    BY <1>17, <2>1 DEF BGuard, ObjectsOK, StoreOK, OWorkersOK, BoundsOK
<1>18. ASSUME NEW b \in Bindings, BHold(b) PROVE TypeOK'
  <2>1. BWorkersOK' /\ LocksOK'
    <3>1. CASE BEnd(b, TRUE)
      BY <3>1, BEndType
    <3>2. CASE /\ bpc' = [bpc EXCEPT ![b] = "write"]
               /\ target' = [target EXCEPT ![b] = NoObject]
               /\ UNCHANGED <<bq, job, lock>>
      BY <3>2, NoObjectType DEF BWorkersOK, LocksOK, BPc, BGuarded
    <3> QED BY <1>18, <3>1, <3>2 DEF BHold
  <2>2. ObjectsOK'
    <3>1. Target(b) \in Objects
      BY <1>18 DEF BHold, Target, JobInv
    <3> QED BY <1>18, <3>1, HoldType DEF BHold, ObjectsOK
  <2> QED
    BY <1>18, <2>1, <2>2 DEF BHold, StoreOK, OWorkersOK, BoundsOK
<1>19. ASSUME NEW b \in Bindings, BWrite(b) PROVE TypeOK'
  <2>1. BWorkersOK' /\ LocksOK'
    BY <1>19, BEndType DEF BWrite
  <2>2. StoreOK'
    BY <1>19 DEF BWrite, StoreOK, Tuple, Target, JobInv
  <2>3. BoundsOK'
    BY <1>19, AnsweredType DEF BWrite, BoundsOK
  <2> QED
    BY <1>19, <2>1, <2>2, <2>3 DEF BWrite, ObjectsOK, OWorkersOK
<1>20. ASSUME NEW b \in Bindings, BWriteTimesOut(b) PROVE TypeOK'
  <2>1. BWorkersOK' /\ LocksOK'
    BY <1>20, BEndType DEF BWriteTimesOut
  <2>2. StoreOK'
    BY <1>20 DEF BWriteTimesOut, StoreOK, Tuple, Target, JobInv
  <2>3. BoundsOK'
    BY <1>20 DEF BWriteTimesOut, BoundsOK
  <2> QED
    BY <1>20, <2>1, <2>2, <2>3 DEF BWriteTimesOut, ObjectsOK, OWorkersOK
<1>21. ASSUME NEW t \in late, LateWriteLands(t) PROVE TypeOK'
  <2>1. StoreOK'
    BY <1>21 DEF LateWriteLands, StoreOK
  <2> QED
    BY <1>21, <2>1 DEF LateWriteLands, ObjectsOK, BWorkersOK, OWorkersOK, LocksOK, BoundsOK
<1>22. ASSUME NEW b \in Bindings, BFail(b) PROVE TypeOK'
  <2>1. BWorkersOK' /\ LocksOK'
    BY <1>22, BEndType DEF BFail
  <2>2. BoundsOK'
    BY <1>22 DEF BFail, BoundsOK
  <2> QED
    BY <1>22, <2>1, <2>2 DEF BFail, ObjectsOK, StoreOK, OWorkersOK
<1>23. ASSUME NEW o \in Objects, ONothingToDo(o) PROVE TypeOK'
  <2>1. OWorkersOK'
    BY <1>23 DEF ONothingToDo, OWorkersOK
  <2> QED
    BY <1>23, <2>1 DEF ONothingToDo, ObjectsOK, StoreOK, BWorkersOK, LocksOK, BoundsOK
<1>24. ASSUME NEW o \in Objects, OEnsureFinalizer(o) PROVE TypeOK'
  <2>1. ObjectsOK'
    BY <1>24, HoldType DEF OEnsureFinalizer, ObjectsOK
  <2>2. OWorkersOK'
    BY <1>24 DEF OEnsureFinalizer, OWorkersOK
  <2> QED
    BY <1>24, <2>1, <2>2 DEF OEnsureFinalizer, StoreOK, BWorkersOK, LocksOK, BoundsOK
<1>25. ASSUME NEW o \in Objects, OStartClear(o) PROVE TypeOK'
  <2>1. OWorkersOK'
    BY <1>25 DEF OStartClear, OWorkersOK, ObjectsOK, OPc, OClearing
  <2> QED
    BY <1>25, <2>1 DEF OStartClear, ObjectsOK, StoreOK, BWorkersOK, LocksOK, BoundsOK
<1>26. ASSUME NEW o \in Objects, NamingObject(o) PROVE TypeOK'
  <2>1. OWorkersOK'
    BY <1>26 DEF NamingObject, grantsOn, parentsOn, StoreOK, OWorkersOK, OPc, OClearing, OFinal
  <2> QED
    BY <1>26, <2>1 DEF NamingObject, ObjectsOK, StoreOK, BWorkersOK, LocksOK, BoundsOK
<1>27. ASSUME NEW o \in Objects, NamingUser(o) PROVE TypeOK'
  <2>1. OWorkersOK'
    BY <1>27 DEF NamingUser, parentsOf, StoreOK, OWorkersOK, OPc, OClearing
  <2> QED
    BY <1>27, <2>1 DEF NamingUser, ObjectsOK, StoreOK, BWorkersOK, LocksOK, BoundsOK
<1>28. ASSUME NEW o \in Objects, ClearDelete(o) PROVE TypeOK'
  <2>1. StoreOK'
    BY <1>28 DEF ClearDelete, StoreOK
  <2>2. OWorkersOK'
    BY <1>28 DEF ClearDelete, OWorkersOK, OPc, OClearing
  <2> QED
    BY <1>28, <2>1, <2>2 DEF ClearDelete, ObjectsOK, BWorkersOK, LocksOK, BoundsOK
<1>29. ASSUME NEW o \in Objects, ClearDeletePartly(o) PROVE TypeOK'
  <2>1. StoreOK'
    BY <1>29 DEF ClearDeletePartly, StoreOK
  <2>2. OWorkersOK' /\ LocksOK'
    BY <1>29, OEndType DEF ClearDeletePartly
  <2>3. BoundsOK'
    BY <1>29 DEF ClearDeletePartly, BoundsOK
  <2> QED
    BY <1>29, <2>1, <2>2, <2>3 DEF ClearDeletePartly, ObjectsOK, BWorkersOK
<1>30. ASSUME NEW o \in Objects, OLock(o) PROVE TypeOK'
  <2>1. LocksOK'
    BY <1>30, AcquireType DEF OLock
  <2>2. OWorkersOK'
    BY <1>30 DEF OLock, OWorkersOK, OPc, OFinal
  <2> QED
    BY <1>30, <2>1, <2>2 DEF OLock, ObjectsOK, StoreOK, BWorkersOK, BoundsOK
<1>32. ASSUME NEW o \in Objects, Remaining(o) PROVE TypeOK'
  <2>1. OWorkersOK' /\ LocksOK'
    BY <1>32, OEndType DEF Remaining, OWorkersOK, LocksOK, OPc, OFinal
  <2> QED
    BY <1>32, <2>1 DEF Remaining, ObjectsOK, StoreOK, BWorkersOK, BoundsOK
<1>33. ASSUME NEW o \in Objects, Release(o) PROVE TypeOK'
  <2>1. ObjectsOK'
    <3>1. Removed([api[o] EXCEPT !.ours = FALSE]) \in Object
      BY ObjectEdits DEF ObjectsOK
    <3> QED BY <1>33, <3>1 DEF Release, Unhold, ObjectsOK
  <2>2. OWorkersOK' /\ LocksOK'
    BY <1>33, OEndType DEF Release
  <2>3. BoundsOK'
    BY <1>33, AnsweredType DEF Release, BoundsOK
  <2> QED
    BY <1>33, <2>1, <2>2, <2>3 DEF Release, StoreOK, BWorkersOK
<1>34. ASSUME NEW p \in Projects, PStartSync(p) PROVE TypeOK'
  <2>1. OWorkersOK'
    BY <1>34 DEF PStartSync, OWorkersOK, ObjectsOK, OPc, OSyncing, Objects
  <2> QED
    BY <1>34, <2>1 DEF PStartSync, ObjectsOK, StoreOK, BWorkersOK, LocksOK, BoundsOK
<1>35. ASSUME NEW p \in Projects, PExisting(p) PROVE TypeOK'
  <2>1. OWorkersOK'
    BY <1>35 DEF PExisting, parentsOn, StoreOK, OWorkersOK, OPc, OSyncing, Objects
  <2> QED
    BY <1>35, <2>1 DEF PExisting, ObjectsOK, StoreOK, BWorkersOK, LocksOK, BoundsOK
<1>36. ASSUME NEW p \in Projects, PDeleteStale(p) PROVE TypeOK'
  <2>1. StoreOK'
    BY <1>36 DEF PDeleteStale, StoreOK
  <2>2. OWorkersOK' /\ LocksOK'
    <3>1. CASE OEnd(p, TRUE)
      BY <3>1, OEndType DEF Objects
    <3>2. CASE /\ opc' = [opc EXCEPT ![p] = "lockOwner"]
               /\ foundP' = [foundP EXCEPT ![p] = @ \ {t \in foundP[p] : t[1] # snap[p].owner}]
               /\ UNCHANGED <<oq, snap, owner, foundG, lock>>
      <4>1. foundP' \in [Objects -> SUBSET (Orgs \X Projects)]
        BY <3>2 DEF OWorkersOK
      <4> QED BY <3>2, <4>1 DEF OWorkersOK, LocksOK, OPc, OSyncing
    <3> QED BY <1>36, <3>1, <3>2 DEF PDeleteStale
  <2> QED
    BY <1>36, <2>1, <2>2 DEF PDeleteStale, ObjectsOK, BWorkersOK, BoundsOK
<1>37. ASSUME NEW p \in Projects, PLockOwner(p) PROVE TypeOK'
  <2>1. LocksOK'
    BY <1>37, AcquireType DEF PLockOwner, OwnerInv, Objects, OSyncing
  <2>2. OWorkersOK'
    BY <1>37 DEF PLockOwner, OWorkersOK, OPc, OParent
  <2> QED
    BY <1>37, <2>1, <2>2 DEF PLockOwner, ObjectsOK, StoreOK, BWorkersOK, BoundsOK
<1>38. ASSUME NEW p \in Projects, POwnerRead(p) PROVE TypeOK'
  <2>1. OWorkersOK' /\ LocksOK'
    <3>1. CASE OEnd(p, FALSE)
      BY <3>1, OEndType DEF Objects
    <3>2. CASE ~OEnd(p, FALSE)
      <4>1. /\ \/ opc' = [opc EXCEPT ![p] = "parent"]
               \/ opc' = [opc EXCEPT ![p] = "ownerHold"]
               \/ opc' = [opc EXCEPT ![p] = "unparent"]
            /\ owner' = [owner EXCEPT ![p] = api[snap[p].owner]]
            /\ UNCHANGED <<oq, snap, foundG, foundP, lock>>
        BY <1>38, <3>2 DEF POwnerRead
      <4>2. api[snap[p].owner] \in Object
        BY <1>38 DEF POwnerRead, OwnerInv, ObjectsOK, OParent, Objects
      <4>3. opc' \in [Objects -> OPc]
        BY <4>1 DEF OWorkersOK, OPc, OParent
      <4> QED BY <4>1, <4>2, <4>3 DEF OWorkersOK, LocksOK
    <3> QED BY <3>1, <3>2
  <2> QED
    BY <1>38, <2>1 DEF POwnerRead, ObjectsOK, StoreOK, BWorkersOK, BoundsOK
<1>39. ASSUME NEW p \in Projects, POwnerHold(p) PROVE TypeOK'
  <2>1. OWorkersOK' /\ LocksOK'
    BY <1>39, OEndType DEF POwnerHold, OWorkersOK, LocksOK, OPc, OParent, Objects
  <2>2. ObjectsOK'
    <3>1. snap[p].owner \in Objects
      BY <1>39 DEF POwnerHold, OwnerInv, OParent, Objects
    <3>2. Hold(snap[p].owner) \in [Objects -> Object]
      BY <3>1, HoldType
    <3>3. api' \in [Objects -> Object]
      BY <1>39, <3>2 DEF POwnerHold, ObjectsOK
    <3> QED BY <1>39, <3>3 DEF POwnerHold, ObjectsOK
  <2> QED
    BY <1>39, <2>1, <2>2 DEF POwnerHold, StoreOK, BWorkersOK, BoundsOK
<1>40. ASSUME NEW p \in Projects, PWriteParent(p) PROVE TypeOK'
  <2>1. OWorkersOK' /\ LocksOK'
    BY <1>40, OEndType DEF PWriteParent, Objects
  <2>2. StoreOK'
    <3>1. ParentTuple(p) \in Orgs \X Projects
      BY <1>40 DEF PWriteParent, ParentTuple, OwnerInv, OParent, Objects
    <3> QED BY <1>40, <3>1 DEF PWriteParent, StoreOK
  <2>3. BoundsOK'
    BY <1>40, AnsweredType DEF PWriteParent, BoundsOK
  <2> QED
    BY <1>40, <2>1, <2>2, <2>3 DEF PWriteParent, ObjectsOK, BWorkersOK
<1>41. ASSUME NEW p \in Projects, PDeleteParent(p) PROVE TypeOK'
  <2>1. OWorkersOK' /\ LocksOK'
    BY <1>41, OEndType DEF PDeleteParent, Objects
  <2>2. StoreOK'
    BY <1>41 DEF PDeleteParent, StoreOK
  <2> QED
    BY <1>41, <2>1, <2>2 DEF PDeleteParent, ObjectsOK, BWorkersOK, BoundsOK
<1>42. ASSUME NEW o \in Objects, OFail(o) PROVE TypeOK'
  <2>1. OWorkersOK' /\ LocksOK'
    BY <1>42, OEndType DEF OFail
  <2>2. BoundsOK'
    BY <1>42 DEF OFail, BoundsOK
  <2> QED
    BY <1>42, <2>1, <2>2 DEF OFail, ObjectsOK, StoreOK, BWorkersOK
<1>43. ASSUME Restart PROVE TypeOK'
  <2>1. ObjectsOK'
    BY <1>43 DEF Restart, ObjectsOK
  <2>2. BWorkersOK' /\ OWorkersOK' /\ LocksOK'
    BY <1>43, NoBindingType, NoObjectType DEF Restart, BWorkersOK, OWorkersOK, LocksOK, BPc, OPc
  <2>3. BoundsOK'
    BY <1>43 DEF Restart, BoundsOK
  <2> QED
    BY <1>43, <2>1, <2>2, <2>3 DEF Restart, StoreOK
<1>44. ASSUME NEW b \in Bindings, SyncBinding(b) PROVE TypeOK'
  <2>1. StoreOK' /\ BWorkersOK'
    BY <1>44 DEF SyncBinding, StoreOK, BWorkersOK
  <2> QED
    BY <1>44, <2>1 DEF SyncBinding, ObjectsOK, OWorkersOK, LocksOK, BoundsOK
<1>45. ASSUME NEW b \in Bindings, BInvalid(b) PROVE TypeOK'
  <2>1. BWorkersOK' /\ LocksOK'
    BY <1>45, BEndType DEF BInvalid, BWorkersOK, LocksOK, BPc
  <2> QED
    BY <1>45, <2>1 DEF BInvalid, ObjectsOK, StoreOK, OWorkersOK, BoundsOK
<1>46. ASSUME NEW b \in Bindings, BRoleGone(b) PROVE TypeOK'
  <2>1. BWorkersOK' /\ LocksOK'
    BY <1>46, BEndType DEF BRoleGone
  <2>2. StoreOK'
    BY <1>46 DEF BRoleGone, Revoke, StoreOK
  <2> QED
    BY <1>46, <2>1, <2>2 DEF BRoleGone, ObjectsOK, OWorkersOK, BoundsOK
<1> QED
  BY <1>1, <1>2, <1>3, <1>4, <1>5, <1>6, <1>7, <1>8, <1>9, <1>10, <1>11, <1>12, <1>13,
     <1>14, <1>15, <1>16, <1>17, <1>18, <1>19, <1>20, <1>21, <1>22, <1>23, <1>24, <1>25,
     <1>26, <1>27, <1>28, <1>29, <1>30, <1>32, <1>33, <1>34, <1>35, <1>36, <1>37,
     <1>38, <1>39, <1>40, <1>41, <1>42, <1>43, <1>44, <1>45, <1>46 DEF Next, OStep, PStep, BStep

-----------------------------------------------------------------------------
(* What the edits of an object and of a lock do.                            *)

(* Adding our finalizer changes nothing else, and no other object. *)
LEMMA HoldEffect ==
  ASSUME ObjectsOK, NEW o \in Objects, api' = Hold(o), NEW x \in Objects
  PROVE  /\ api'[x].uid = api[x].uid /\ api'[x].del = api[x].del
         /\ api'[x].milo = api[x].milo /\ api'[x].owner = api[x].owner
         /\ api'[x].ours = (api[x].ours \/ x = o)
<1>1. CASE x = o
  <2>1. api'[o] = [api[o] EXCEPT !.ours = TRUE]
    BY DEF Hold, ObjectsOK
  <2> QED BY <1>1, <2>1 DEF ObjectsOK, Object
<1>2. CASE x # o
  BY <1>2 DEF Hold, ObjectsOK, Object
<1> QED BY <1>1, <1>2

(* The same for an Update that may also have failed. *)
LEMMA HoldKeeps ==
  ASSUME ObjectsOK, NEW o \in Objects, NEW x \in Objects,
         api' = api \/ (api' = Hold(o) /\ api[o].uid # 0)
  PROVE  /\ api'[x].uid = api[x].uid /\ api'[x].del = api[x].del
         /\ api'[x].owner = api[x].owner
         /\ api[x].ours => api'[x].ours
         /\ api[x].uid = 0 => api'[x].ours = api[x].ours
<1>1. CASE api' = api
  BY <1>1
<1>2. CASE api' = Hold(o) /\ api[o].uid # 0
  BY <1>2, HoldEffect DEF ObjectsOK, Object
<1> QED BY <1>1, <1>2

(* Removing our finalizer leaves other objects alone; this one leaves       *)
(* storage or is unheld. *)
LEMMA ReleaseEffect ==
  ASSUME ObjectsOK, NEW o \in Objects,
         api' = Unhold(o), NEW x \in Objects
  PROVE  \/ x # o /\ api'[x] = api[x]
         \/ x = o /\ api'[x] = NoObject
         \/ /\ x = o /\ api'[x].uid = api[x].uid /\ api'[x].del = api[x].del
            /\ api'[x].owner = api[x].owner /\ ~api'[x].ours
<1>1. CASE x = o
  <2>1. api'[o] = Removed([api[o] EXCEPT !.ours = FALSE])
    BY DEF Unhold, ObjectsOK
  <2>2. CASE api[o].milo
    BY <1>1, <2>1, <2>2 DEF Removed, ObjectsOK, Object
  <2>3. CASE ~api[o].milo
    BY <1>1, <2>1, <2>3 DEF Removed, ObjectsOK, Object
  <2> QED BY <2>2, <2>3
<1>2. CASE x # o
  BY <1>2 DEF Unhold, ObjectsOK
<1> QED BY <1>1, <1>2

(* A delete, or Milo letting go, removes only an object we do not hold. *)
LEMMA DeleteEffect ==
  ASSUME ObjectsOK, NEW o \in Objects, api' = Deleted(o), NEW x \in Objects
  PROVE  \/ x # o /\ api'[x] = api[x]
         \/ x = o /\ ~api[x].ours /\ api'[x] = NoObject
         \/ /\ x = o /\ api'[x].uid = api[x].uid /\ api'[x].del
            /\ api'[x].owner = api[x].owner /\ api'[x].ours = api[x].ours
<1>1. CASE x = o
  <2>1. api'[o] = Removed([api[o] EXCEPT !.del = TRUE])
    BY DEF Deleted, ObjectsOK
  <2>2. CASE api[o].ours \/ api[o].milo
    BY <1>1, <2>1, <2>2 DEF Removed, ObjectsOK, Object
  <2>3. CASE ~(api[o].ours \/ api[o].milo)
    BY <1>1, <2>1, <2>3 DEF Removed, ObjectsOK, Object
  <2> QED BY <2>2, <2>3
<1>2. CASE x # o
  BY <1>2 DEF Deleted, ObjectsOK
<1> QED BY <1>1, <1>2

LEMMA DrainEffect ==
  ASSUME ObjectsOK, NEW o \in Objects, api' = Drained(o), NEW x \in Objects
  PROVE  \/ x # o /\ api'[x] = api[x]
         \/ x = o /\ ~api[x].ours /\ api'[x] = NoObject
         \/ /\ x = o /\ api'[x].uid = api[x].uid /\ api'[x].del = api[x].del
            /\ api'[x].owner = api[x].owner /\ api'[x].ours = api[x].ours
<1>1. CASE x = o
  <2>1. api'[o] = Removed([api[o] EXCEPT !.milo = FALSE])
    BY DEF Drained, ObjectsOK
  <2>2. CASE api[o].ours
    <3>1. [api[o] EXCEPT !.milo = FALSE].ours
      BY <2>2 DEF ObjectsOK, Object
    <3>2. api'[o] = [api[o] EXCEPT !.milo = FALSE]
      BY <2>1, <3>1 DEF Removed
    <3> QED BY <1>1, <3>2 DEF ObjectsOK, Object
  <2>3. CASE ~api[o].ours
    BY <1>1, <2>1, <2>3 DEF Removed, ObjectsOK, Object
  <2> QED BY <2>2, <2>3
<1>2. CASE x # o
  BY <1>2 DEF Drained, ObjectsOK
<1> QED BY <1>1, <1>2

(* Unlocking frees the locks of this worker only; a lock is taken only when *)
(* free. *)
LEMMA UnlockEffect ==
  ASSUME LocksOK, NEW w, Unlock(w), NEW l \in Locks, lock[l] # w
  PROVE  lock'[l] = lock[l]
  BY DEF LocksOK, Unlock

LEMMA AcquireEffect ==
  ASSUME LocksOK, NEW o \in Objects, NEW w, Acquire(o, w)
  PROVE  /\ lock'[LockOf[o]] = w /\ lock[LockOf[o]] = Free
         /\ \A l \in Locks : lock[l] # Free => lock'[l] = lock[l]
  BY LockOfType DEF LocksOK, Acquire, LockFree

-----------------------------------------------------------------------------
(* The layers of HoldInv.                                                   *)

(* A binding that carries our finalizer is taken away by its own worker     *)
(* only. *)
LEMMA JobInvStep ==
  ASSUME TypeOK, JobInv, Next
  PROVE  JobInv'
<1> USE DEF TypeOK
<1> USE DEF bRest, oRest, objVars, fgaVars, bVars, oVars
<1>0. ASSUME UNCHANGED <<bpc, job, bind, cbind>> PROVE JobInv'
  BY <1>0 DEF JobInv
<1>1. ASSUME NEW b \in Bindings, NEW o \in Objects, CreateBinding(b, o) PROVE JobInv'
  BY <1>1 DEF CreateBinding, JobInv, StoreOK, Binding, NoBinding
<1>2. ASSUME NEW b \in Bindings, DeleteBinding(b) PROVE JobInv'
  BY <1>2 DEF DeleteBinding, JobInv, StoreOK, Binding, NoBinding
<1>3. ASSUME NEW b \in Bindings, BStart(b) PROVE JobInv'
  BY <1>3 DEF BStart, JobInv, StoreOK, BWorkersOK, Binding, NoBinding, BGuarded
<1>4. ASSUME NEW b \in Bindings, BValidate(b) PROVE JobInv'
  BY <1>4 DEF BValidate, BEnd, JobInv, BWorkersOK, BGuarded
<1>5. ASSUME NEW b \in Bindings, BEvict(b) PROVE JobInv'
  BY <1>5 DEF BEvict, BEnd, JobInv, BWorkersOK, BGuarded
<1>6. ASSUME NEW b \in Bindings, BDeletePolicy(b) PROVE JobInv'
  BY <1>6 DEF BDeletePolicy, JobInv, BWorkersOK, BGuarded
<1>7. ASSUME NEW b \in Bindings, BUnbind(b) PROVE JobInv'
  BY <1>7 DEF BUnbind, BEnd, JobInv, BWorkersOK, StoreOK, NoBinding, BGuarded
<1>8. ASSUME NEW b \in Bindings, BLock(b) PROVE JobInv'
  BY <1>8 DEF BLock, JobInv, BWorkersOK, BGuarded
<1>9. ASSUME NEW b \in Bindings, BDiff(b) PROVE JobInv'
  BY <1>9 DEF BDiff, BEnd, JobInv, BWorkersOK, BGuarded
<1>10. ASSUME NEW b \in Bindings, BGuard(b) PROVE JobInv'
  BY <1>10 DEF BGuard, BEnd, JobInv, BWorkersOK, BGuarded
<1>11. ASSUME NEW b \in Bindings, BHold(b) PROVE JobInv'
  BY <1>11 DEF BHold, BEnd, JobInv, BWorkersOK, BGuarded
<1>12. ASSUME NEW b \in Bindings, BWrite(b) PROVE JobInv'
  BY <1>12 DEF BWrite, BEnd, JobInv, BWorkersOK, BGuarded
<1>13. ASSUME NEW b \in Bindings, BWriteTimesOut(b) PROVE JobInv'
  BY <1>13 DEF BWriteTimesOut, BEnd, JobInv, BWorkersOK, BGuarded
<1>14. ASSUME NEW b \in Bindings, BFail(b) PROVE JobInv'
  BY <1>14 DEF BFail, BEnd, JobInv, BWorkersOK, BGuarded
<1>15. ASSUME Restart PROVE JobInv'
  BY <1>15 DEF Restart, JobInv, BGuarded
<1>16. ASSUME NEW o \in Objects,
             Create(o) \/ Delete(o) \/ MiloDrains(o) \/ SyncCache(o) \/ Notify(o)
             \/ ONothingToDo(o) \/ OEnsureFinalizer(o) \/ OStartClear(o)
             \/ NamingObject(o) \/ NamingUser(o) \/ ClearDelete(o)
             \/ ClearDeletePartly(o) \/ OLock(o) \/ Remaining(o)
             \/ Release(o) \/ OFail(o)
      PROVE  JobInv'
  BY <1>0, <1>16 DEF Create, Delete, MiloDrains, SyncCache, Notify, ONothingToDo,
     OEnsureFinalizer, OStartClear, NamingObject, NamingUser, ClearDelete,
     ClearDeletePartly, OLock, Remaining, Release, OFail
<1>17. ASSUME NEW p \in Projects,
             PStartSync(p) \/ PExisting(p) \/ PDeleteStale(p) \/ PLockOwner(p)
             \/ POwnerRead(p) \/ POwnerHold(p) \/ PWriteParent(p) \/ PDeleteParent(p)
      PROVE  JobInv'
  BY <1>0, <1>17 DEF PStartSync, PExisting, PDeleteStale, PLockOwner, POwnerRead,
     POwnerHold, PWriteParent, PDeleteParent
<1>18. ASSUME NEW p \in Projects, NEW r \in Orgs, Reparent(p, r) PROVE JobInv'
  BY <1>0, <1>18 DEF Reparent
<1>19. ASSUME NEW t \in late, LateWriteLands(t) PROVE JobInv'
  BY <1>0, <1>19 DEF LateWriteLands
<1>20. ASSUME Unregister PROVE JobInv'
  BY <1>0, <1>20 DEF Unregister
<1>21. ASSUME NEW b \in Bindings, SyncBinding(b) PROVE JobInv'
  BY <1>21 DEF SyncBinding, JobInv, StoreOK
<1>22. ASSUME NEW b \in Bindings, BInvalid(b) PROVE JobInv'
  BY <1>22 DEF BInvalid, BEnd, JobInv, BWorkersOK, BGuarded
<1>23. ASSUME NEW b \in Bindings, BRoleGone(b) PROVE JobInv'
  BY <1>23 DEF BRoleGone, BEnd, JobInv, BWorkersOK, BGuarded
<1> QED
  BY <1>1, <1>2, <1>3, <1>4, <1>5, <1>6, <1>7, <1>8, <1>9, <1>10, <1>11, <1>12, <1>13,
     <1>14, <1>15, <1>16, <1>17, <1>18, <1>19, <1>20, <1>21, <1>22, <1>23 DEF Next, OStep, PStep, BStep

(* The owner of a Project stays an Organization through every edit and      *)
(* copy. *)
LEMMA OwnerInvStep ==
  ASSUME TypeOK, JobInv, OwnerInv, Next
  PROVE  OwnerInv'
<1> USE NamesDisjoint DEF TypeOK
<1> USE DEF bRest, oRest, objVars, fgaVars, bVars, oVars
<1>0. ASSUME UNCHANGED <<api, cache, opc, snap>> PROVE OwnerInv'
  BY <1>0 DEF OwnerInv
<1>1. ASSUME NEW o \in Objects, Create(o) PROVE OwnerInv'
  BY <1>1 DEF Create, Fresh, OwnerInv, ObjectsOK, Objects
<1>2. ASSUME NEW o \in Objects, Delete(o) PROVE OwnerInv'
  BY <1>2 DEF Delete, Deleted, Removed, NoObject, OwnerInv, ObjectsOK, Objects, Object
<1>3. ASSUME NEW o \in Objects, MiloDrains(o) PROVE OwnerInv'
  BY <1>3 DEF MiloDrains, Drained, Removed, NoObject, OwnerInv, ObjectsOK, Objects, Object
<1>4. ASSUME NEW o \in Objects, SyncCache(o) PROVE OwnerInv'
  BY <1>4 DEF SyncCache, OwnerInv, ObjectsOK, Objects
<1>5. ASSUME NEW p \in Projects, NEW r \in Orgs, Reparent(p, r) PROVE OwnerInv'
  BY <1>5 DEF Reparent, Moved, OwnerInv, ObjectsOK, Objects, Object
<1>6. ASSUME NEW b \in Bindings, BHold(b) PROVE OwnerInv'
  <2>1. UNCHANGED <<cache, opc, snap>> /\ (UNCHANGED api \/ api' = Hold(Target(b)))
    BY <1>6 DEF BHold
  <2>2. Target(b) \in Objects
    BY <1>6 DEF BHold, Target, JobInv
  <2>3. \A x \in Objects : api'[x].uid = api[x].uid /\ api'[x].owner = api[x].owner
    BY <2>1, <2>2, HoldEffect
  <2> QED BY <2>1, <2>3 DEF OwnerInv, Objects
<1>7. ASSUME NEW o \in Objects, OEnsureFinalizer(o) PROVE OwnerInv'
  <2>1. UNCHANGED <<cache, opc, snap>> /\ (UNCHANGED api \/ api' = Hold(o))
    BY <1>7 DEF OEnsureFinalizer
  <2>2. \A x \in Objects : api'[x].uid = api[x].uid /\ api'[x].owner = api[x].owner
    BY <2>1, HoldEffect
  <2> QED BY <2>1, <2>2 DEF OwnerInv, Objects
<1>8. ASSUME NEW o \in Objects, OStartClear(o) PROVE OwnerInv'
  BY <1>8 DEF OStartClear, OwnerInv, OWorkersOK, OClearing, OFinal, OSyncing, OParent
<1>9. ASSUME NEW o \in Objects, NamingObject(o) PROVE OwnerInv'
  BY <1>9 DEF NamingObject, OwnerInv, OWorkersOK, OClearing, OFinal, OSyncing, OParent
<1>10. ASSUME NEW o \in Objects, NamingUser(o) PROVE OwnerInv'
  BY <1>10 DEF NamingUser, OwnerInv, OWorkersOK, OClearing, OFinal, OSyncing, OParent
<1>11. ASSUME NEW o \in Objects, ClearDelete(o) PROVE OwnerInv'
  BY <1>11 DEF ClearDelete, OwnerInv, OWorkersOK, OClearing, OFinal, OSyncing, OParent
<1>12. ASSUME NEW o \in Objects, ClearDeletePartly(o) PROVE OwnerInv'
  BY <1>12 DEF ClearDeletePartly, OEnd, OwnerInv, OWorkersOK, OClearing, OFinal, OSyncing,
     OParent
<1>13. ASSUME NEW o \in Objects, OLock(o) PROVE OwnerInv'
  BY <1>13 DEF OLock, OwnerInv, OWorkersOK, OClearing, OFinal, OSyncing, OParent
<1>15. ASSUME NEW o \in Objects, Remaining(o) PROVE OwnerInv'
  BY <1>15 DEF Remaining, OEnd, OwnerInv, OWorkersOK, OFinal, OSyncing, OParent
<1>16. ASSUME NEW o \in Objects, Release(o) PROVE OwnerInv'
  <2>1. \A x \in Objects : api'[x].uid = 0 \/ (api'[x].uid = api[x].uid /\ api'[x].owner = api[x].owner)
    <3>1. CASE api' = api
      BY <3>1
    <3>2. CASE api' = Unhold(o)
      BY <3>2, ReleaseEffect DEF NoObject
    <3> QED BY <1>16, <3>1, <3>2 DEF Release
  <2>2. cache' = cache /\ \E again \in BOOLEAN : OEnd(o, again)
    BY <1>16 DEF Release
  <2> QED BY <2>1, <2>2 DEF OEnd, OwnerInv, OWorkersOK, Objects, OSyncing, OParent
<1>17. ASSUME NEW o \in Objects, OFail(o) PROVE OwnerInv'
  BY <1>17 DEF OFail, OEnd, OwnerInv, OWorkersOK, OClearing, OFinal, OSyncing, OParent
<1>18. ASSUME NEW p \in Projects, PStartSync(p) PROVE OwnerInv'
  BY <1>18 DEF PStartSync, Live, OwnerInv, OWorkersOK, ObjectsOK, Objects
<1>19. ASSUME NEW p \in Projects, PExisting(p) PROVE OwnerInv'
  BY <1>19 DEF PExisting, OwnerInv, OWorkersOK, Objects, OSyncing, OParent
<1>20. ASSUME NEW p \in Projects, PDeleteStale(p) PROVE OwnerInv'
  BY <1>20 DEF PDeleteStale, OEnd, OwnerInv, OWorkersOK, Objects, OSyncing, OParent
<1>21. ASSUME NEW p \in Projects, PLockOwner(p) PROVE OwnerInv'
  BY <1>21 DEF PLockOwner, OwnerInv, OWorkersOK, Objects, OSyncing, OParent
<1>22. ASSUME NEW p \in Projects, POwnerRead(p) PROVE OwnerInv'
  BY <1>22 DEF POwnerRead, OEnd, OwnerInv, OWorkersOK, Objects, OSyncing, OParent
<1>23. ASSUME NEW p \in Projects, POwnerHold(p) PROVE OwnerInv'
  <2>1. snap[p].owner \in Objects
    BY <1>23 DEF POwnerHold, OwnerInv, OParent, Objects
  <2>2. cache' = cache /\ (UNCHANGED api \/ api' = Hold(snap[p].owner))
    BY <1>23 DEF POwnerHold
  <2>3. \A x \in Objects : api'[x].uid = api[x].uid /\ api'[x].owner = api[x].owner
    BY <2>1, <2>2, HoldEffect
  <2>4. \/ OEnd(p, TRUE)
        \/ opc' = [opc EXCEPT ![p] = "parent"] /\ UNCHANGED snap
    BY <1>23 DEF POwnerHold
  <2> QED BY <1>23, <2>2, <2>3, <2>4 DEF POwnerHold, OEnd, OwnerInv, OWorkersOK, Objects,
     OSyncing, OParent
<1>24. ASSUME NEW p \in Projects, PWriteParent(p) PROVE OwnerInv'
  BY <1>24 DEF PWriteParent, OEnd, OwnerInv, OWorkersOK, Objects, OSyncing, OParent
<1>25. ASSUME NEW p \in Projects, PDeleteParent(p) PROVE OwnerInv'
  BY <1>25 DEF PDeleteParent, OEnd, OwnerInv, OWorkersOK, Objects, OSyncing, OParent
<1>26. ASSUME Restart PROVE OwnerInv'
  BY <1>26 DEF Restart, OwnerInv, OSyncing, OParent
<1>27. ASSUME NEW o \in Objects,
             Notify(o) \/ ONothingToDo(o)
      PROVE  OwnerInv'
  BY <1>0, <1>27 DEF Notify, ONothingToDo
<1>28. ASSUME NEW b \in Bindings,
             DeleteBinding(b) \/ SyncBinding(b) \/ BStart(b) \/ BValidate(b)
             \/ BInvalid(b) \/ BRoleGone(b) \/ BEvict(b)
             \/ BDeletePolicy(b) \/ BUnbind(b) \/ BLock(b) \/ BDiff(b) \/ BGuard(b)
             \/ BWrite(b) \/ BWriteTimesOut(b) \/ BFail(b)
      PROVE  OwnerInv'
  BY <1>0, <1>28 DEF DeleteBinding, SyncBinding, BStart, BValidate, BInvalid,
     BRoleGone, BEvict, BDeletePolicy, BUnbind,
     BLock, BDiff, BGuard, BWrite, BWriteTimesOut, BFail
<1>29. ASSUME NEW b \in Bindings, NEW o \in Objects, CreateBinding(b, o) PROVE OwnerInv'
  BY <1>0, <1>29 DEF CreateBinding
<1>30. ASSUME NEW t \in late, LateWriteLands(t) PROVE OwnerInv'
  BY <1>0, <1>30 DEF LateWriteLands
<1>31. ASSUME Unregister PROVE OwnerInv'
  BY <1>0, <1>31 DEF Unregister
<1> QED
  BY <1>1, <1>2, <1>3, <1>4, <1>5, <1>6, <1>7, <1>8, <1>9, <1>10, <1>11, <1>12, <1>13,
     <1>15, <1>16, <1>17, <1>18, <1>19, <1>20, <1>21, <1>22, <1>23, <1>24, <1>25,
     <1>26, <1>27, <1>28, <1>29, <1>30, <1>31 DEF Next, OStep, PStep, BStep

(* The objects whose locks LockInv speaks of have locks. *)
LEMMA LockSubjects ==
  ASSUME TypeOK, JobInv, OwnerInv
  PROVE  /\ \A b \in Bindings : bpc[b] \in BGuarded => LockOf[job[b].target] \in Locks
         /\ \A o \in Objects : LockOf[o] \in Locks
         /\ \A o \in Objects : opc[o] \in OParent => LockOf[snap[o].owner] \in Locks
  BY LockOfType DEF JobInv, OwnerInv, BGuarded, Objects

(* The end of a reconcile gives up only its own locks. *)
LEMMA BEndKeepsLocks ==
  ASSUME TypeOK, JobInv, OwnerInv, LockInv, NEW b \in Bindings,
         \E again \in BOOLEAN : BEnd(b, again), opc' = opc, snap' = snap
  PROVE  LockInv'
<1> USE DEF TypeOK
<1>1. Unlock(b)
  BY DEF BEnd
<1>2. \A l \in Locks : lock[l] # b => lock'[l] = lock[l]
  BY <1>1, UnlockEffect
<1>3. ASSUME NEW c \in Bindings, bpc'[c] \in BGuarded
      PROVE  lock'[LockOf[job'[c].target]] = c
  <2>1. c # b /\ bpc[c] \in BGuarded /\ job'[c] = job[c]
    BY <1>3 DEF BEnd, BWorkersOK, BGuarded
  <2> QED BY <1>2, <2>1, LockSubjects DEF LockInv
<1>4. ASSUME NEW o \in Objects
      PROVE  /\ opc'[o] \in OFinal => lock'[LockOf[o]] = o
             /\ opc'[o] \in OParent => lock'[LockOf[snap'[o].owner]] = o
  BY <1>2, LockSubjects, NamesDisjoint DEF LockInv
<1> QED BY <1>3, <1>4 DEF LockInv

LEMMA OEndKeepsLocks ==
  ASSUME TypeOK, JobInv, OwnerInv, LockInv, NEW o \in Objects,
         \E again \in BOOLEAN : OEnd(o, again), bpc' = bpc, job' = job
  PROVE  LockInv'
<1> USE DEF TypeOK
<1>1. Unlock(o)
  BY DEF OEnd
<1>2. \A l \in Locks : lock[l] # o => lock'[l] = lock[l]
  BY <1>1, UnlockEffect
<1>3. ASSUME NEW c \in Bindings, bpc'[c] \in BGuarded
      PROVE  lock'[LockOf[job'[c].target]] = c
  BY <1>2, <1>3, LockSubjects, NamesDisjoint DEF LockInv
<1>4. ASSUME NEW x \in Objects
      PROVE  /\ opc'[x] \in OFinal => lock'[LockOf[x]] = x
             /\ opc'[x] \in OParent => lock'[LockOf[snap'[x].owner]] = x
  <2>1. CASE x = o
    BY <2>1 DEF OEnd, OWorkersOK, OFinal, OParent
  <2>2. CASE x # o
    <3>1. opc'[x] = opc[x] /\ snap'[x] = snap[x]
      BY <2>2 DEF OEnd, OWorkersOK
    <3> QED BY <1>2, <2>2, <3>1, LockSubjects DEF LockInv
  <2> QED BY <2>1, <2>2
<1> QED BY <1>3, <1>4 DEF LockInv

(* Every step keeps LockInv. *)
LEMMA LockInvStep ==
  ASSUME TypeOK, JobInv, OwnerInv, LockInv, Next
  PROVE  LockInv'
<1> USE NamesDisjoint DEF TypeOK
<1> USE DEF bRest, oRest, objVars, fgaVars, bVars, oVars
<1>0. ASSUME UNCHANGED <<bpc, job, opc, snap, lock>> PROVE LockInv'
  BY <1>0 DEF LockInv
<1>1. ASSUME NEW b \in Bindings, BStart(b) PROVE LockInv'
  BY <1>1 DEF BStart, LockInv, BWorkersOK, BGuarded
<1>2. ASSUME NEW b \in Bindings, BValidate(b) PROVE LockInv'
  <2>1. CASE \E again \in BOOLEAN : BEnd(b, again)
    BY <1>2, <2>1, BEndKeepsLocks DEF BValidate
  <2>2. CASE ~ \E again \in BOOLEAN : BEnd(b, again)
    BY <1>2, <2>2 DEF BValidate, LockInv, BWorkersOK, BGuarded
  <2> QED BY <2>1, <2>2
<1>3. ASSUME NEW b \in Bindings, BEvict(b) PROVE LockInv'
  <2>1. \E again \in BOOLEAN : BEnd(b, again)
    BY <1>3 DEF BEvict
  <2>2. opc' = opc /\ snap' = snap
    BY <1>3 DEF BEvict
  <2> QED BY <2>1, <2>2, BEndKeepsLocks
<1>4. ASSUME NEW b \in Bindings, BDeletePolicy(b) PROVE LockInv'
  BY <1>4 DEF BDeletePolicy, LockInv, BWorkersOK, BGuarded
<1>5. ASSUME NEW b \in Bindings, BUnbind(b) PROVE LockInv'
  <2>1. \E again \in BOOLEAN : BEnd(b, again)
    BY <1>5 DEF BUnbind
  <2>2. opc' = opc /\ snap' = snap
    BY <1>5 DEF BUnbind
  <2> QED BY <2>1, <2>2, BEndKeepsLocks
<1>6. ASSUME NEW b \in Bindings, BLock(b) PROVE LockInv'
  <2>1. Target(b) \in Objects
    BY <1>6 DEF BLock, Target, JobInv
  <2>2. lock'[LockOf[Target(b)]] = b /\ \A l \in Locks : lock[l] # Free => lock'[l] = lock[l]
    BY <1>6, <2>1, AcquireEffect DEF BLock
  <2> QED BY <1>6, <2>1, <2>2, LockSubjects DEF BLock, Target, LockInv, BWorkersOK, BGuarded
<1>7. ASSUME NEW b \in Bindings, BDiff(b) PROVE LockInv'
  <2>1. CASE \E again \in BOOLEAN : BEnd(b, again)
    BY <1>7, <2>1, BEndKeepsLocks DEF BDiff
  <2>2. CASE ~ \E again \in BOOLEAN : BEnd(b, again)
    BY <1>7, <2>2 DEF BDiff, LockInv, BWorkersOK, BGuarded
  <2> QED BY <2>1, <2>2
<1>8. ASSUME NEW b \in Bindings, BGuard(b) PROVE LockInv'
  <2>1. CASE \E again \in BOOLEAN : BEnd(b, again)
    BY <1>8, <2>1, BEndKeepsLocks DEF BGuard
  <2>2. CASE ~ \E again \in BOOLEAN : BEnd(b, again)
    BY <1>8, <2>2 DEF BGuard, LockInv, BWorkersOK, BGuarded
  <2> QED BY <2>1, <2>2
<1>9. ASSUME NEW b \in Bindings, BHold(b) PROVE LockInv'
  <2>1. CASE \E again \in BOOLEAN : BEnd(b, again)
    BY <1>9, <2>1, BEndKeepsLocks DEF BHold
  <2>2. CASE ~ \E again \in BOOLEAN : BEnd(b, again)
    BY <1>9, <2>2 DEF BHold, LockInv, BWorkersOK, BGuarded
  <2> QED BY <2>1, <2>2
<1>10. ASSUME NEW b \in Bindings, BWrite(b) PROVE LockInv'
  <2>1. \E again \in BOOLEAN : BEnd(b, again)
    BY <1>10 DEF BWrite
  <2>2. opc' = opc /\ snap' = snap
    BY <1>10 DEF BWrite
  <2> QED BY <2>1, <2>2, BEndKeepsLocks
<1>11. ASSUME NEW b \in Bindings, BWriteTimesOut(b) PROVE LockInv'
  <2>1. \E again \in BOOLEAN : BEnd(b, again)
    BY <1>11 DEF BWriteTimesOut
  <2>2. opc' = opc /\ snap' = snap
    BY <1>11 DEF BWriteTimesOut
  <2> QED BY <2>1, <2>2, BEndKeepsLocks
<1>12. ASSUME NEW b \in Bindings, BFail(b) PROVE LockInv'
  <2>1. \E again \in BOOLEAN : BEnd(b, again)
    BY <1>12 DEF BFail
  <2>2. opc' = opc /\ snap' = snap
    BY <1>12 DEF BFail
  <2> QED BY <2>1, <2>2, BEndKeepsLocks
<1>13. ASSUME NEW o \in Objects, OStartClear(o) PROVE LockInv'
  BY <1>13, LockOfType DEF OStartClear, LockInv, OWorkersOK, BGuarded, OClearing, OFinal,
     OSyncing, OParent
<1>14. ASSUME NEW o \in Objects, NamingObject(o) PROVE LockInv'
  BY <1>14, LockOfType DEF NamingObject, LockInv, OWorkersOK, BGuarded, OClearing, OFinal,
     OSyncing, OParent
<1>15. ASSUME NEW o \in Objects, NamingUser(o) PROVE LockInv'
  BY <1>15, LockOfType DEF NamingUser, LockInv, OWorkersOK, BGuarded, OClearing, OFinal,
     OSyncing, OParent
<1>16. ASSUME NEW o \in Objects, ClearDelete(o) PROVE LockInv'
  BY <1>16, LockOfType DEF ClearDelete, LockInv, OWorkersOK, BGuarded, OClearing, OFinal,
     OSyncing, OParent
<1>17. ASSUME NEW o \in Objects, ClearDeletePartly(o) PROVE LockInv'
  <2>1. \E again \in BOOLEAN : OEnd(o, again)
    BY <1>17 DEF ClearDeletePartly
  <2> QED BY <1>17, <2>1, OEndKeepsLocks DEF ClearDeletePartly
<1>18. ASSUME NEW o \in Objects, OLock(o) PROVE LockInv'
  <2>1. lock'[LockOf[o]] = o /\ \A l \in Locks : lock[l] # Free => lock'[l] = lock[l]
    BY <1>18, AcquireEffect DEF OLock
  <2> QED BY <1>18, <2>1, LockSubjects DEF OLock, LockInv, OWorkersOK, OClearing, OFinal, OParent
<1>20. ASSUME NEW o \in Objects, Remaining(o) PROVE LockInv'
  <2>1. CASE \E again \in BOOLEAN : OEnd(o, again)
    BY <1>20, <2>1, OEndKeepsLocks DEF Remaining, Objects
  <2>2. CASE ~ \E again \in BOOLEAN : OEnd(o, again)
    BY <1>20, <2>2 DEF Remaining, LockInv, OWorkersOK, OClearing, OFinal, OSyncing, OParent
  <2> QED BY <2>1, <2>2
<1>21. ASSUME NEW o \in Objects, Release(o) PROVE LockInv'
  <2>1. \E again \in BOOLEAN : OEnd(o, again)
    BY <1>21 DEF Release
  <2> QED BY <1>21, <2>1, OEndKeepsLocks DEF Release
<1>22. ASSUME NEW o \in Objects, OFail(o) PROVE LockInv'
  <2>1. \E again \in BOOLEAN : OEnd(o, again)
    BY <1>22 DEF OFail
  <2> QED BY <1>22, <2>1, OEndKeepsLocks DEF OFail
<1>23. ASSUME NEW p \in Projects, PStartSync(p) PROVE LockInv'
  BY <1>23, LockOfType DEF PStartSync, LockInv, OWorkersOK, BGuarded, OClearing, OFinal,
     OSyncing, OParent
<1>24. ASSUME NEW p \in Projects, PExisting(p) PROVE LockInv'
  BY <1>24, LockOfType DEF PExisting, LockInv, OWorkersOK, BGuarded, OClearing, OFinal,
     OSyncing, OParent
<1>25. ASSUME NEW p \in Projects, PDeleteStale(p) PROVE LockInv'
  <2>1. CASE \E again \in BOOLEAN : OEnd(p, again)
    BY <1>25, <2>1, OEndKeepsLocks DEF PDeleteStale, Objects
  <2>2. CASE ~ \E again \in BOOLEAN : OEnd(p, again)
    BY <1>25, <2>2 DEF PDeleteStale, LockInv, OWorkersOK, OClearing, OFinal, OSyncing, OParent
  <2> QED BY <2>1, <2>2
<1>26. ASSUME NEW p \in Projects, PLockOwner(p) PROVE LockInv'
  <2>1. snap[p].owner \in Objects
    BY <1>26 DEF PLockOwner, OwnerInv, OSyncing, Objects
  <2>2. lock'[LockOf[snap[p].owner]] = p /\ \A l \in Locks : lock[l] # Free => lock'[l] = lock[l]
    BY <1>26, <2>1, AcquireEffect DEF PLockOwner
  <2> QED BY <1>26, <2>1, <2>2, LockSubjects DEF PLockOwner, LockInv, OWorkersOK, Objects,
     OClearing, OFinal, OSyncing, OParent
<1>27. ASSUME NEW p \in Projects, POwnerRead(p) PROVE LockInv'
  <2>1. CASE \E again \in BOOLEAN : OEnd(p, again)
    BY <1>27, <2>1, OEndKeepsLocks DEF POwnerRead, Objects
  <2>2. CASE ~ \E again \in BOOLEAN : OEnd(p, again)
    BY <1>27, <2>2 DEF POwnerRead, LockInv, OWorkersOK, OClearing, OFinal, OSyncing, OParent
  <2> QED BY <2>1, <2>2
<1>28. ASSUME NEW p \in Projects, POwnerHold(p) PROVE LockInv'
  <2>1. CASE \E again \in BOOLEAN : OEnd(p, again)
    BY <1>28, <2>1, OEndKeepsLocks DEF POwnerHold, Objects
  <2>2. CASE ~ \E again \in BOOLEAN : OEnd(p, again)
    BY <1>28, <2>2 DEF POwnerHold, LockInv, OWorkersOK, OClearing, OFinal, OSyncing, OParent
  <2> QED BY <2>1, <2>2
<1>29. ASSUME NEW p \in Projects, PWriteParent(p) PROVE LockInv'
  <2>1. \E again \in BOOLEAN : OEnd(p, again)
    BY <1>29 DEF PWriteParent
  <2> QED BY <1>29, <2>1, OEndKeepsLocks DEF PWriteParent, Objects
<1>30. ASSUME NEW p \in Projects, PDeleteParent(p) PROVE LockInv'
  <2>1. \E again \in BOOLEAN : OEnd(p, again)
    BY <1>30 DEF PDeleteParent
  <2> QED BY <1>30, <2>1, OEndKeepsLocks DEF PDeleteParent, Objects
<1>31. ASSUME Restart PROVE LockInv'
  BY <1>31 DEF Restart, LockInv, BGuarded, OFinal, OParent
<1>32. ASSUME NEW o \in Objects,
             Create(o) \/ Delete(o) \/ MiloDrains(o) \/ SyncCache(o) \/ Notify(o)
             \/ ONothingToDo(o) \/ OEnsureFinalizer(o)
      PROVE  LockInv'
  BY <1>0, <1>32 DEF Create, Delete, MiloDrains, SyncCache, Notify, ONothingToDo,
     OEnsureFinalizer
<1>33. ASSUME NEW b \in Bindings, DeleteBinding(b) \/ SyncBinding(b) PROVE LockInv'
  BY <1>0, <1>33 DEF DeleteBinding, SyncBinding
<1>34. ASSUME NEW p \in Projects, NEW r \in Orgs, Reparent(p, r) PROVE LockInv'
  BY <1>0, <1>34 DEF Reparent
<1>35. ASSUME NEW b \in Bindings, NEW o \in Objects, CreateBinding(b, o) PROVE LockInv'
  BY <1>0, <1>35 DEF CreateBinding
<1>36. ASSUME NEW t \in late, LateWriteLands(t) PROVE LockInv'
  BY <1>0, <1>36 DEF LateWriteLands
<1>37. ASSUME Unregister PROVE LockInv'
  BY <1>0, <1>37 DEF Unregister
<1>38. ASSUME NEW b \in Bindings, BInvalid(b) PROVE LockInv'
  <2>1. CASE \E again \in BOOLEAN : BEnd(b, again)
    BY <1>38, <2>1, BEndKeepsLocks DEF BInvalid
  <2>2. CASE ~ \E again \in BOOLEAN : BEnd(b, again)
    BY <1>38, <2>2 DEF BInvalid, LockInv, BWorkersOK, BGuarded
  <2> QED BY <2>1, <2>2
<1>39. ASSUME NEW b \in Bindings, BRoleGone(b) PROVE LockInv'
  <2>1. \E again \in BOOLEAN : BEnd(b, again)
    BY <1>39 DEF BRoleGone
  <2>2. opc' = opc /\ snap' = snap
    BY <1>39 DEF BRoleGone
  <2> QED BY <2>1, <2>2, BEndKeepsLocks
<1> QED
  BY <1>1, <1>2, <1>3, <1>4, <1>5, <1>6, <1>7, <1>8, <1>9, <1>10, <1>11, <1>12, <1>13,
     <1>14, <1>15, <1>16, <1>17, <1>18, <1>20, <1>21, <1>22, <1>23, <1>24, <1>25,
     <1>26, <1>27, <1>28, <1>29, <1>30, <1>31, <1>32, <1>33, <1>34, <1>35, <1>36, <1>37, <1>38, <1>39 DEF
     Next, OStep, PStep, BStep

(* A worker that stops no longer relies on its copy. *)
LEMMA OEndKeepsVersions ==
  ASSUME TypeOK, VersionInv, NEW o \in Objects,
         \E again \in BOOLEAN : OEnd(o, again),
         api' = api, cache' = cache, nextUid' = nextUid
  PROVE  VersionInv'
<1>1. /\ opc'[o] = "idle" /\ snap'[o] = NoObject
      /\ \A x \in Objects : x # o => opc'[x] = opc[x] /\ snap'[x] = snap[x]
  BY DEF OEnd, TypeOK, OWorkersOK
<1>2. nextUid \in Nat /\ 0 < nextUid
  BY BoundTypes DEF TypeOK, ObjectsOK
<1> QED BY <1>1, <1>2 DEF VersionInv, Versions, NoObject, OClearing, OFinal, OSyncing, OParent

(* Every step keeps VersionInv. The release is the hard case: it was        *)
(* decided on a copy, and only the version check of the Update makes the    *)
(* copy current. *)
LEMMA VersionInvStep ==
  ASSUME TypeOK, JobInv, OwnerInv, VersionInv, Next
  PROVE  VersionInv'
<1> USE DEF TypeOK
<1> USE DEF bRest, oRest, objVars, fgaVars, bVars, oVars
<1>0. ASSUME UNCHANGED <<api, cache, opc, snap, nextUid>> PROVE VersionInv'
  BY <1>0 DEF VersionInv, Versions
<1>1. ASSUME NEW o \in Objects, Create(o) PROVE VersionInv'
  <2>1. nextUid \in Nat /\ nextUid # 0 /\ nextUid' = nextUid + 1 /\ UNCHANGED <<cache, opc, snap>>
    BY <1>1, BoundTypes DEF Create, ObjectsOK
  <2>2. \A x \in Objects : x # o => api'[x] = api[x]
    BY <1>1 DEF Create, ObjectsOK
  <2>3. api'[o].uid = nextUid /\ ~api'[o].ours /\ ~api'[o].del
    BY <1>1 DEF Create, Fresh, ObjectsOK
  <2>4. \A x \in Objects : api[x].uid \in Nat /\ cache[x].uid \in Nat /\ snap[x].uid \in Nat
    BY ObjectFields DEF ObjectsOK, OWorkersOK
  <2> QED BY <1>1, <2>1, <2>2, <2>3, <2>4 DEF Create, VersionInv, Versions, Live
<1>2. ASSUME NEW o \in Objects, Delete(o) PROVE VersionInv'
  <2>1. api' = Deleted(o) /\ UNCHANGED <<cache, opc, snap, nextUid>> /\ api[o].uid # 0
    BY <1>2 DEF Delete, VersionInv, Versions
  <2>2. nextUid \in Nat /\ 0 < nextUid
    BY BoundTypes DEF ObjectsOK
  <2>3. ASSUME NEW x \in Objects PROVE Versions(x)'
    <3>1. CASE api'[x] = api[x]
      BY <2>1, <3>1 DEF VersionInv, Versions, Live
    <3>2. CASE ~api[x].ours /\ api'[x] = NoObject
      BY <2>1, <2>2, <3>2 DEF VersionInv, Versions, Live, NoObject
    <3>3. CASE /\ api'[x].uid = api[x].uid /\ api[x].uid # 0 /\ api'[x].ours = api[x].ours
               /\ api[x].del => api'[x].del
      BY <2>1, <3>3 DEF VersionInv, Versions, Live
    <3> QED BY <2>1, <3>1, <3>2, <3>3, DeleteEffect
  <2> QED BY <2>3 DEF VersionInv
<1>3. ASSUME NEW o \in Objects, MiloDrains(o) PROVE VersionInv'
  <2>1. api' = Drained(o) /\ UNCHANGED <<cache, opc, snap, nextUid>> /\ api[o].uid # 0
    BY <1>3 DEF MiloDrains, VersionInv, Versions
  <2>2. nextUid \in Nat /\ 0 < nextUid
    BY BoundTypes DEF ObjectsOK
  <2>3. ASSUME NEW x \in Objects PROVE Versions(x)'
    <3>1. CASE api'[x] = api[x]
      BY <2>1, <3>1 DEF VersionInv, Versions, Live
    <3>2. CASE ~api[x].ours /\ api'[x] = NoObject
      BY <2>1, <2>2, <3>2 DEF VersionInv, Versions, Live, NoObject
    <3>3. CASE /\ api'[x].uid = api[x].uid /\ api[x].uid # 0 /\ api'[x].ours = api[x].ours
               /\ api[x].del => api'[x].del
      BY <2>1, <3>3 DEF VersionInv, Versions, Live
    <3> QED BY <2>1, <3>1, <3>2, <3>3, DrainEffect
  <2> QED BY <2>3 DEF VersionInv
<1>4. ASSUME NEW o \in Objects, SyncCache(o) PROVE VersionInv'
  BY <1>4 DEF SyncCache, VersionInv, Versions, Live, ObjectsOK
<1>5. ASSUME NEW p \in Projects, NEW r \in Orgs, Reparent(p, r) PROVE VersionInv'
  <2>1. UNCHANGED <<cache, opc, snap, nextUid>>
    BY <1>5 DEF Reparent
  <2>2. \A x \in Objects : api'[x].uid = api[x].uid /\ api'[x].ours = api[x].ours /\ api'[x].del = api[x].del
    BY <1>5 DEF Reparent, Moved, ObjectsOK, Object, Objects
  <2> QED BY <2>1, <2>2 DEF VersionInv, Versions, Live
<1>6. ASSUME NEW b \in Bindings, BHold(b) PROVE VersionInv'
  <2>1. UNCHANGED <<cache, opc, snap, nextUid>> /\ (UNCHANGED api \/ (api' = Hold(Target(b)) /\ api[Target(b)].uid # 0))
    BY <1>6 DEF BHold, Current
  <2>2. Target(b) \in Objects
    BY <1>6 DEF BHold, Target, JobInv
  <2>3. \A x \in Objects : /\ api'[x].uid = api[x].uid /\ api'[x].del = api[x].del
                           /\ api[x].ours => api'[x].ours
                           /\ api[x].uid = 0 => api'[x].ours = api[x].ours
    BY <2>1, <2>2, HoldKeeps
  <2> QED BY <2>1, <2>3 DEF VersionInv, Versions, Live
<1>7. ASSUME NEW o \in Objects, OEnsureFinalizer(o) PROVE VersionInv'
  <2>1. UNCHANGED <<cache, opc, snap, nextUid>> /\ (UNCHANGED api \/ (api' = Hold(o) /\ api[o].uid # 0))
    BY <1>7 DEF OEnsureFinalizer, Current
  <2>2. \A x \in Objects : /\ api'[x].uid = api[x].uid /\ api'[x].del = api[x].del
                           /\ api[x].ours => api'[x].ours
                           /\ api[x].uid = 0 => api'[x].ours = api[x].ours
    BY <2>1, HoldKeeps
  <2> QED BY <2>1, <2>2 DEF VersionInv, Versions, Live
<1>8. ASSUME NEW o \in Objects, OStartClear(o) PROVE VersionInv'
  BY <1>8 DEF OStartClear, VersionInv, Versions, Live, ObjectsOK, OWorkersOK, Objects,
     OClearing, OFinal, OSyncing, OParent
<1>9. ASSUME NEW o \in Objects, NamingObject(o) PROVE VersionInv'
  BY <1>9 DEF NamingObject, VersionInv, Versions, Live, ObjectsOK, OWorkersOK, Objects,
     OClearing, OFinal, OSyncing, OParent
<1>10. ASSUME NEW o \in Objects, NamingUser(o) PROVE VersionInv'
  BY <1>10 DEF NamingUser, VersionInv, Versions, Live, ObjectsOK, OWorkersOK, Objects,
     OClearing, OFinal, OSyncing, OParent
<1>11. ASSUME NEW o \in Objects, ClearDelete(o) PROVE VersionInv'
  BY <1>11 DEF ClearDelete, VersionInv, Versions, Live, ObjectsOK, OWorkersOK, Objects,
     OClearing, OFinal, OSyncing, OParent
<1>12. ASSUME NEW o \in Objects, ClearDeletePartly(o) PROVE VersionInv'
  <2>1. UNCHANGED <<api, cache, nextUid>> /\ \E again \in BOOLEAN : OEnd(o, again)
    BY <1>12 DEF ClearDeletePartly
  <2> QED BY <2>1, OEndKeepsVersions
<1>13. ASSUME NEW o \in Objects, OLock(o) PROVE VersionInv'
  BY <1>13 DEF OLock, VersionInv, Versions, Live, ObjectsOK, OWorkersOK, Objects, OClearing,
     OFinal, OSyncing, OParent
<1>15. ASSUME NEW o \in Objects, Remaining(o) PROVE VersionInv'
  <2>1. UNCHANGED <<api, cache, nextUid>> /\ o \in Objects
    BY <1>15 DEF Remaining, Objects
  <2>2. CASE \E again \in BOOLEAN : OEnd(o, again)
    BY <2>1, <2>2, OEndKeepsVersions
  <2>3. CASE ~ \E again \in BOOLEAN : OEnd(o, again)
    <3>1. /\ snap' = snap /\ opc[o] \in OFinal /\ opc'[o] \in OFinal
          /\ \A y \in Objects : y # o => opc'[y] = opc[y]
      BY <1>15, <2>1, <2>3 DEF Remaining, OWorkersOK, OFinal, OSyncing, OParent
    <3> QED BY <2>1, <3>1 DEF VersionInv, Versions, OClearing, OFinal, OSyncing, OParent
  <2> QED BY <2>2, <2>3
<1>16. ASSUME NEW o \in Objects, Release(o) PROVE VersionInv'
  <2>1. UNCHANGED <<cache, nextUid>> /\ opc[o] = "release" /\ \E again \in BOOLEAN : OEnd(o, again)
    BY <1>16 DEF Release
  <2>2. CASE api' = api
    BY <2>1, <2>2, OEndKeepsVersions
  <2>3. CASE Current(o, snap[o]) /\ api' = Unhold(o)
    <3>1. /\ opc'[o] = "idle" /\ snap'[o] = NoObject
          /\ \A x \in Objects : x # o => opc'[x] = opc[x] /\ snap'[x] = snap[x]
      BY <2>1 DEF OEnd, OWorkersOK
    <3>2. \A x \in Objects : x # o => api'[x] = api[x]
      BY <2>3, ReleaseEffect
    <3>3. api'[o] = NoObject \/ (api'[o].uid = api[o].uid /\ api'[o].del = api[o].del /\ ~api'[o].ours)
      BY <2>3, ReleaseEffect
    <3>4. api[o].del /\ api[o].uid # 0 /\ (cache[o].uid = api[o].uid => cache[o].del)
      BY <2>1, <2>3 DEF VersionInv, Versions, Current, OFinal
    <3>5. ~(Live(cache[o]) /\ cache[o].ours)
      BY <3>4 DEF VersionInv, Versions, Live
    <3>6. nextUid \in Nat /\ 0 < nextUid
      BY BoundTypes DEF ObjectsOK
    <3>7. ASSUME NEW x \in Objects PROVE Versions(x)'
      <4>1. CASE x # o
        BY <2>1, <3>1, <3>2, <4>1 DEF VersionInv, Versions, Live
      <4>2. CASE x = o
        <5>1. ~(Live(cache'[o]) /\ cache'[o].ours) /\ opc'[o] = "idle" /\ snap'[o].uid = 0
          BY <2>1, <3>1, <3>5 DEF NoObject
        <5>2. CASE api'[o] = NoObject
          BY <2>1, <3>6, <4>2, <5>1, <5>2 DEF VersionInv, Versions, NoObject, OClearing,
             OFinal, OSyncing, OParent
        <5>3. CASE api'[o].uid = api[o].uid /\ api'[o].del = api[o].del /\ ~api'[o].ours
          BY <2>1, <3>4, <3>6, <4>2, <5>1, <5>3 DEF VersionInv, Versions, OClearing, OFinal,
             OSyncing, OParent
        <5> QED BY <3>3, <5>2, <5>3
      <4> QED BY <4>1, <4>2
    <3> QED BY <3>7 DEF VersionInv
  <2> QED BY <1>16, <2>2, <2>3 DEF Release
<1>17. ASSUME NEW o \in Objects, OFail(o) PROVE VersionInv'
  <2>1. UNCHANGED <<api, cache, nextUid>> /\ \E again \in BOOLEAN : OEnd(o, again)
    BY <1>17 DEF OFail
  <2> QED BY <2>1, OEndKeepsVersions
<1>18. ASSUME NEW p \in Projects, PStartSync(p) PROVE VersionInv'
  BY <1>18 DEF PStartSync, VersionInv, Versions, Live, ObjectsOK, OWorkersOK, Objects,
     OClearing, OFinal, OSyncing, OParent
<1>19. ASSUME NEW p \in Projects, PExisting(p) PROVE VersionInv'
  BY <1>19 DEF PExisting, VersionInv, Versions, Live, ObjectsOK, OWorkersOK, Objects,
     OClearing, OFinal, OSyncing, OParent
<1>20. ASSUME NEW p \in Projects, PDeleteStale(p) PROVE VersionInv'
  <2>1. UNCHANGED <<api, cache, nextUid>> /\ p \in Objects
    BY <1>20 DEF PDeleteStale, Objects
  <2>2. CASE \E again \in BOOLEAN : OEnd(p, again)
    BY <2>1, <2>2, OEndKeepsVersions
  <2>3. CASE ~ \E again \in BOOLEAN : OEnd(p, again)
    <3>1. /\ snap' = snap /\ opc[p] \in OSyncing /\ opc'[p] \in OSyncing
          /\ \A y \in Objects : y # p => opc'[y] = opc[y]
      BY <1>20, <2>1, <2>3 DEF PDeleteStale, OWorkersOK, OFinal, OSyncing, OParent
    <3> QED BY <2>1, <3>1 DEF VersionInv, Versions, OClearing, OFinal, OSyncing, OParent
  <2> QED BY <2>2, <2>3
<1>21. ASSUME NEW p \in Projects, PLockOwner(p) PROVE VersionInv'
  BY <1>21 DEF PLockOwner, VersionInv, Versions, Live, ObjectsOK, OWorkersOK, Objects,
     OClearing, OFinal, OSyncing, OParent
<1>22. ASSUME NEW p \in Projects, POwnerRead(p) PROVE VersionInv'
  <2>1. UNCHANGED <<api, cache, nextUid>> /\ p \in Objects
    BY <1>22 DEF POwnerRead, Objects
  <2>2. CASE \E again \in BOOLEAN : OEnd(p, again)
    BY <2>1, <2>2, OEndKeepsVersions
  <2>3. CASE ~ \E again \in BOOLEAN : OEnd(p, again)
    <3>1. /\ snap' = snap /\ opc[p] \in OParent /\ opc'[p] \in OParent
          /\ \A y \in Objects : y # p => opc'[y] = opc[y]
      BY <1>22, <2>1, <2>3 DEF POwnerRead, OWorkersOK, OFinal, OSyncing, OParent
    <3> QED BY <2>1, <3>1 DEF VersionInv, Versions, OClearing, OFinal, OSyncing, OParent
  <2> QED BY <2>2, <2>3
<1>23. ASSUME NEW p \in Projects, POwnerHold(p) PROVE VersionInv'
  <2>1. snap[p].owner \in Objects
    BY <1>23 DEF POwnerHold, OwnerInv, OParent, Objects
  <2>2. UNCHANGED <<cache, nextUid>> /\ (UNCHANGED api \/ (api' = Hold(snap[p].owner) /\ api[snap[p].owner].uid # 0))
    BY <1>23 DEF POwnerHold, Current
  <2>3. \A x \in Objects : /\ api'[x].uid = api[x].uid /\ api'[x].del = api[x].del
                           /\ api[x].ours => api'[x].ours
                           /\ api[x].uid = 0 => api'[x].ours = api[x].ours
    BY <2>1, <2>2, HoldKeeps
  <2>4. p \in Objects /\ nextUid \in Nat /\ 0 < nextUid
    BY BoundTypes DEF ObjectsOK, Objects
  <2>5. /\ opc'[p] \in {"idle", "parent"} /\ (opc'[p] = "parent" => snap'[p] = snap[p])
        /\ snap'[p] = snap[p] \/ snap'[p] = NoObject
        /\ \A x \in Objects : x # p => opc'[x] = opc[x] /\ snap'[x] = snap[x]
    BY <1>23, <2>4 DEF POwnerHold, OEnd, OWorkersOK
  <2> QED BY <1>23, <2>2, <2>3, <2>4, <2>5 DEF POwnerHold, VersionInv, Versions, Live,
     NoObject, OClearing, OFinal, OSyncing, OParent
<1>24. ASSUME NEW p \in Projects, PWriteParent(p) PROVE VersionInv'
  <2>1. UNCHANGED <<api, cache, nextUid>> /\ p \in Objects /\ \E again \in BOOLEAN : OEnd(p, again)
    BY <1>24 DEF PWriteParent, Objects
  <2> QED BY <2>1, OEndKeepsVersions
<1>25. ASSUME NEW p \in Projects, PDeleteParent(p) PROVE VersionInv'
  <2>1. UNCHANGED <<api, cache, nextUid>> /\ p \in Objects /\ \E again \in BOOLEAN : OEnd(p, again)
    BY <1>25 DEF PDeleteParent, Objects
  <2> QED BY <2>1, OEndKeepsVersions
<1>26. ASSUME Restart PROVE VersionInv'
  BY <1>26, BoundTypes DEF Restart, VersionInv, Versions, Live, NoObject, ObjectsOK,
     OClearing, OFinal, OSyncing, OParent
<1>27. ASSUME NEW o \in Objects,
             Notify(o) \/ ONothingToDo(o)
      PROVE  VersionInv'
  BY <1>0, <1>27 DEF Notify, ONothingToDo
<1>28. ASSUME NEW b \in Bindings,
             DeleteBinding(b) \/ SyncBinding(b) \/ BStart(b) \/ BValidate(b)
             \/ BInvalid(b) \/ BRoleGone(b) \/ BEvict(b)
             \/ BDeletePolicy(b) \/ BUnbind(b) \/ BLock(b) \/ BDiff(b) \/ BGuard(b)
             \/ BWrite(b) \/ BWriteTimesOut(b) \/ BFail(b)
      PROVE  VersionInv'
  BY <1>0, <1>28 DEF DeleteBinding, SyncBinding, BStart, BValidate, BInvalid,
     BRoleGone, BEvict, BDeletePolicy, BUnbind,
     BLock, BDiff, BGuard, BWrite, BWriteTimesOut, BFail
<1>29. ASSUME NEW b \in Bindings, NEW o \in Objects, CreateBinding(b, o) PROVE VersionInv'
  BY <1>0, <1>29 DEF CreateBinding
<1>30. ASSUME NEW t \in late, LateWriteLands(t) PROVE VersionInv'
  BY <1>0, <1>30 DEF LateWriteLands
<1>31. ASSUME Unregister PROVE VersionInv'
  BY <1>0, <1>31 DEF Unregister
<1> QED
  BY <1>1, <1>2, <1>3, <1>4, <1>5, <1>6, <1>7, <1>8, <1>9, <1>10, <1>11, <1>12, <1>13,
     <1>15, <1>16, <1>17, <1>18, <1>19, <1>20, <1>21, <1>22, <1>23, <1>24, <1>25,
     <1>26, <1>27, <1>28, <1>29, <1>30, <1>31 DEF Next, OStep, PStep, BStep

-----------------------------------------------------------------------------
(* What a step may do to a held object, a worker and a tuple.               *)

(* A held object stays held, and stays the same object, until it is         *)
(* released by its own worker. *)
LEMMA HeldStays ==
  ASSUME TypeOK, OwnerInv, JobInv, VersionInv, Next,
         NEW o \in Objects, api[o].ours, ~Release(o)
  PROVE  api'[o].ours /\ api'[o].uid = api[o].uid
<1> USE DEF TypeOK
<1> USE DEF bRest, oRest, objVars, fgaVars, bVars, oVars
<1> DEFINE Goal == api'[o].ours /\ api'[o].uid = api[o].uid
<1>0. ASSUME UNCHANGED <<api>> PROVE Goal
  BY <1>0
<1>1. ASSUME NEW y \in Objects, Create(y) PROVE Goal
  BY <1>1 DEF Create, ObjectsOK, VersionInv, Versions
<1>2. ASSUME NEW y \in Objects, Delete(y) PROVE Goal
  BY <1>2, DeleteEffect DEF Delete, NoObject
<1>3. ASSUME NEW y \in Objects, MiloDrains(y) PROVE Goal
  BY <1>3, DrainEffect DEF MiloDrains, NoObject
<1>4. ASSUME NEW q \in Projects, NEW s \in Orgs, Reparent(q, s) PROVE Goal
  BY <1>4 DEF Reparent, Moved, ObjectsOK, Object, Objects
<1>5. ASSUME NEW c \in Bindings, BHold(c) PROVE Goal
  <2>1. Target(c) \in Objects
    BY <1>5 DEF BHold, Target, JobInv
  <2>2. api' = api \/ (api' = Hold(Target(c)) /\ api[Target(c)].uid # 0)
    BY <1>5 DEF BHold, Current
  <2> QED BY <2>1, <2>2, HoldKeeps
<1>6. ASSUME NEW y \in Objects, OEnsureFinalizer(y) PROVE Goal
  BY <1>6, HoldKeeps DEF OEnsureFinalizer, Current
<1>7. ASSUME NEW y \in Objects, Release(y) PROVE Goal
  <2>1. y # o
    BY <1>7
  <2>2. api'[o] = api[o]
    BY <1>7, <2>1 DEF Release, Unhold, ObjectsOK
  <2> QED BY <2>2
<1>8. ASSUME NEW q \in Projects, POwnerHold(q) PROVE Goal
  <2>1. snap[q].owner \in Objects
    BY <1>8 DEF POwnerHold, OwnerInv, OParent, Objects
  <2> QED BY <1>8, <2>1, HoldKeeps DEF POwnerHold, Current
<1>9. ASSUME NEW y \in Objects,
             SyncCache(y) \/ Notify(y) \/ ONothingToDo(y) \/ OStartClear(y)
             \/ NamingObject(y) \/ NamingUser(y) \/ ClearDelete(y)
             \/ ClearDeletePartly(y) \/ OLock(y) \/ Remaining(y)
             \/ OFail(y)
      PROVE  Goal
  BY <1>0, <1>9 DEF SyncCache, Notify, ONothingToDo, OStartClear, NamingObject,
     NamingUser, ClearDelete, ClearDeletePartly, OLock, Remaining, OFail
<1>10. ASSUME NEW c \in Bindings,
             DeleteBinding(c) \/ SyncBinding(c) \/ BStart(c) \/ BValidate(c)
             \/ BInvalid(c) \/ BRoleGone(c) \/ BEvict(c)
             \/ BDeletePolicy(c) \/ BUnbind(c) \/ BLock(c) \/ BDiff(c) \/ BGuard(c)
             \/ BWrite(c) \/ BWriteTimesOut(c) \/ BFail(c)
      PROVE  Goal
  BY <1>0, <1>10 DEF DeleteBinding, SyncBinding, BStart, BValidate, BInvalid,
     BRoleGone, BEvict, BDeletePolicy, BUnbind,
     BLock, BDiff, BGuard, BWrite, BWriteTimesOut, BFail
<1>11. ASSUME NEW q \in Projects,
             PStartSync(q) \/ PExisting(q) \/ PDeleteStale(q) \/ PLockOwner(q)
             \/ POwnerRead(q) \/ PWriteParent(q) \/ PDeleteParent(q)
      PROVE  Goal
  BY <1>0, <1>11 DEF PStartSync, PExisting, PDeleteStale, PLockOwner, POwnerRead,
     PWriteParent, PDeleteParent
<1>12. ASSUME NEW c \in Bindings, NEW y \in Objects, CreateBinding(c, y) PROVE Goal
  BY <1>0, <1>12 DEF CreateBinding
<1>13. ASSUME NEW u \in late, LateWriteLands(u) PROVE Goal
  BY <1>0, <1>13 DEF LateWriteLands
<1>14. ASSUME
             Unregister \/ Restart
      PROVE  Goal
  BY <1>0, <1>14 DEF Unregister, Restart
<1> QED
  BY <1>1, <1>2, <1>3, <1>4, <1>5, <1>6, <1>7, <1>8, <1>9, <1>10, <1>11, <1>12, <1>13, <1>14
     DEF Next, OStep, PStep, BStep

(* How the worker of a binding gets to the steps that the invariants are    *)
(* about. *)
LEMMA BWorkerStep ==
  ASSUME TypeOK, Next, NEW b \in Bindings
  PROVE  \/ bpc'[b] = bpc[b] /\ job'[b] = job[b] /\ target'[b] = target[b]
         \/ bpc'[b] \notin {"hold", "write"}
         \/ BGuard(b) \/ BHold(b)
<1> USE DEF TypeOK
<1> USE DEF bRest, oRest, objVars, fgaVars, bVars, oVars
<1> DEFINE Goal == \/ bpc'[b] = bpc[b] /\ job'[b] = job[b] /\ target'[b] = target[b]
                   \/ bpc'[b] \notin {"hold", "write"}
                   \/ BGuard(b) \/ BHold(b)
<1>0. ASSUME UNCHANGED <<bpc, job, target>> PROVE Goal
  BY <1>0
<1>1. ASSUME NEW c \in Bindings, BStart(c) PROVE Goal
  BY <1>1 DEF BStart, BWorkersOK
<1>2. ASSUME NEW c \in Bindings, BValidate(c) PROVE Goal
  BY <1>2 DEF BValidate, BEnd, BWorkersOK
<1>3. ASSUME NEW c \in Bindings, BEvict(c) PROVE Goal
  BY <1>3 DEF BEvict, BEnd, BWorkersOK
<1>4. ASSUME NEW c \in Bindings, BDeletePolicy(c) PROVE Goal
  BY <1>4 DEF BDeletePolicy, BWorkersOK
<1>5. ASSUME NEW c \in Bindings, BUnbind(c) PROVE Goal
  BY <1>5 DEF BUnbind, BEnd, BWorkersOK
<1>6. ASSUME NEW c \in Bindings, BLock(c) PROVE Goal
  BY <1>6 DEF BLock, BWorkersOK
<1>7. ASSUME NEW c \in Bindings, BDiff(c) PROVE Goal
  BY <1>7 DEF BDiff, BEnd, BWorkersOK
<1>8. ASSUME NEW c \in Bindings, BGuard(c) PROVE Goal
  BY <1>8 DEF BGuard, BEnd, BWorkersOK
<1>9. ASSUME NEW c \in Bindings, BHold(c) PROVE Goal
  BY <1>9 DEF BHold, BEnd, BWorkersOK
<1>10. ASSUME NEW c \in Bindings, BWrite(c) PROVE Goal
  BY <1>10 DEF BWrite, BEnd, BWorkersOK
<1>11. ASSUME NEW c \in Bindings, BWriteTimesOut(c) PROVE Goal
  BY <1>11 DEF BWriteTimesOut, BEnd, BWorkersOK
<1>12. ASSUME NEW c \in Bindings, BFail(c) PROVE Goal
  BY <1>12 DEF BFail, BEnd, BWorkersOK
<1>13. ASSUME Restart PROVE Goal
  BY <1>13 DEF Restart
<1>14. ASSUME NEW y \in Objects,
             Create(y) \/ Delete(y) \/ MiloDrains(y) \/ SyncCache(y) \/ Notify(y)
             \/ ONothingToDo(y) \/ OEnsureFinalizer(y) \/ OStartClear(y)
             \/ NamingObject(y) \/ NamingUser(y) \/ ClearDelete(y)
             \/ ClearDeletePartly(y) \/ OLock(y) \/ Remaining(y)
             \/ Release(y) \/ OFail(y)
      PROVE  Goal
  BY <1>0, <1>14 DEF Create, Delete, MiloDrains, SyncCache, Notify, ONothingToDo,
     OEnsureFinalizer, OStartClear, NamingObject, NamingUser, ClearDelete,
     ClearDeletePartly, OLock, Remaining, Release, OFail
<1>15. ASSUME NEW c \in Bindings, DeleteBinding(c) \/ SyncBinding(c) PROVE Goal
  BY <1>0, <1>15 DEF DeleteBinding, SyncBinding
<1>16. ASSUME NEW q \in Projects,
             PStartSync(q) \/ PExisting(q) \/ PDeleteStale(q) \/ PLockOwner(q)
             \/ POwnerRead(q) \/ POwnerHold(q) \/ PWriteParent(q) \/ PDeleteParent(q)
      PROVE  Goal
  BY <1>0, <1>16 DEF PStartSync, PExisting, PDeleteStale, PLockOwner, POwnerRead,
     POwnerHold, PWriteParent, PDeleteParent
<1>17. ASSUME NEW q \in Projects, NEW s \in Orgs, Reparent(q, s) PROVE Goal
  BY <1>0, <1>17 DEF Reparent
<1>18. ASSUME NEW c \in Bindings, NEW y \in Objects, CreateBinding(c, y) PROVE Goal
  BY <1>0, <1>18 DEF CreateBinding
<1>19. ASSUME NEW u \in late, LateWriteLands(u) PROVE Goal
  BY <1>0, <1>19 DEF LateWriteLands
<1>20. ASSUME Unregister PROVE Goal
  BY <1>0, <1>20 DEF Unregister
<1>21. ASSUME NEW c \in Bindings, BInvalid(c) PROVE Goal
  BY <1>21 DEF BInvalid, BEnd, BWorkersOK
<1>22. ASSUME NEW c \in Bindings, BRoleGone(c) PROVE Goal
  BY <1>22 DEF BRoleGone, BEnd, BWorkersOK
<1> QED
  BY <1>1, <1>2, <1>3, <1>4, <1>5, <1>6, <1>7, <1>8, <1>9, <1>10, <1>11, <1>12, <1>13,
     <1>14, <1>15, <1>16, <1>17, <1>18, <1>19, <1>20, <1>21, <1>22 DEF Next, OStep, PStep, BStep

(* How the worker of an object gets to the steps that the invariants are    *)
(* about. *)
LEMMA OWorkerStep ==
  ASSUME TypeOK, Next, NEW o \in Objects
  PROVE  \/ /\ opc'[o] = opc[o] /\ snap'[o] = snap[o]
            /\ foundG'[o] = foundG[o] /\ foundP'[o] = foundP[o]
         \/ opc'[o] \notin {"parent", "remUser", "release"}
         \/ POwnerRead(o) \/ POwnerHold(o) \/ NamingObject(o) \/ Remaining(o)
<1> USE DEF TypeOK
<1> USE DEF bRest, oRest, objVars, fgaVars, bVars, oVars
<1> DEFINE Goal == \/ /\ opc'[o] = opc[o] /\ snap'[o] = snap[o]
                       /\ foundG'[o] = foundG[o] /\ foundP'[o] = foundP[o]
                    \/ opc'[o] \notin {"parent", "remUser", "release"}
                    \/ POwnerRead(o) \/ POwnerHold(o) \/ NamingObject(o) \/ Remaining(o)
<1>0. ASSUME UNCHANGED <<opc, snap, foundG, foundP>> PROVE Goal
  BY <1>0
<1>1. ASSUME NEW y \in Objects, OStartClear(y) PROVE Goal
  BY <1>1 DEF OStartClear, OWorkersOK
<1>2. ASSUME NEW y \in Objects, NamingObject(y) PROVE Goal
  BY <1>2 DEF NamingObject, OWorkersOK
<1>3. ASSUME NEW y \in Objects, NamingUser(y) PROVE Goal
  BY <1>3 DEF NamingUser, OWorkersOK
<1>4. ASSUME NEW y \in Objects, ClearDelete(y) PROVE Goal
  BY <1>4 DEF ClearDelete, OWorkersOK
<1>5. ASSUME NEW y \in Objects, ClearDeletePartly(y) PROVE Goal
  BY <1>5 DEF ClearDeletePartly, OEnd, OWorkersOK
<1>6. ASSUME NEW y \in Objects, OLock(y) PROVE Goal
  BY <1>6 DEF OLock, OWorkersOK
<1>8. ASSUME NEW y \in Objects, Remaining(y) PROVE Goal
  BY <1>8 DEF Remaining, OEnd, OWorkersOK
<1>9. ASSUME NEW y \in Objects, Release(y) PROVE Goal
  BY <1>9 DEF Release, OEnd, OWorkersOK
<1>10. ASSUME NEW y \in Objects, OFail(y) PROVE Goal
  BY <1>10 DEF OFail, OEnd, OWorkersOK
<1>11. ASSUME NEW q \in Projects, PStartSync(q) PROVE Goal
  BY <1>11 DEF PStartSync, OWorkersOK, Objects
<1>12. ASSUME NEW q \in Projects, PExisting(q) PROVE Goal
  BY <1>12 DEF PExisting, OWorkersOK, Objects
<1>13. ASSUME NEW q \in Projects, PDeleteStale(q) PROVE Goal
  BY <1>13 DEF PDeleteStale, OEnd, OWorkersOK, Objects
<1>14. ASSUME NEW q \in Projects, PLockOwner(q) PROVE Goal
  BY <1>14 DEF PLockOwner, OWorkersOK, Objects
<1>15. ASSUME NEW q \in Projects, POwnerRead(q) PROVE Goal
  BY <1>15 DEF POwnerRead, OEnd, OWorkersOK, Objects
<1>16. ASSUME NEW q \in Projects, POwnerHold(q) PROVE Goal
  BY <1>16 DEF POwnerHold, OEnd, OWorkersOK, Objects
<1>17. ASSUME NEW q \in Projects, PWriteParent(q) PROVE Goal
  BY <1>17 DEF PWriteParent, OEnd, OWorkersOK, Objects
<1>18. ASSUME NEW q \in Projects, PDeleteParent(q) PROVE Goal
  BY <1>18 DEF PDeleteParent, OEnd, OWorkersOK, Objects
<1>19. ASSUME Restart PROVE Goal
  BY <1>19 DEF Restart
<1>20. ASSUME NEW y \in Objects,
             Create(y) \/ Delete(y) \/ MiloDrains(y) \/ SyncCache(y) \/ Notify(y)
             \/ ONothingToDo(y) \/ OEnsureFinalizer(y)
      PROVE  Goal
  BY <1>0, <1>20 DEF Create, Delete, MiloDrains, SyncCache, Notify, ONothingToDo,
     OEnsureFinalizer
<1>21. ASSUME NEW c \in Bindings,
             DeleteBinding(c) \/ SyncBinding(c) \/ BStart(c) \/ BValidate(c)
             \/ BInvalid(c) \/ BRoleGone(c) \/ BEvict(c)
             \/ BDeletePolicy(c) \/ BUnbind(c) \/ BLock(c) \/ BDiff(c) \/ BGuard(c)
             \/ BHold(c) \/ BWrite(c) \/ BWriteTimesOut(c) \/ BFail(c)
      PROVE  Goal
  BY <1>0, <1>21 DEF DeleteBinding, SyncBinding, BStart, BValidate, BInvalid,
     BRoleGone, BEvict, BDeletePolicy, BUnbind,
     BLock, BDiff, BGuard, BHold, BWrite, BWriteTimesOut, BFail
<1>22. ASSUME NEW q \in Projects, NEW s \in Orgs, Reparent(q, s) PROVE Goal
  BY <1>0, <1>22 DEF Reparent
<1>23. ASSUME NEW c \in Bindings, NEW y \in Objects, CreateBinding(c, y) PROVE Goal
  BY <1>0, <1>23 DEF CreateBinding
<1>24. ASSUME NEW u \in late, LateWriteLands(u) PROVE Goal
  BY <1>0, <1>24 DEF LateWriteLands
<1>25. ASSUME Unregister PROVE Goal
  BY <1>0, <1>25 DEF Unregister
<1> QED
  BY <1>1, <1>2, <1>3, <1>4, <1>5, <1>6, <1>8, <1>9, <1>10, <1>11, <1>12, <1>13,
     <1>14, <1>15, <1>16, <1>17, <1>18, <1>19, <1>20, <1>21, <1>22, <1>23, <1>24, <1>25 DEF
     Next, OStep, PStep, BStep

(* A new grant comes from the guarded write, or from a write that had timed *)
(* out. *)
LEMMA NewGrant ==
  ASSUME TypeOK, Next, NEW t \in grants', t \notin grants
  PROVE  t \in late \/ \E b \in Bindings : BWrite(b) /\ t = Tuple(b)
<1> USE DEF TypeOK
<1> USE DEF bRest, oRest, objVars, fgaVars, bVars, oVars
<1> DEFINE Goal == t \in late \/ \E b \in Bindings : BWrite(b) /\ t = Tuple(b)
<1>0. ASSUME UNCHANGED <<grants>> PROVE Goal
  BY <1>0
<1>1. ASSUME NEW c \in Bindings, BEvict(c) PROVE Goal
  BY <1>1 DEF BEvict, Revoke
<1>2. ASSUME NEW c \in Bindings, BDeletePolicy(c) PROVE Goal
  BY <1>2 DEF BDeletePolicy, Revoke
<1>3. ASSUME NEW c \in Bindings, BWrite(c) PROVE Goal
  BY <1>3 DEF BWrite
<1>4. ASSUME NEW u \in late, LateWriteLands(u) PROVE Goal
  BY <1>4 DEF LateWriteLands
<1>5. ASSUME NEW y \in Objects, ClearDelete(y) PROVE Goal
  BY <1>5 DEF ClearDelete
<1>6. ASSUME NEW y \in Objects, ClearDeletePartly(y) PROVE Goal
  BY <1>6 DEF ClearDeletePartly
<1>7. ASSUME NEW y \in Objects,
             Create(y) \/ Delete(y) \/ MiloDrains(y) \/ SyncCache(y) \/ Notify(y)
             \/ ONothingToDo(y) \/ OEnsureFinalizer(y) \/ OStartClear(y)
             \/ NamingObject(y) \/ NamingUser(y) \/ OLock(y)
             \/ Remaining(y) \/ Release(y) \/ OFail(y)
      PROVE  Goal
  BY <1>0, <1>7 DEF Create, Delete, MiloDrains, SyncCache, Notify, ONothingToDo,
     OEnsureFinalizer, OStartClear, NamingObject, NamingUser, OLock,
     Remaining, Release, OFail
<1>8. ASSUME NEW c \in Bindings,
             DeleteBinding(c) \/ SyncBinding(c) \/ BStart(c) \/ BValidate(c)
             \/ BInvalid(c) \/ BUnbind(c) \/ BLock(c)
             \/ BDiff(c) \/ BGuard(c) \/ BHold(c) \/ BWriteTimesOut(c) \/ BFail(c)
      PROVE  Goal
  BY <1>0, <1>8 DEF DeleteBinding, SyncBinding, BStart, BValidate, BInvalid, BUnbind,
     BLock, BDiff, BGuard,
     BHold, BWriteTimesOut, BFail
<1>9. ASSUME NEW q \in Projects,
             PStartSync(q) \/ PExisting(q) \/ PDeleteStale(q) \/ PLockOwner(q)
             \/ POwnerRead(q) \/ POwnerHold(q) \/ PWriteParent(q) \/ PDeleteParent(q)
      PROVE  Goal
  BY <1>0, <1>9 DEF PStartSync, PExisting, PDeleteStale, PLockOwner, POwnerRead,
     POwnerHold, PWriteParent, PDeleteParent
<1>10. ASSUME NEW q \in Projects, NEW s \in Orgs, Reparent(q, s) PROVE Goal
  BY <1>0, <1>10 DEF Reparent
<1>11. ASSUME NEW c \in Bindings, NEW y \in Objects, CreateBinding(c, y) PROVE Goal
  BY <1>0, <1>11 DEF CreateBinding
<1>12. ASSUME
             Unregister \/ Restart
      PROVE  Goal
  BY <1>0, <1>12 DEF Unregister, Restart
<1>13. ASSUME NEW c \in Bindings, BRoleGone(c) PROVE Goal
  BY <1>13 DEF BRoleGone, Revoke
<1> QED
  BY <1>1, <1>2, <1>3, <1>4, <1>5, <1>6, <1>7, <1>8, <1>9, <1>10, <1>11, <1>12, <1>13 DEF Next,
     OStep, PStep, BStep

(* A new parent tuple comes from its Project's worker. *)
LEMMA NewParent ==
  ASSUME TypeOK, Next, NEW t \in parents', t \notin parents
  PROVE  \E p \in Projects : PWriteParent(p) /\ t = ParentTuple(p)
<1> USE DEF TypeOK
<1> USE DEF bRest, oRest, objVars, fgaVars, bVars, oVars
<1> DEFINE Goal == \E p \in Projects : PWriteParent(p) /\ t = ParentTuple(p)
<1>0. ASSUME UNCHANGED <<parents>> PROVE Goal
  BY <1>0
<1>1. ASSUME NEW y \in Objects, ClearDelete(y) PROVE Goal
  BY <1>1 DEF ClearDelete
<1>2. ASSUME NEW y \in Objects, ClearDeletePartly(y) PROVE Goal
  BY <1>2 DEF ClearDeletePartly
<1>3. ASSUME NEW q \in Projects, PDeleteStale(q) PROVE Goal
  BY <1>3 DEF PDeleteStale
<1>4. ASSUME NEW q \in Projects, PWriteParent(q) PROVE Goal
  BY <1>4 DEF PWriteParent
<1>5. ASSUME NEW q \in Projects, PDeleteParent(q) PROVE Goal
  BY <1>5 DEF PDeleteParent
<1>6. ASSUME NEW y \in Objects,
             Create(y) \/ Delete(y) \/ MiloDrains(y) \/ SyncCache(y) \/ Notify(y)
             \/ ONothingToDo(y) \/ OEnsureFinalizer(y) \/ OStartClear(y)
             \/ NamingObject(y) \/ NamingUser(y) \/ OLock(y)
             \/ Remaining(y) \/ Release(y) \/ OFail(y)
      PROVE  Goal
  BY <1>0, <1>6 DEF Create, Delete, MiloDrains, SyncCache, Notify, ONothingToDo,
     OEnsureFinalizer, OStartClear, NamingObject, NamingUser, OLock,
     Remaining, Release, OFail
<1>7. ASSUME NEW c \in Bindings,
             DeleteBinding(c) \/ SyncBinding(c) \/ BStart(c) \/ BValidate(c)
             \/ BInvalid(c) \/ BRoleGone(c) \/ BEvict(c)
             \/ BDeletePolicy(c) \/ BUnbind(c) \/ BLock(c) \/ BDiff(c) \/ BGuard(c)
             \/ BHold(c) \/ BWrite(c) \/ BWriteTimesOut(c) \/ BFail(c)
      PROVE  Goal
  BY <1>0, <1>7 DEF DeleteBinding, SyncBinding, BStart, BValidate, BInvalid,
     BRoleGone, BEvict, BDeletePolicy, BUnbind,
     BLock, BDiff, BGuard, BHold, BWrite, BWriteTimesOut, BFail
<1>8. ASSUME NEW q \in Projects,
             PStartSync(q) \/ PExisting(q) \/ PLockOwner(q) \/ POwnerRead(q)
             \/ POwnerHold(q)
      PROVE  Goal
  BY <1>0, <1>8 DEF PStartSync, PExisting, PLockOwner, POwnerRead, POwnerHold
<1>9. ASSUME NEW q \in Projects, NEW s \in Orgs, Reparent(q, s) PROVE Goal
  BY <1>0, <1>9 DEF Reparent
<1>10. ASSUME NEW c \in Bindings, NEW y \in Objects, CreateBinding(c, y) PROVE Goal
  BY <1>0, <1>10 DEF CreateBinding
<1>11. ASSUME NEW u \in late, LateWriteLands(u) PROVE Goal
  BY <1>0, <1>11 DEF LateWriteLands
<1>12. ASSUME
             Unregister \/ Restart
      PROVE  Goal
  BY <1>0, <1>12 DEF Unregister, Restart
<1> QED
  BY <1>1, <1>2, <1>3, <1>4, <1>5, <1>6, <1>7, <1>8, <1>9, <1>10, <1>11, <1>12 DEF Next,
     OStep, PStep, BStep

-----------------------------------------------------------------------------
(* The upper layers.                                                        *)

(* Every step keeps WriterInv: the lock keeps the release away between the  *)
(* guard and the write. *)
LEMMA WriterInvStep ==
  ASSUME TypeOK, JobInv, OwnerInv, LockInv, VersionInv, WriterInv, Next
  PROVE  WriterInv'
<1> USE DEF TypeOK
<1>1. ASSUME NEW b \in Bindings, bpc'[b] = "hold"
      PROVE  target'[b].uid = job'[b].uid
  <2>1. CASE bpc'[b] = bpc[b] /\ job'[b] = job[b] /\ target'[b] = target[b]
    BY <1>1, <2>1 DEF WriterInv
  <2>2. CASE BGuard(b)
    <3>1. /\ target' = [target EXCEPT ![b] = api[Target(b)]] /\ job' = job
          /\ holdOf(api[Target(b)], job[b].uid) = "notYet"
      BY <1>1, <2>2 DEF BGuard, BEnd, BWorkersOK
    <3> QED BY <3>1 DEF holdOf, BWorkersOK
  <2>3. CASE BHold(b)
    BY <1>1, <2>3 DEF BHold, BEnd, BWorkersOK
  <2> QED BY <1>1, <2>1, <2>2, <2>3, BWorkerStep
<1>2. ASSUME NEW b \in Bindings, bpc'[b] = "write"
      PROVE  api'[job'[b].target].ours /\ api'[job'[b].target].uid = job'[b].uid
  <2>1. CASE bpc'[b] = bpc[b] /\ job'[b] = job[b] /\ target'[b] = target[b]
    <3>1. /\ job[b].target \in Objects /\ lock[LockOf[job[b].target]] = b
          /\ api[job[b].target].ours /\ api[job[b].target].uid = job[b].uid
      BY <1>2, <2>1 DEF JobInv, LockInv, WriterInv, BGuarded
    <3>2. ~Release(job[b].target)
      BY <3>1, NamesDisjoint DEF Release, LockInv, OFinal
    <3> QED BY <2>1, <3>1, <3>2, HeldStays
  <2>2. CASE BGuard(b)
    <3>1. api' = api /\ job' = job /\ holdOf(api[Target(b)], job[b].uid) = "held"
      BY <1>2, <2>2 DEF BGuard, BEnd, BWorkersOK, bRest, objVars
    <3> QED BY <3>1 DEF holdOf, Target
  <2>3. CASE BHold(b)
    <3>1. /\ api' = Hold(Target(b)) /\ job' = job /\ Current(Target(b), target[b])
          /\ bpc[b] = "hold"
      BY <1>2, <2>3 DEF BHold, BEnd, BWorkersOK
    <3>2. Target(b) \in Objects /\ api[Target(b)].uid = job[b].uid
      BY <3>1 DEF Target, Current, JobInv, WriterInv
    <3> QED BY <3>1, <3>2, HoldEffect DEF Target
  <2> QED BY <1>2, <2>1, <2>2, <2>3, BWorkerStep
<1>3. ASSUME NEW o \in Objects, opc'[o] = "parent"
      PROVE  api'[snap'[o].owner].ours
  <2>1. CASE opc'[o] = opc[o] /\ snap'[o] = snap[o]
    <3>1. /\ snap[o].owner \in Orgs /\ o \in Projects /\ lock[LockOf[snap[o].owner]] = o
          /\ api[snap[o].owner].ours
      BY <1>3, <2>1 DEF OwnerInv, LockInv, WriterInv, OParent
    <3>2. snap[o].owner \in Objects /\ snap[o].owner # o
      BY <3>1, NamesDisjoint DEF Objects
    <3>3. ~Release(snap[o].owner)
      BY <3>1, <3>2 DEF Release, LockInv, OFinal
    <3> QED BY <2>1, <3>1, <3>2, <3>3, HeldStays
  <2>2. CASE POwnerRead(o)
    <3>1. api' = api /\ snap' = snap /\ holdOf(api[snap[o].owner], snap[o].ouid) = "held"
      BY <1>3, <2>2 DEF POwnerRead, OEnd, OWorkersOK, objVars
    <3> QED BY <3>1 DEF holdOf
  <2>3. CASE POwnerHold(o)
    <3>1. api' = Hold(snap[o].owner) /\ snap' = snap /\ snap[o].owner \in Objects
      BY <1>3, <2>3 DEF POwnerHold, OEnd, OWorkersOK, OwnerInv, OParent, Objects
    <3> QED BY <3>1, HoldEffect
  <2>4. CASE NamingObject(o) \/ Remaining(o)
    BY <1>3, <2>4 DEF NamingObject, Remaining, OEnd, OWorkersOK
  <2> QED BY <1>3, <2>1, <2>2, <2>3, <2>4, OWorkerStep
<1> QED BY <1>1, <1>2, <1>3 DEF WriterInv

(* While an object is being finalized under its lock, nothing new names it. *)
LEMMA NoGrantWhileFinal ==
  ASSUME TypeOK, JobInv, LockInv, ClearedInv, MaxLate = 0, Next,
         NEW o \in Objects, opc[o] \in OFinal, \A t \in grants : t[2] # o
  PROVE  \A t \in grants' : t[2] # o
<1> SUFFICES ASSUME NEW t \in grants', t \notin grants PROVE t[2] # o
  OBVIOUS
<1>1. PICK b \in Bindings : BWrite(b) /\ t = Tuple(b)
  BY NewGrant DEF ClearedInv
<1>2. Target(b) \in Objects /\ lock[LockOf[Target(b)]] = b
  BY <1>1 DEF BWrite, Target, JobInv, LockInv, BGuarded
<1>3. lock[LockOf[o]] = o
  BY DEF LockInv
<1> QED BY <1>1, <1>2, <1>3, NamesDisjoint DEF Tuple

LEMMA NoParentOnWhileFinal ==
  ASSUME TypeOK, Next, NEW o \in Objects, opc[o] \in OFinal, \A t \in parents : t[2] # o
  PROVE  \A t \in parents' : t[2] # o
<1> SUFFICES ASSUME NEW t \in parents', t \notin parents PROVE t[2] # o
  OBVIOUS
<1>1. PICK p \in Projects : PWriteParent(p) /\ t = ParentTuple(p)
  BY NewParent
<1> QED BY <1>1 DEF PWriteParent, ParentTuple, OFinal

LEMMA NoParentOfWhileFinal ==
  ASSUME TypeOK, OwnerInv, LockInv, Next,
         NEW o \in Objects, opc[o] \in OFinal, \A t \in parents : t[1] # o
  PROVE  \A t \in parents' : t[1] # o
<1> SUFFICES ASSUME NEW t \in parents', t \notin parents PROVE t[1] # o
  OBVIOUS
<1>1. PICK p \in Projects : PWriteParent(p) /\ t = ParentTuple(p)
  BY NewParent
<1>2. snap[p].owner \in Orgs /\ lock[LockOf[snap[p].owner]] = p
  BY <1>1 DEF PWriteParent, OwnerInv, LockInv, OParent, Objects
<1>3. lock[LockOf[o]] = o
  BY DEF LockInv
<1> QED BY <1>1, <1>2, <1>3, NamesDisjoint DEF ParentTuple

(* No write is late, and no parent is unregistered, where the constants     *)
(* rule it out. *)
LEMMA FlagsStep ==
  ASSUME TypeOK, ClearedInv, Next
  PROVE  (MaxLate = 0 => late' = {}) /\ (~MayUnregister => registered')
<1> USE DEF TypeOK
<1> USE DEF bRest, oRest, objVars, fgaVars, bVars, oVars
<1> DEFINE Goal == (MaxLate = 0 => late' = {}) /\ (~MayUnregister => registered')
<1>0. ASSUME UNCHANGED <<late, registered>> PROVE Goal
  BY <1>0 DEF ClearedInv
<1>1. ASSUME Unregister PROVE Goal
  BY <1>1 DEF Unregister, ClearedInv
<1>2. ASSUME NEW c \in Bindings, BWriteTimesOut(c) PROVE Goal
  BY <1>2, BoundTypes DEF BWriteTimesOut, BoundsOK, ClearedInv
<1>3. ASSUME NEW u \in late, LateWriteLands(u) PROVE Goal
  BY <1>3 DEF LateWriteLands, ClearedInv
<1>4. ASSUME NEW y \in Objects,
             Create(y) \/ Delete(y) \/ MiloDrains(y) \/ SyncCache(y) \/ Notify(y)
             \/ ONothingToDo(y) \/ OEnsureFinalizer(y) \/ OStartClear(y)
             \/ NamingObject(y) \/ NamingUser(y) \/ ClearDelete(y)
             \/ ClearDeletePartly(y) \/ OLock(y) \/ Remaining(y)
             \/ Release(y) \/ OFail(y)
      PROVE  Goal
  BY <1>0, <1>4 DEF Create, Delete, MiloDrains, SyncCache, Notify, ONothingToDo,
     OEnsureFinalizer, OStartClear, NamingObject, NamingUser, ClearDelete,
     ClearDeletePartly, OLock, Remaining, Release, OFail
<1>5. ASSUME NEW c \in Bindings,
             DeleteBinding(c) \/ SyncBinding(c) \/ BStart(c) \/ BValidate(c)
             \/ BInvalid(c) \/ BRoleGone(c) \/ BEvict(c)
             \/ BDeletePolicy(c) \/ BUnbind(c) \/ BLock(c) \/ BDiff(c) \/ BGuard(c)
             \/ BHold(c) \/ BWrite(c) \/ BFail(c)
      PROVE  Goal
  BY <1>0, <1>5 DEF DeleteBinding, SyncBinding, BStart, BValidate, BInvalid,
     BRoleGone, BEvict, BDeletePolicy, BUnbind,
     BLock, BDiff, BGuard, BHold, BWrite, BFail
<1>6. ASSUME NEW q \in Projects,
             PStartSync(q) \/ PExisting(q) \/ PDeleteStale(q) \/ PLockOwner(q)
             \/ POwnerRead(q) \/ POwnerHold(q) \/ PWriteParent(q) \/ PDeleteParent(q)
      PROVE  Goal
  BY <1>0, <1>6 DEF PStartSync, PExisting, PDeleteStale, PLockOwner, POwnerRead,
     POwnerHold, PWriteParent, PDeleteParent
<1>7. ASSUME NEW q \in Projects, NEW s \in Orgs, Reparent(q, s) PROVE Goal
  BY <1>0, <1>7 DEF Reparent
<1>8. ASSUME NEW c \in Bindings, NEW y \in Objects, CreateBinding(c, y) PROVE Goal
  BY <1>0, <1>8 DEF CreateBinding
<1>9. ASSUME Restart PROVE Goal
  BY <1>0, <1>9 DEF Restart
<1> QED
  BY <1>1, <1>2, <1>3, <1>4, <1>5, <1>6, <1>7, <1>8, <1>9 DEF Next, OStep, PStep, BStep

(* Every step keeps ClearedInv. *)
LEMMA ClearedInvStep ==
  ASSUME TypeOK, JobInv, OwnerInv, LockInv, ClearedInv, Next
  PROVE  ClearedInv'
<1>1. ASSUME NEW o \in Objects, opc'[o] = "remUser"
      PROVE  /\ MaxLate = 0 /\ foundG'[o] = {} => \A t \in grants' : t[2] # o
             /\ foundP'[o] = {} => \A t \in parents' : t[2] # o
  <2>1. CASE opc'[o] = opc[o] /\ foundG'[o] = foundG[o] /\ foundP'[o] = foundP[o]
    <3>1. opc[o] \in OFinal
      BY <1>1, <2>1 DEF OFinal
    <3>2. /\ MaxLate = 0 /\ foundG[o] = {} => \A t \in grants : t[2] # o
          /\ foundP[o] = {} => \A t \in parents : t[2] # o
      BY <1>1, <2>1 DEF ClearedInv
    <3> QED BY <2>1, <3>1, <3>2, NoGrantWhileFinal, NoParentOnWhileFinal
  <2>2. CASE NamingObject(o)
    BY <2>2 DEF NamingObject, grantsOn, parentsOn, TypeOK, OWorkersOK, fgaVars
  <2>3. CASE POwnerRead(o) \/ POwnerHold(o) \/ Remaining(o)
    BY <1>1, <2>3 DEF POwnerRead, POwnerHold, Remaining, OEnd, TypeOK, OWorkersOK
  <2> QED BY <1>1, <2>1, <2>2, <2>3, OWorkerStep
<1>2. ASSUME NEW o \in Objects, opc'[o] = "release"
      PROVE  /\ MaxLate = 0 => \A t \in grants' : t[2] # o
             /\ \A t \in parents' : t[2] # o
             /\ ~MayUnregister => \A t \in parents' : t[1] # o
  <2>1. CASE opc'[o] = opc[o]
    <3>1. opc[o] \in OFinal
      BY <1>2, <2>1 DEF OFinal
    <3>2. /\ MaxLate = 0 => \A t \in grants : t[2] # o
          /\ \A t \in parents : t[2] # o
          /\ ~MayUnregister => \A t \in parents : t[1] # o
      BY <1>2, <2>1 DEF ClearedInv
    <3> QED BY <3>1, <3>2, NoGrantWhileFinal, NoParentOnWhileFinal, NoParentOfWhileFinal
  <2>2. CASE Remaining(o)
    <3>1. /\ opc[o] = "remUser" /\ foundG[o] = {} /\ foundP[o] = {} /\ parentsOf(o) = {}
          /\ grants' = grants /\ parents' = parents
      BY <1>2, <2>2 DEF Remaining, OEnd, TypeOK, OWorkersOK, fgaVars
    <3> QED BY <3>1 DEF ClearedInv, parentsOf
  <2>3. CASE POwnerRead(o) \/ POwnerHold(o) \/ NamingObject(o)
    BY <1>2, <2>3 DEF POwnerRead, POwnerHold, NamingObject, OEnd, TypeOK, OWorkersOK
  <2> QED BY <1>2, <2>1, <2>2, <2>3, OWorkerStep
<1> QED BY <1>1, <1>2, FlagsStep DEF ClearedInv

(* Every step keeps TupleInv. *)
LEMMA TupleInvStep ==
  ASSUME TypeOK, JobInv, OwnerInv, LockInv, VersionInv, WriterInv, ClearedInv, TupleInv, Next
  PROVE  TupleInv'
<1> USE DEF TypeOK
<1>1. ASSUME MaxLate = 0, NEW t \in grants'
      PROVE  api'[t[2]].ours
  <2>1. CASE t \in grants
    <3>1. t[2] \in Objects /\ api[t[2]].ours
      BY <1>1, <2>1 DEF TupleInv, StoreOK
    <3>2. ~Release(t[2])
      BY <1>1, <2>1, <3>1 DEF Release, ClearedInv
    <3> QED BY <3>1, <3>2, HeldStays
  <2>2. CASE t \notin grants
    <3>1. PICK b \in Bindings : BWrite(b) /\ t = Tuple(b)
      BY <1>1, <2>2, NewGrant DEF ClearedInv
    <3>2. bpc[b] = "write" /\ api' = api
      BY <3>1 DEF BWrite, bRest, objVars
    <3> QED BY <3>1, <3>2 DEF Tuple, Target, WriterInv
  <2> QED BY <2>1, <2>2
<1>2. ASSUME NEW t \in parents'
      PROVE  api'[t[2]].ours /\ (~MayUnregister => api'[t[1]].ours)
  <2>1. CASE t \in parents
    <3>1. /\ t[1] \in Objects /\ t[2] \in Objects
          /\ api[t[2]].ours /\ (~MayUnregister => api[t[1]].ours)
      BY <2>1 DEF TupleInv, StoreOK, Objects
    <3>2. ~Release(t[2]) /\ (~MayUnregister => ~Release(t[1]))
      BY <2>1, <3>1 DEF Release, ClearedInv
    <3> QED BY <3>1, <3>2, HeldStays
  <2>2. CASE t \notin parents
    <3>1. PICK p \in Projects : PWriteParent(p) /\ t = ParentTuple(p)
      BY <2>2, NewParent
    <3>2. p \in Objects /\ opc[p] = "parent" /\ api' = api
      BY <3>1 DEF PWriteParent, objVars, Objects
    <3> QED BY <3>1, <3>2 DEF ParentTuple, VersionInv, Versions, WriterInv, OParent
  <2> QED BY <2>1, <2>2
<1> QED BY <1>1, <1>2 DEF TupleInv

-----------------------------------------------------------------------------
(* The theorems.                                                            *)

(* The inductive invariant holds initially and is kept by every step. *)
LEMMA HoldInvInit ==
  ASSUME Init PROVE TypeOK /\ HoldInv
<1>1. TypeOK
  BY NoObjectType, NoBindingType, BoundTypes
  DEF Init, TypeOK, ObjectsOK, StoreOK, BWorkersOK, OWorkersOK, LocksOK, BoundsOK, BPc, OPc
<1>2. OwnerInv /\ JobInv /\ LockInv
  BY DEF Init, OwnerInv, JobInv, LockInv, Objects, NoObject, NoBinding, BGuarded, OFinal, OSyncing,
     OParent
<1>3. VersionInv
  BY DEF Init, VersionInv, Versions, Live, NoObject, OClearing, OFinal, OSyncing, OParent
<1>4. WriterInv /\ ClearedInv /\ TupleInv
  BY DEF Init, WriterInv, ClearedInv, TupleInv
<1> QED BY <1>1, <1>2, <1>3, <1>4 DEF HoldInv

LEMMA HoldInvStep ==
  ASSUME TypeOK, HoldInv, [Next]_vars PROVE TypeOK' /\ HoldInv'
<1>1. CASE Next
  BY <1>1, TypeStep, JobInvStep, OwnerInvStep, LockInvStep, VersionInvStep,
     WriterInvStep, ClearedInvStep, TupleInvStep DEF HoldInv
<1>2. CASE UNCHANGED vars
  <2> USE <1>2 DEF vars, objVars, fgaVars, bVars, oVars
  <2>1. TypeOK'
    BY DEF TypeOK, ObjectsOK, StoreOK, BWorkersOK, OWorkersOK, LocksOK, BoundsOK
  <2>2. OwnerInv' /\ JobInv' /\ LockInv'
    BY DEF HoldInv, OwnerInv, JobInv, LockInv
  <2>3. VersionInv' /\ WriterInv' /\ ClearedInv' /\ TupleInv'
    BY DEF HoldInv, VersionInv, Versions, WriterInv, ClearedInv, TupleInv
  <2> QED BY <2>1, <2>2, <2>3 DEF HoldInv
<1> QED BY <1>1, <1>2

(* Every variable keeps its type (TypeOK) in every reachable state. *)
THEOREM TypeCorrect == Spec => []TypeOK
<1>1. Init => TypeOK /\ HoldInv
  BY HoldInvInit
<1>2. TypeOK /\ HoldInv /\ [Next]_vars => (TypeOK /\ HoldInv)'
  BY HoldInvStep
<1> QED BY <1>1, <1>2, PTL DEF Spec

(* The layered invariant HoldInv holds in every reachable state: locks,     *)
(* copies, guards and tuples agree across every interleaving of the         *)
(* workers. *)
THEOREM HoldInvariant == Spec => []HoldInv
<1>1. Init => TypeOK /\ HoldInv
  BY HoldInvInit
<1>2. TypeOK /\ HoldInv /\ [Next]_vars => (TypeOK /\ HoldInv)'
  BY HoldInvStep
<1> QED BY <1>1, <1>2, PTL DEF Spec

(* As long as no timed-out write is applied late, no grant outlives the     *)
(* object it is on (ObjectLocks: "Whichever runs first, no tuple outlives   *)
(* the object"). *)
THEOREM GrantsAreHeld ==
  ASSUME MaxLate = 0 PROVE Spec => []GrantsNeverOutlive
<1>1. HoldInv => GrantsNeverOutlive
  BY DEF HoldInv, TupleInv, GrantsNeverOutlive
<1> QED BY <1>1, HoldInvariant, PTL

(* The step behind GrantsFollowUid: no stored grant sees its name change    *)
(* hands, and a new one comes from the guarded write of a binding that      *)
(* names the object that holds the name. *)
LEMMA GrantStep ==
  ASSUME MaxLate = 0, TypeOK, HoldInv, Next, NEW t \in grants'
  PROVE  /\ api'[t[2]].uid = api[t[2]].uid
         /\ t \in grants \/ \E b \in Bindings :
              /\ GrantOf[b] = t[1] /\ bind[b].fin
              /\ bind[b].target = t[2] /\ bind[b].uid = api[t[2]].uid
<1> USE DEF HoldInv
<1>1. CASE t \in grants
  <2>1. t[2] \in Objects /\ api[t[2]].ours
    BY <1>1 DEF TypeOK, StoreOK, TupleInv
  <2>2. ~Release(t[2])
    BY <1>1, <2>1 DEF Release, ClearedInv
  <2> QED BY <1>1, <2>1, <2>2, HeldStays
<1>2. CASE t \notin grants
  <2>1. PICK b \in Bindings : BWrite(b) /\ t = Tuple(b)
    BY <1>2, NewGrant DEF ClearedInv
  <2>2. bpc[b] = "write" /\ api' = api
    BY <2>1 DEF BWrite, bRest, objVars
  <2>3. bind[b].fin /\ bind[b].target = job[b].target /\ bind[b].uid = job[b].uid
    BY <2>2 DEF JobInv, BGuarded
  <2>4. api[job[b].target].uid = job[b].uid
    BY <2>2 DEF WriterInv
  <2> QED BY <2>1, <2>2, <2>3, <2>4 DEF Tuple, Target
<1> QED BY <1>1, <1>2

(* As long as no timed-out write is applied late, a grant is written only   *)
(* for a stored binding that names, by UID, the object that holds the name, *)
(* and stays with that incarnation: a name that is reused inherits none     *)
(* (targetGuard). *)
THEOREM GrantsFollowUid ==
  ASSUME MaxLate = 0 PROVE Spec => GrantNamesItsTarget
<1> DEFINE A == \A t \in grants' :
                  /\ api'[t[2]].uid = api[t[2]].uid
                  /\ t \in grants \/ \E b \in Bindings :
                      /\ GrantOf[b] = t[1] /\ bind[b].fin
                      /\ bind[b].target = t[2] /\ bind[b].uid = api[t[2]].uid
<1>1. TypeOK /\ HoldInv /\ [Next]_vars => [A]_vars
  BY GrantStep
<1>2. (Spec => [][A]_vars) => (Spec => GrantNamesItsTarget)
  BY DEF GrantNamesItsTarget
<1> QED BY <1>1, <1>2, TypeCorrect, HoldInvariant, PTL DEF Spec

(* As long as the Project registration keeps naming Organization as a       *)
(* parent, no parent tuple outlives the Project or the Organization it      *)
(* names (syncParent, OrganizationReconciler). *)
THEOREM ParentsAreHeld ==
  ASSUME ~MayUnregister PROVE Spec => []ParentsNeverOutlive
<1>1. HoldInv => ParentsNeverOutlive
  BY DEF HoldInv, TupleInv, ParentsNeverOutlive
<1> QED BY <1>1, HoldInvariant, PTL

=============================================================================
