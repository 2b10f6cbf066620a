------------------------- MODULE ModelRolloutProofs -------------------------
(***************************************************************************)
(* TLAPS proofs about ModelRollout, for every set of types and every bound. *)
(* TypeOK /\ RolloutInv is inductive: the worker's copies are never newer   *)
(* than what is stored and never older than what it has marked, so that     *)
(* each model it lists has what it marked Ready and lacks what it released. *)
(***************************************************************************)
EXTENDS ModelRollout, TLAPS

-----------------------------------------------------------------------------
(* Types.                                                                   *)

LEMMA RegistrationConstants ==
  NoRegistration \in Registration /\ Gone \in Registration /\ Vanished \in Registration
<1>1. 0 \in 0..MaxGen
  BY BoundTypes
<1>2. NoRegistration \in Registration
  BY <1>1 DEF NoRegistration, Registration
<1> QED BY <1>2 DEF Gone, Vanished, Registration

LEMMA RegistrationFields ==
  ASSUME NEW r \in Registration
  PROVE  /\ r.st \in {"none", "live", "deleting", "gone", "vanished"}
         /\ r.gen \in 0..MaxGen /\ r.fin \in BOOLEAN /\ r.obs \in 0..MaxGen
         /\ r.gen \in Nat /\ r.obs \in Nat
  BY BoundTypes DEF Registration

(* What is listed is what a model can be made from. *)
LEMMA ActiveType ==
  ASSUME TypeOK, CopyInv PROVE Active(cpr) \in Models
<1>1. SUFFICES ASSUME NEW t \in Types, cpr[t].st = "live" PROVE cpr[t].gen \in 1..MaxGen
  BY DEF Active, Models
<1>2. cpr[t].gen \in 0..MaxGen /\ cpr[t].gen # 0
  BY <1>1, RegistrationFields DEF TypeOK, CopyInv, Stored
<1> QED BY <1>2, BoundTypes

LEMMA AnsweredType ==
  ASSUME TypeOK, NEW ack \in BOOLEAN, Answered(ack) PROVE faults' \in 0..MaxFaults
  BY BoundTypes DEF TypeOK, Answered

(* A longer list of models keeps its IDs. *)
LEMMA AppendModel ==
  ASSUME TypeOK, NEW m \in Models, models' = Append(models, m)
  PROVE  /\ models' \in Seq(Models) /\ Len(models') = Len(models) + 1
         /\ models'[Len(models')] = m
         /\ \A i \in 1..Len(models) : models'[i] = models[i]
         /\ Len(models) \in Nat
  BY DEF TypeOK

LEMMA SeqSubset ==
  ASSUME NEW m \in Nat, NEW n \in Nat, m <= n, NEW s \in Seq(1..m)
  PROVE  s \in Seq(1..n)
  OBVIOUS

(* How the worker's steps change its own variables. *)
LEMMA EndType ==
  ASSUME TypeOK, NEW again, End(again)
  PROVE  /\ queue' \subseteq Keys
         /\ pc' \in {"idle", "add", "rebuild", "write", "publish", "finish"}
         /\ key' \in Keys /\ snap' \in Registration /\ list' \in Models
         /\ pub' \in 0..Len(models)
<1>1. 0 \in 0..Len(models)
  BY DEF TypeOK
<1> QED BY <1>1, RegistrationConstants DEF TypeOK, End, Keys, Models

LEMMA WEndType ==
  ASSUME TypeOK, WEnd
  PROVE  /\ wpc' \in {"idle", "write", "latest", "check", "set", "refused"} /\ wtype' \in Keys
         /\ wpin' \in 0..Len(models) /\ wnew' \in 0..Len(models) /\ wready' \in BOOLEAN /\ wdel' \in BOOLEAN
<1>1. 0 \in 0..Len(models)
  BY DEF TypeOK
<1> QED BY <1>1 DEF WEnd, Keys

LEMMA TypeStep == TypeOK /\ RolloutInv /\ [Next]_vars => TypeOK'
<1> SUFFICES ASSUME TypeOK, CopyInv, JobInv, PublishInv, [Next]_vars PROVE TypeOK'
  BY DEF RolloutInv
<1> USE BoundTypes
<1> USE DEF TypeOK, prVars, workVars, storeVars, watchVars, writeVars
<1>0. Len(models) \in Nat
  OBVIOUS
<1>1. ASSUME NEW t \in Types, Create(t) PROVE TypeOK'
  <2>1. [NoRegistration EXCEPT !.st = "live", !.gen = 1] \in Registration
    <3>1. 1 \in 0..MaxGen
      OBVIOUS
    <3> QED BY <3>1, RegistrationConstants DEF Registration
  <2> QED BY <1>1, <2>1 DEF Create, users
<1>2. ASSUME NEW t \in Types, Edit(t) PROVE TypeOK'
  <2>1. pr[t].gen + 1 \in 0..MaxGen
    BY <1>2, RegistrationFields DEF Edit
  <2>2. [pr[t] EXCEPT !.gen = pr[t].gen + 1] \in Registration
    BY <2>1 DEF Registration
  <2> QED BY <1>2, <2>2 DEF Edit, users
<1>3. ASSUME NEW t \in Types, Delete(t) PROVE TypeOK'
  <2>1. [pr[t] EXCEPT !.st = "deleting"] \in Registration
    BY DEF Registration
  <2> QED BY <1>3, <2>1, RegistrationConstants DEF Delete, users
<1>4. ASSUME NEW t \in Types, SyncCache(t) PROVE TypeOK'
  BY <1>4 DEF SyncCache, Keys
<1>5. CASE StartModel
  BY <1>5 DEF StartModel, rest
<1>6. ASSUME NEW t \in Types, Start(t) PROVE TypeOK'
  BY <1>6 DEF Start, rest, Keys
<1>7. ASSUME NEW t \in Types, StartNothing(t) PROVE TypeOK'
  BY <1>7 DEF StartNothing, rest
<1>8. CASE AddFinalizer
  <2>1. key \in Types
    BY <1>8 DEF AddFinalizer, JobInv, Keys
  <2>2. /\ [pr[key] EXCEPT !.fin = TRUE] \in Registration
        /\ [snap EXCEPT !.fin = TRUE] \in Registration
    BY <2>1 DEF Registration
  <2>3. pr' \in [Types -> Registration]
    BY <1>8, <2>1, <2>2 DEF AddFinalizer
  <2>4. /\ queue' \subseteq Keys /\ pc' \in {"idle", "add", "rebuild", "write", "publish", "finish"}
        /\ key' \in Keys /\ snap' \in Registration /\ list' \in Models /\ pub' \in 0..Len(models)
    BY <1>8, <2>2, EndType DEF AddFinalizer
  <2> QED BY <1>8, <2>3, <2>4 DEF AddFinalizer, rest
<1>9. CASE SkipObserved
  <2>1. End(FALSE)
    BY <1>9 DEF SkipObserved
  <2>2. /\ queue' \subseteq Keys /\ pc' \in {"idle", "add", "rebuild", "write", "publish", "finish"}
        /\ key' \in Keys /\ snap' \in Registration /\ list' \in Models /\ pub' \in 0..Len(models)
    BY <2>1, EndType
  <2> QED BY <1>9, <2>2 DEF SkipObserved, rest
<1>10. CASE Rebuild
  <2>1. list' \in Models
    BY <1>10, ActiveType DEF Rebuild
  <2>2. pub' \in 0..Len(models)
    BY <1>10, <1>0 DEF Rebuild, Latest
  <2> QED BY <1>10, <2>1, <2>2 DEF Rebuild, rest
<1>11. CASE WriteModel
  <2>1. /\ models' \in Seq(Models) /\ Len(models') = Len(models) + 1
    BY <1>11, AppendModel DEF WriteModel
  <2>2. \A i : i \in 0..Len(models) => i \in 0..Len(models')
    BY <2>1, <1>0
  <2>3. events' \in Seq(1..Len(models'))
    BY <1>11, <2>1, <1>0, SeqSubset DEF WriteModel
  <2>4. PICK ack \in BOOLEAN :
          /\ Answered(ack)
          /\ \/ ack /\ pc' = "publish" /\ pub' = Latest + 1 /\ UNCHANGED <<queue, key, snap, list>>
             \/ ~ack /\ End(TRUE)
    BY <1>11 DEF WriteModel
  <2>5. faults' \in 0..MaxFaults
    BY <2>4, AnsweredType
  <2>6. pub' \in 0..Len(models')
    BY <2>1, <2>4, <1>0 DEF End, Latest
  <2>7. /\ queue' \subseteq Keys /\ pc' \in {"idle", "add", "rebuild", "write", "publish", "finish"}
        /\ key' \in Keys /\ snap' \in Registration /\ list' \in Models
    BY <2>4, EndType
  <2> QED BY <1>11, <2>1, <2>2, <2>3, <2>5, <2>6, <2>7 DEF WriteModel, rest
<1>12. CASE Publish
  <2>1. pub \in 1..Len(models)
    BY <1>12, <1>0 DEF Publish, PublishInv, Latest
  <2>2. events' \in Seq(1..Len(models'))
    <3>1. Append(events, pub) \in Seq(1..Len(models))
      BY <2>1
    <3> QED BY <1>12, <3>1 DEF Publish
  <2>3. PICK ack \in BOOLEAN :
          /\ Answered(ack)
          /\ \/ ack /\ key # Startup /\ pc' = "finish" /\ UNCHANGED <<queue, key, snap, list, pub>>
             \/ (~ack \/ key = Startup) /\ End(~ack)
    BY <1>12 DEF Publish
  <2>4. faults' \in 0..MaxFaults
    BY <2>3, AnsweredType
  <2>5. pub' \in 0..Len(models)
    BY <2>1, <2>3, <1>0 DEF End
  <2>6. /\ queue' \subseteq Keys /\ pc' \in {"idle", "add", "rebuild", "write", "publish", "finish"}
        /\ key' \in Keys /\ snap' \in Registration /\ list' \in Models
    BY <2>3, EndType
  <2> QED BY <1>12, <1>0, <2>1, <2>2, <2>4, <2>5, <2>6 DEF Publish, rest
<1>13. CASE Finish
  <2>1. key \in Types
    BY <1>13 DEF Finish, JobInv, Keys
  <2>2. [pr[key] EXCEPT !.obs = snap.gen] \in Registration
    BY <2>1, RegistrationFields DEF Registration
  <2>3. pr' \in [Types -> Registration]
    BY <1>13, <2>1, <2>2, RegistrationConstants DEF Finish
  <2>4. faults' \in 0..MaxFaults
    BY <1>13, AnsweredType DEF Finish
  <2>5. PICK again \in BOOLEAN : End(again)
    BY <1>13 DEF Finish
  <2> QED BY <1>13, <1>0, <2>3, <2>4, <2>5, EndType DEF Finish, rest
<1>14. CASE Fail
  <2>1. faults' \in 0..MaxFaults
    BY <1>14 DEF Fail
  <2>2. End(TRUE)
    BY <1>14 DEF Fail
  <2>3. /\ queue' \subseteq Keys /\ pc' \in {"idle", "add", "rebuild", "write", "publish", "finish"}
        /\ key' \in Keys /\ snap' \in Registration /\ list' \in Models /\ pub' \in 0..Len(models)
    BY <2>2, EndType
  <2> QED BY <1>14, <2>1, <2>3 DEF Fail, rest
<1>15. CASE Restart
  <2>1. faults' \in 0..MaxFaults
    BY <1>15 DEF Restart
  <2>2. events' \in Seq(1..Len(models'))
    <3>1. <<>> \in Seq(1..Len(models))
      OBVIOUS
    <3>2. ASSUME cm # 0 PROVE <<cm>> \in Seq(1..Len(models))
      <4>1. cm \in 1..Len(models)
        BY <3>2, <1>0
      <4> QED BY <4>1
    <3> QED BY <1>15, <3>1, <3>2 DEF Restart
  <2>3. /\ queue' \subseteq Keys /\ key' \in Keys /\ snap' \in Registration /\ list' \in Models
    BY <1>15, RegistrationConstants DEF Restart, Keys, Models
  <2>4. WEnd /\ models' = models
    BY <1>15 DEF Restart
  <2> QED BY <1>15, <1>0, <2>1, <2>2, <2>3, <2>4, WEndType DEF Restart
<1>16. CASE HandleConfigMap
  <2>1. Head(events) \in 1..Len(models) /\ Tail(events) \in Seq(1..Len(models))
    BY <1>16 DEF HandleConfigMap
  <2> QED BY <1>16, <2>1, <1>0 DEF HandleConfigMap
<1>17. CASE Resync
  BY <1>17 DEF Resync
<1>18. ASSUME NEW t \in Written, WStart(t) PROVE TypeOK'
  <2>1. t \in Keys /\ Ready(t) \in BOOLEAN
    BY WrittenType DEF Keys, Ready
  <2> QED BY <1>18, <2>1 DEF WStart, wrest
<1>19. CASE WWrite
  BY <1>19, <1>0, WEndType DEF WWrite, wrest
<1>20. CASE WReadLatest
  BY <1>20, <1>0 DEF WReadLatest, Latest, wrest
<1>21. CASE WCheckID
  BY <1>21, <1>0, WEndType DEF WCheckID, wrest
<1>22. CASE SetModelID
  BY <1>22, <1>0, WEndType DEF SetModelID, wrest
<1>23. CASE WRefused
  BY <1>23, <1>0, WEndType DEF WRefused, wrest
<1>24. CASE UNCHANGED vars
  BY <1>24 DEF vars
<1> QED
  BY <1>1, <1>2, <1>3, <1>4, <1>5, <1>6, <1>7, <1>8, <1>9, <1>10, <1>11, <1>12, <1>13, <1>14,
     <1>15, <1>16, <1>17, <1>18, <1>19, <1>20, <1>21, <1>22, <1>23, <1>24 DEF Next, Work, Write

-----------------------------------------------------------------------------
(* The invariant.                                                           *)

(* What does not touch registrations, the worker and the store. *)
LEMMA Frame ==
  ASSUME RolloutInv, UNCHANGED <<pr, cpr, pc, key, snap, list, pub, models, cm>>
  PROVE  /\ CopyInv' /\ JobInv' /\ ListInv' /\ PublishInv' /\ ObservedInv' /\ ReadyInv' /\ GoneInv'
         /\ ReadyIsPublished' /\ GoneIsUnpublished'
<1>1. CopyInv' /\ JobInv' /\ ListInv' /\ PublishInv'
  BY DEF RolloutInv, CopyInv, JobInv, ListInv, PublishInv, Listed, InList, Latest
<1>2. ObservedInv' /\ ReadyInv' /\ GoneInv'
  BY DEF RolloutInv, ObservedInv, ReadyInv, GoneInv, Listed, InList, Latest, Defines, Ready
<1>3. ReadyIsPublished' /\ GoneIsUnpublished'
  BY DEF RolloutInv, ReadyIsPublished, GoneIsUnpublished, Defines, Ready
<1> QED BY <1>1, <1>2, <1>3

(* What does not touch a tuple write. Registrations only go on, and models    *)
(* are only added. *)
LEMMA WriterFrame ==
  ASSUME TypeOK, RolloutInv, UNCHANGED writeVars,
         \A t \in Types : /\ pr[t].st # "none" => pr'[t].st # "none"
                          /\ pr[t].st # "none" /\ pr'[t].st = "live" =>
                               pr[t].st = "live" /\ (pr[t].obs # 0 => pr'[t].obs # 0),
         \A i \in 1..Len(models) : models'[i] = models[i],
         ObservedInv'
  PROVE  WriterInv' /\ ReadyIsWritable'
<1>1. wready => wtype \in Types /\ pr[wtype].st # "none" /\ (pr[wtype].st = "live" => pr[wtype].obs # 0)
  BY DEF RolloutInv, WriterInv
<1>2. wready' => wtype' \in Types /\ pr'[wtype].st # "none" /\ (pr'[wtype].st = "live" => pr'[wtype].obs # 0)
  BY <1>1 DEF writeVars
<1>3. /\ wpc = "latest" => wpin # 0 /\ ~wdel /\ ~Defines(wpin, wtype)
      /\ wpc = "refused" => ~Defines(wpin, wtype)
  BY DEF RolloutInv, WriterInv
<1>4. wpin # 0 => wpin \in 1..Len(models)
  BY DEF TypeOK
<1>5. ~Defines(wpin, wtype) => ~Defines(wpin, wtype)'
  BY <1>4 DEF writeVars, Defines
<1>6. WriterInv'
  BY <1>2, <1>3, <1>5 DEF WriterInv, writeVars
<1>7. ReadyIsWritable'
  <2>1. SUFFICES ASSUME wpc' = "refused", wready', pr'[wtype'].st = "live"
                 PROVE  wdel' /\ wpin' \notin {0, cm', Latest'}
    BY DEF ReadyIsWritable
  <2>2. wdel /\ wpin # 0
    BY <1>1, <2>1 DEF RolloutInv, ReadyIsWritable, writeVars
  <2>3. Defines(cm, wtype)' /\ Defines(Latest, wtype)' /\ ~Defines(wpin, wtype)'
    BY <1>2, <1>3, <1>5, <2>1 DEF ObservedInv, writeVars
  <2> QED BY <2>2, <2>3 DEF Defines, writeVars
<1> QED BY <1>6, <1>7

(* A user's change of one registration that goes forward. *)
LEMMA UserStep ==
  ASSUME TypeOK, RolloutInv, NEW t \in Types, Create(t) \/ Edit(t) \/ Delete(t), TypeOK'
  PROVE  RolloutInv'
<1> DEFINE p == pr[t]
           q == pr'[t]
<1>1. /\ UNCHANGED <<cpr, pc, key, snap, list, pub, models, cm, writeVars>>
      /\ \A u \in Types : u # t => pr'[u] = pr[u]
  BY DEF Create, Edit, Delete, users, workVars, storeVars, TypeOK
<1>2. p \in Registration /\ q \in Registration
  BY DEF TypeOK
<1>3. \/ p.st = "none" /\ q.st = "live" /\ q.gen = 1 /\ q.obs = 0
      \/ p.st = "live" /\ q.st = "live" /\ q.gen = p.gen + 1 /\ q.obs = p.obs
      \/ p.st = "live" /\ q.st = "deleting" /\ q.gen = p.gen /\ q.obs = p.obs
      \/ p.st = "live" /\ q.st = "vanished" /\ q.gen = 0 /\ q.obs = 0
  <2>1. CASE Create(t)
    BY <2>1 DEF Create, NoRegistration, TypeOK
  <2>2. CASE Edit(t)
    BY <2>2, <1>2 DEF Edit, TypeOK, Registration
  <2>3. CASE Delete(t)
    BY <2>3, <1>2 DEF Delete, TypeOK, Registration, Vanished, NoRegistration
  <2> QED BY <2>1, <2>2, <2>3
<1>4. p.gen \in Nat /\ p.obs \in Nat /\ q.gen \in Nat /\ q.obs \in Nat
      /\ \A u \in Types : cpr[u].gen \in Nat
  BY <1>2, RegistrationFields DEF TypeOK
<1>5. p.obs <= p.gen /\ Before(cpr[t], p)
  BY DEF RolloutInv, CopyInv
<1> HIDE DEF p, q
<1>6. CopyInv'
  <2>1. Before(cpr[t], q) /\ q.obs <= q.gen /\ (Stored(q) => q.gen # 0)
    <3>1. Stored(p) => p.gen # 0
      BY DEF RolloutInv, CopyInv, p
    <3> QED BY <1>3, <1>4, <1>5, <3>1 DEF Before, Stored
  <2> QED BY <1>1, <2>1 DEF RolloutInv, CopyInv, q
<1>7. JobInv' /\ PublishInv'
  BY <1>1 DEF RolloutInv, JobInv, PublishInv, Latest
<1>8. ListInv'
  <2>1. ASSUME Listed, key # Startup, snap.st = "live", pr'[key].st = "live", pr'[key].gen = snap.gen
        PROVE  <<key, snap.gen>> \in list
    <3>1. CASE key # t
      BY <1>1, <2>1, <3>1 DEF RolloutInv, ListInv, TypeOK, Keys
    <3>2. CASE key = t
      <4>1. /\ Before(snap, cpr[t]) /\ snap.gen \in Nat
            /\ cpr[t].st \in {"none", "live", "deleting", "gone", "vanished"}
        BY <2>1, <3>2, RegistrationFields DEF RolloutInv, JobInv, TypeOK
      <4>2. p.st = "live" /\ q.gen = p.gen + 1 /\ snap.gen <= p.gen
        BY <1>3, <1>4, <1>5, <2>1, <3>2, <4>1 DEF Before, q
      <4> QED BY <1>4, <2>1, <3>2, <4>1, <4>2 DEF q
    <3> QED BY <3>1, <3>2
  <2> QED BY <1>1, <2>1 DEF RolloutInv, ListInv, Listed, InList
<1>9. ObservedInv' /\ ReadyInv' /\ GoneInv'
  BY <1>1, <1>3, <1>4, <1>5 DEF RolloutInv, ObservedInv, ReadyInv, GoneInv, Listed, InList, Latest, Defines, Ready, p, q
<1>10. ReadyIsPublished' /\ GoneIsUnpublished'
  BY <1>1, <1>3, <1>4, <1>5 DEF RolloutInv, ReadyIsPublished, GoneIsUnpublished, Defines, Ready, p, q
<1>11. WriterInv' /\ ReadyIsWritable'
  BY <1>1, <1>3, <1>9, WriterFrame DEF p, q
<1> QED BY <1>6, <1>7, <1>8, <1>9, <1>10, <1>11 DEF RolloutInv

LEMMA SyncStep ==
  ASSUME TypeOK, RolloutInv, NEW t \in Types, SyncCache(t), TypeOK'
  PROVE  RolloutInv'
<1>1. /\ UNCHANGED <<pr, pc, key, snap, list, pub, models, cm, writeVars>>
      /\ cpr'[t] = pr[t] /\ \A u \in Types : u # t => cpr'[u] = cpr[u]
  BY DEF SyncCache, storeVars, TypeOK
<1>2. pr[t].gen \in Nat /\ cpr[t].gen \in Nat /\ snap.gen \in Nat /\ pr[t].obs \in Nat
      /\ pr[t].st \in {"none", "live", "deleting", "gone", "vanished"}
      /\ cpr[t].st \in {"none", "live", "deleting", "gone", "vanished"}
  BY RegistrationFields DEF TypeOK
<1>3. CopyInv'
  BY <1>1, <1>2 DEF RolloutInv, CopyInv, Before
<1>4. JobInv'
  <2>1. ASSUME key = t PROVE Before(snap, pr[t])
    BY <2>1, <1>2, StartupType DEF RolloutInv, CopyInv, JobInv, Before, Stored
  <2> QED BY <1>1, <2>1 DEF RolloutInv, JobInv, TypeOK, Keys
<1>5. ListInv' /\ PublishInv'
  BY <1>1 DEF RolloutInv, ListInv, PublishInv, Listed, InList, Latest
<1>6. ObservedInv' /\ ReadyInv' /\ GoneInv'
  BY <1>1 DEF RolloutInv, ObservedInv, ReadyInv, GoneInv, Listed, InList, Latest, Defines, Ready
<1>7. ReadyIsPublished' /\ GoneIsUnpublished'
  BY <1>1 DEF RolloutInv, ReadyIsPublished, GoneIsUnpublished, Defines, Ready
<1>8. WriterInv' /\ ReadyIsWritable'
  BY <1>1, <1>6, WriterFrame
<1> QED BY <1>3, <1>4, <1>5, <1>6, <1>7, <1>8 DEF RolloutInv

(* A reconcile that ends, and leaves registrations as they are. *)
LEMMA EndStep ==
  ASSUME TypeOK, RolloutInv, UNCHANGED <<pr, cpr, models, cm, writeVars>>,
         pc' = "idle", key' = Startup
  PROVE  RolloutInv'
<1>1. CopyInv' /\ JobInv' /\ ListInv' /\ PublishInv'
  BY DEF RolloutInv, CopyInv, JobInv, ListInv, PublishInv, Listed
<1>2. ObservedInv' /\ ReadyInv' /\ GoneInv'
  BY DEF RolloutInv, ObservedInv, ReadyInv, GoneInv, Listed, Latest, Defines, Ready
<1>3. ReadyIsPublished' /\ GoneIsUnpublished'
  BY DEF RolloutInv, ReadyIsPublished, GoneIsUnpublished, Defines, Ready
<1>4. WriterInv' /\ ReadyIsWritable'
  BY <1>2, WriterFrame
<1> QED BY <1>1, <1>2, <1>3, <1>4 DEF RolloutInv

LEMMA StartStep ==
  ASSUME TypeOK, RolloutInv, StartModel \/ \E t \in Types : Start(t) \/ StartNothing(t)
  PROVE  RolloutInv'
<1>1. UNCHANGED <<pr, cpr, list, pub, models, cm, writeVars>> /\ ~Listed'
      /\ pc' \in {"idle", "add", "rebuild"}
  BY DEF StartModel, Start, StartNothing, rest, storeVars, Listed
<1>2. JobInv'
  <2>1. CASE StartModel
    BY <2>1 DEF StartModel, rest, RolloutInv, JobInv
  <2>2. ASSUME NEW t \in Types, Start(t) PROVE JobInv'
    <3>1. cpr[t].gen \in Nat /\ Stored(cpr[t]) /\ cpr[t].gen # 0
      BY <2>2, RegistrationFields DEF Start, TypeOK, RolloutInv, CopyInv
    <3>2. Before(cpr[t], cpr[t])
      BY <3>1 DEF Before
    <3> QED BY <2>2, <3>1, <3>2, StartupType DEF Start, rest, JobInv
  <2>3. ASSUME NEW t \in Types, StartNothing(t) PROVE JobInv'
    BY <2>3 DEF StartNothing, rest, RolloutInv, JobInv
  <2> QED BY <2>1, <2>2, <2>3
<1>3. CopyInv' /\ ListInv' /\ PublishInv'
  BY <1>1 DEF RolloutInv, CopyInv, ListInv, PublishInv
<1>4. ObservedInv' /\ ReadyInv' /\ GoneInv'
  BY <1>1 DEF RolloutInv, ObservedInv, ReadyInv, GoneInv, Latest, Defines, Ready
<1>5. ReadyIsPublished' /\ GoneIsUnpublished'
  BY <1>1 DEF RolloutInv, ReadyIsPublished, GoneIsUnpublished, Defines, Ready
<1>6. WriterInv' /\ ReadyIsWritable'
  BY <1>1, <1>4, WriterFrame
<1> QED BY <1>2, <1>3, <1>4, <1>5, <1>6 DEF RolloutInv

LEMMA AddFinalizerStep ==
  ASSUME TypeOK, RolloutInv, AddFinalizer PROVE RolloutInv'
<1>1. CASE ~Current
  <2>1. UNCHANGED <<pr, cpr, models, cm, writeVars>> /\ pc' = "idle" /\ key' = Startup
    BY <1>1 DEF AddFinalizer, End, rest, storeVars
  <2> QED BY <2>1, EndStep
<1>2. CASE Current
  <2>1. key \in Types /\ key # Startup
    BY DEF AddFinalizer, RolloutInv, JobInv, TypeOK, Keys
  <2>2. /\ UNCHANGED <<cpr, key, list, pub, models, cm, writeVars>> /\ pc' = "rebuild"
        /\ pr' = [pr EXCEPT ![key].fin = TRUE] /\ snap' = [snap EXCEPT !.fin = TRUE]
    BY <1>2 DEF AddFinalizer, rest, storeVars
  <2>3. /\ \A u \in Types : pr'[u].st = pr[u].st /\ pr'[u].gen = pr[u].gen /\ pr'[u].obs = pr[u].obs
        /\ snap'.st = snap.st /\ snap'.gen = snap.gen
    BY <2>1, <2>2 DEF TypeOK, Registration
  <2> HIDE <1>2
  <2>4. CopyInv' /\ JobInv'
    <3>1. /\ \A t \in Types : Before(cpr'[t], pr'[t])
          /\ key # Startup => Before(snap', cpr'[key])
      BY <2>1, <2>2, <2>3 DEF RolloutInv, CopyInv, JobInv, Before
    <3>2. /\ \A t \in Types : pr'[t].obs <= pr'[t].gen
          /\ \A t \in Types : (Stored(pr'[t]) => pr'[t].gen # 0) /\ (Stored(cpr'[t]) => cpr'[t].gen # 0)
          /\ key # Startup => Stored(snap') /\ snap'.gen # 0
      BY <2>1, <2>2, <2>3 DEF RolloutInv, CopyInv, JobInv, Stored
    <3> QED BY <2>1, <2>2, <3>1, <3>2 DEF CopyInv, JobInv
  <2>5. ListInv' /\ PublishInv'
    BY <2>2 DEF ListInv, PublishInv, Listed
  <2>6. ObservedInv' /\ ReadyInv' /\ GoneInv'
    <3>1. ObservedInv'
      BY <2>2, <2>3 DEF RolloutInv, ObservedInv, Latest, Defines, Listed
    <3>2. ReadyInv'
      BY <2>2, <2>3 DEF RolloutInv, ReadyInv, Ready, Listed
    <3>3. GoneInv'
      BY <2>2, <2>3 DEF RolloutInv, GoneInv, Listed
    <3> QED BY <3>1, <3>2, <3>3
  <2>7. ReadyIsPublished' /\ GoneIsUnpublished'
    BY <2>2, <2>3 DEF RolloutInv, ReadyIsPublished, GoneIsUnpublished, Defines, Ready
  <2>8. WriterInv' /\ ReadyIsWritable'
    BY <2>2, <2>3, <2>6, WriterFrame
  <2> QED BY <2>4, <2>5, <2>6, <2>7, <2>8 DEF RolloutInv
<1> QED BY <1>1, <1>2

(* A cached copy lies between what the worker read and what is stored. *)
LEMMA Between ==
  ASSUME TypeOK, RolloutInv, key # Startup
  PROVE  /\ key \in Types
         /\ snap.st = "live" /\ pr[key].st = "live" =>
              /\ cpr[key].st = "live" /\ snap.gen <= cpr[key].gen /\ cpr[key].gen <= pr[key].gen
         /\ snap.st = "deleting" => cpr[key].st \in {"deleting", "gone"}
<1>1. key \in Types /\ Before(snap, cpr[key]) /\ Before(cpr[key], pr[key])
  BY DEF TypeOK, Keys, RolloutInv, JobInv, CopyInv
<1>2. cpr[key].st \in {"none", "live", "deleting", "gone", "vanished"}
  BY <1>1, RegistrationFields DEF TypeOK
<1> QED BY <1>1, <1>2 DEF Before

LEMMA RebuildStep ==
  ASSUME TypeOK, RolloutInv, Rebuild PROVE RolloutInv'
<1>1. /\ UNCHANGED <<pr, cpr, key, snap, models, cm, writeVars>>
      /\ list' = Active(cpr) /\ pc' \in {"write", "publish"}
      /\ pc' = "publish" => pub' = Latest /\ Latest # 0 /\ models[Latest] = list'
  BY DEF Rebuild, rest, storeVars
<1>2. \A t \in Types : (InList(t)' <=> cpr[t].st = "live")
                        /\ \A g : <<t, g>> \in list' <=> cpr[t].st = "live" /\ g = cpr[t].gen
  <2>1. TAKE t \in Types
  <2>2. \A g : <<t, g>> \in list' <=> cpr[t].st = "live" /\ g = cpr[t].gen
    BY <1>1 DEF Active
  <2>3. ASSUME NEW m \in list' PROVE m = <<m[1], cpr[m[1]].gen>> /\ m[1] \in Types
    BY <1>1, <2>3 DEF Active
  <2>4. (\E m \in list' : m[1] = t) <=> cpr[t].st = "live"
    BY <2>2, <2>3
  <2> QED BY <2>2, <2>4 DEF InList
<1>3. CopyInv' /\ JobInv'
  BY <1>1 DEF RolloutInv, CopyInv, JobInv
<1>4. ListInv'
  <2>1. ASSUME key # Startup, snap.st = "live", pr[key].st = "live", pr[key].gen = snap.gen
        PROVE  <<key, snap.gen>> \in list'
    <3>1. cpr[key].gen = snap.gen
      BY <2>1, Between, RegistrationFields DEF TypeOK
    <3> QED BY <1>2, <2>1, <3>1, Between
  <2>2. ASSUME key # Startup, snap.st = "deleting" PROVE ~InList(key)'
    BY <1>1, <1>2, <2>2, Between DEF InList
  <2> QED BY <1>1, <2>1, <2>2 DEF ListInv, InList
<1>5. PublishInv'
  BY <1>1 DEF PublishInv, Latest
<1>6. ObservedInv' /\ ReadyInv' /\ GoneInv'
  BY <1>1, <1>2 DEF RolloutInv, ObservedInv, ReadyInv, GoneInv, Latest, Defines, Ready
<1>7. ReadyIsPublished' /\ GoneIsUnpublished'
  BY <1>1 DEF RolloutInv, ReadyIsPublished, GoneIsUnpublished, Defines, Ready
<1>8. WriterInv' /\ ReadyIsWritable'
  BY <1>1, <1>6, WriterFrame
<1> QED BY <1>3, <1>4, <1>5, <1>6, <1>7, <1>8 DEF RolloutInv

LEMMA WriteModelStep ==
  ASSUME TypeOK, RolloutInv, WriteModel PROVE RolloutInv'
<1>1. /\ UNCHANGED <<pr, cpr, cm, writeVars>> /\ models' = Append(models, list) /\ pc = "write"
  BY DEF WriteModel, rest
<1>2. /\ Len(models') = Len(models) + 1 /\ models'[Len(models')] = list
      /\ \A i \in 1..Len(models) : models'[i] = models[i]
      /\ Len(models) \in Nat
  BY <1>1, AppendModel DEF TypeOK
<1>3. \/ pc' = "publish" /\ pub' = Latest + 1 /\ UNCHANGED <<key, snap, list>>
      \/ pc' = "idle" /\ key' = Startup
  BY DEF WriteModel, End
<1>4. \A t \in Types : Defines(Latest, t)' <=> InList(t)
  BY <1>2 DEF Defines, Latest, InList
<1>5. \A t \in Types : Defines(cm, t)' <=> Defines(cm, t)
  BY <1>1, <1>2 DEF Defines, TypeOK
<1>6. CopyInv' /\ JobInv'
  BY <1>1, <1>3 DEF RolloutInv, CopyInv, JobInv
<1>7. ListInv'
  BY <1>1, <1>3 DEF RolloutInv, ListInv, Listed, InList
<1>8. PublishInv'
  BY <1>2, <1>3 DEF PublishInv, Latest
<1>9. ObservedInv'
  BY <1>1, <1>3, <1>4, <1>5 DEF RolloutInv, ObservedInv, Listed, InList
<1>10. ReadyInv' /\ GoneInv'
  BY <1>1, <1>3 DEF RolloutInv, ReadyInv, GoneInv, Listed, InList, Ready
<1>11. ReadyIsPublished'
  <2>1. cm # 0 => models'[cm] = models[cm]
    BY <1>2 DEF TypeOK
  <2> QED BY <1>1, <2>1 DEF RolloutInv, ReadyIsPublished, Ready
<1>12. GoneIsUnpublished'
  BY <1>1, <1>5 DEF RolloutInv, GoneIsUnpublished
<1>13. WriterInv' /\ ReadyIsWritable'
  BY <1>1, <1>2, <1>9, WriterFrame
<1> QED BY <1>6, <1>7, <1>8, <1>9, <1>10, <1>11, <1>12, <1>13 DEF RolloutInv

LEMMA PublishStep ==
  ASSUME TypeOK, RolloutInv, Publish PROVE RolloutInv'
<1>1. /\ UNCHANGED <<pr, cpr, models, writeVars>> /\ cm' = pub /\ pc = "publish"
  BY DEF Publish, rest
<1>2. \/ pc' = "finish" /\ key # Startup /\ UNCHANGED <<key, snap, list, pub>>
      \/ pc' = "idle" /\ key' = Startup
  BY DEF Publish, End
<1>3. pub = Latest /\ Latest # 0 /\ models[Latest] = list
  BY <1>1 DEF RolloutInv, PublishInv
<1>4. CopyInv' /\ JobInv' /\ ListInv'
  BY <1>1, <1>2 DEF RolloutInv, CopyInv, JobInv, ListInv, Listed, InList
<1>5. PublishInv'
  BY <1>1, <1>2, <1>3 DEF PublishInv, Latest
<1>6. ObservedInv' /\ ReadyInv' /\ GoneInv'
  BY <1>1, <1>2, <1>3 DEF RolloutInv, ObservedInv, ReadyInv, GoneInv, Listed, InList, Latest, Defines, Ready
<1>7. ReadyIsPublished'
  BY <1>1, <1>3 DEF RolloutInv, ReadyIsPublished, ReadyInv, Ready, Listed
<1>8. GoneIsUnpublished'
  BY <1>1, <1>3 DEF RolloutInv, GoneIsUnpublished, GoneInv, Defines, Listed, InList
<1>9. WriterInv' /\ ReadyIsWritable'
  BY <1>1, <1>6, WriterFrame
<1> QED BY <1>4, <1>5, <1>6, <1>7, <1>8, <1>9 DEF RolloutInv

(* What is marked is in the model that was published for it, and what is      *)
(* released is not. *)
LEMMA FinishStep ==
  ASSUME TypeOK, RolloutInv, Finish PROVE RolloutInv'
<1>1. /\ UNCHANGED <<cpr, models, cm, writeVars>> /\ pc' = "idle" /\ key' = Startup /\ pc = "finish"
  BY DEF Finish, End, rest, storeVars
<1>2. CASE ~Current
  <2>1. pr' = pr
    BY <1>2 DEF Finish
  <2> QED BY <1>1, <2>1, EndStep
<1>3. CASE Current
  <2>1. key # Startup /\ key \in Types
    BY <1>1 DEF RolloutInv, JobInv, TypeOK, Keys
  <2>2. snap = pr[key] /\ Stored(snap) /\ snap.gen # 0 /\ snap \in Registration
    BY <1>3, <2>1 DEF Current, RolloutInv, JobInv, TypeOK
  <2>3. /\ \A u \in Types : u # key => pr'[u] = pr[u]
        /\ snap.st = "live" => /\ pr'[key].st = "live" /\ pr'[key].gen = snap.gen
                               /\ pr'[key].obs = snap.gen
        /\ snap.st # "live" => pr'[key] = Gone
    BY <1>3, <2>1, <2>2 DEF Finish, TypeOK, Registration
  <2>4. Gone.st = "gone" /\ Gone.gen = 0 /\ Gone.obs = 0
    BY DEF Gone, NoRegistration
  <2>5. cm = Latest /\ Latest # 0 /\ models[Latest] = list
    BY <1>1 DEF RolloutInv, PublishInv
  <2>6. snap.st = "live" =>
          cpr[key].st = "live" /\ cpr[key].gen = snap.gen /\ <<key, snap.gen>> \in list
    <3>1. snap.gen \in Nat /\ cpr[key].gen \in Nat
      BY <2>1, <2>2, RegistrationFields DEF TypeOK
    <3> QED BY <1>1, <2>1, <2>2, <3>1, Between DEF RolloutInv, ListInv, Listed
  <2>7. snap.st # "live" => cpr[key].st \in {"deleting", "gone"} /\ ~InList(key) /\ snap.st = "deleting"
    BY <1>1, <2>1, <2>2, Between DEF RolloutInv, ListInv, Listed, Stored
  <2>8. ~Listed'
    BY <1>1 DEF Listed
  <2>9. CopyInv'
    <3>1. /\ Before(cpr[key], pr'[key]) /\ pr'[key].obs <= pr'[key].gen
          /\ Stored(pr'[key]) => pr'[key].gen # 0
      <4>1. snap.gen \in Nat
        BY <2>2, RegistrationFields
      <4>2. CASE snap.st = "live"
        BY <2>2, <2>3, <2>6, <4>1, <4>2 DEF Before
      <4>3. CASE snap.st # "live"
        <5>1. pr[key].st = "deleting" /\ Before(cpr[key], pr[key])
          BY <2>1, <2>2, <2>7, <4>3 DEF RolloutInv, CopyInv
        <5>2. cpr[key].st = "deleting"
          BY <5>1, <2>7, <4>3 DEF Before
        <5> QED BY <2>3, <2>4, <4>3, <5>2 DEF Before, Stored
      <4> QED BY <4>2, <4>3
    <3> QED BY <1>1, <2>1, <2>3, <3>1 DEF RolloutInv, CopyInv
  <2>10. JobInv' /\ ListInv' /\ PublishInv'
    BY <1>1, <2>8 DEF JobInv, ListInv, PublishInv
  <2>11. ObservedInv'
    <3>1. snap.st = "live" => Defines(Latest, key)
      BY <2>5, <2>6 DEF Defines
    <3>2. \A u \in Types : /\ Defines(Latest, u)' = Defines(Latest, u)
                           /\ Defines(cm, u)' = Defines(Latest, u)
      BY <1>1, <2>5 DEF Defines, Latest
    <3> QED BY <1>1, <2>1, <2>3, <2>4, <2>6, <2>8, <3>1, <3>2 DEF RolloutInv, ObservedInv
  <2>12. ReadyInv' /\ GoneInv'
    BY <1>1, <2>1, <2>3, <2>4, <2>6, <2>7, <2>8 DEF RolloutInv, ReadyInv, GoneInv, Ready
  <2>13. ReadyIsPublished'
    BY <1>1, <2>1, <2>3, <2>4, <2>5, <2>6 DEF RolloutInv, ReadyIsPublished, Ready
  <2>14. GoneIsUnpublished'
    <3>1. snap.st # "live" => ~Defines(cm, key)
      BY <2>5, <2>7 DEF Defines, InList
    <3>2. \A u \in Types : Defines(cm, u)' = Defines(cm, u)
      BY <1>1 DEF Defines
    <3> QED BY <1>1, <2>1, <2>3, <2>4, <3>1, <3>2 DEF RolloutInv, GoneIsUnpublished
  <2>15. WriterInv' /\ ReadyIsWritable'
    <3>1. \A t \in Types : /\ pr[t].st # "none" => pr'[t].st # "none"
                           /\ pr[t].st # "none" /\ pr'[t].st = "live" =>
                                pr[t].st = "live" /\ (pr[t].obs # 0 => pr'[t].obs # 0)
      BY <2>2, <2>3, <2>4
    <3>2. UNCHANGED writeVars /\ \A i \in 1..Len(models) : models'[i] = models[i]
      BY <1>1
    <3> QED BY <2>11, <3>1, <3>2, WriterFrame
  <2> QED BY <2>9, <2>10, <2>11, <2>12, <2>13, <2>14, <2>15 DEF RolloutInv
<1> QED BY <1>2, <1>3

LEMMA RestartStep ==
  ASSUME TypeOK, RolloutInv, Restart PROVE RolloutInv'
<1>1. /\ UNCHANGED <<pr, models, cm>> /\ cpr' = pr /\ pc' = "idle" /\ key' = Startup
      /\ wpc' = "idle" /\ wready' = FALSE
  BY DEF Restart, WEnd, storeVars
<1>2. ~Listed'
  BY <1>1 DEF Listed
<1>3. CopyInv'
  <2>1. \A t \in Types : Before(pr[t], pr[t])
    BY RegistrationFields DEF TypeOK, Before
  <2> QED BY <1>1, <2>1 DEF RolloutInv, CopyInv
<1>4. JobInv' /\ ListInv' /\ PublishInv' /\ WriterInv' /\ ReadyIsWritable'
  BY <1>1, <1>2 DEF JobInv, ListInv, PublishInv, WriterInv, ReadyIsWritable
<1>5. ObservedInv' /\ ReadyInv' /\ GoneInv'
  BY <1>1, <1>2 DEF RolloutInv, ObservedInv, ReadyInv, GoneInv, Latest, Defines, Ready
<1>6. ReadyIsPublished' /\ GoneIsUnpublished'
  BY <1>1 DEF RolloutInv, ReadyIsPublished, GoneIsUnpublished, Defines, Ready
<1> QED BY <1>3, <1>4, <1>5, <1>6 DEF RolloutInv

(* The watcher's steps change nothing a registration depends on. *)
LEMMA WatchStep ==
  ASSUME TypeOK, RolloutInv, HandleConfigMap \/ Resync PROVE RolloutInv'
<1>1. UNCHANGED <<pr, cpr, pc, key, snap, list, pub, models, cm, writeVars>>
  BY DEF HandleConfigMap, Resync, prVars, workVars, storeVars
<1>2. WriterInv' /\ ReadyIsWritable'
  BY <1>1, Frame, WriterFrame
<1> QED BY <1>1, <1>2, Frame DEF RolloutInv

(* A write of a type that was Ready meets a latest model with that type. *)
LEMMA WriteStep ==
  ASSUME TypeOK, RolloutInv, (\E t \in Written : WStart(t)) \/ Write PROVE RolloutInv'
<1>1. UNCHANGED <<pr, cpr, pc, key, snap, list, pub, models, cm>>
  BY DEF Write, WStart, WWrite, WReadLatest, WCheckID, SetModelID, WRefused, wrest,
         prVars, workVars, storeVars
<1>2. wready /\ pr[wtype].st = "live" => Defines(cm, wtype) /\ Defines(Latest, wtype)
  BY DEF RolloutInv, WriterInv, ObservedInv
<1>3. WriterInv' /\ ReadyIsWritable'
  <2>1. ASSUME NEW t \in Written, WStart(t) PROVE WriterInv' /\ ReadyIsWritable'
    <3>1. t \in Types /\ wtype' = t /\ wready' = Ready(t) /\ wpc' = "write"
      BY <2>1, WrittenType DEF WStart
    <3>2. Ready(t) => pr[t].st = "live" /\ pr[t].obs # 0
      BY <3>1 DEF Ready, RolloutInv, CopyInv, Stored
    <3> QED BY <1>1, <3>1, <3>2 DEF WriterInv, ReadyIsWritable
  <2>2. ASSUME WEnd PROVE WriterInv' /\ ReadyIsWritable'
    BY <2>2 DEF WEnd, WriterInv, ReadyIsWritable
  <2>3. CASE WWrite /\ ~WEnd
    <3>1. /\ UNCHANGED <<wtype, wpin, wready, wdel>>
          /\ ~Defines(IF wpin = 0 THEN Latest ELSE wpin, wtype)
          /\ wpc' = IF wpin # 0 /\ ~wdel THEN "latest" ELSE "refused"
      BY <2>3 DEF WWrite
    <3>2. ~Defines(wpin, wtype)
      BY <3>1 DEF Defines
    <3>3. WriterInv'
      BY <1>1, <3>1, <3>2 DEF RolloutInv, WriterInv, Defines
    <3>4. wready /\ pr[wtype].st = "live" /\ wpc' = "refused" => wdel /\ wpin \notin {0, cm, Latest}
      BY <1>2, <3>1, <3>2
    <3> QED BY <1>1, <3>1, <3>3, <3>4 DEF ReadyIsWritable, Latest
  <2>4. CASE WReadLatest
    <3>1. wpin # 0 /\ ~Defines(wpin, wtype) /\ UNCHANGED <<wtype, wpin, wready, wdel>>
          /\ wpc' = IF Latest # wpin /\ Defines(Latest, wtype) THEN "check" ELSE "refused"
      BY <2>4 DEF WReadLatest, RolloutInv, WriterInv
    <3>2. wready /\ wpc' = "refused" => pr[wtype].st # "live"
      BY <1>2, <3>1
    <3> QED BY <1>1, <3>1, <3>2 DEF RolloutInv, WriterInv, ReadyIsWritable, Defines
  <2>5. CASE WCheckID /\ ~WEnd
    BY <1>1, <2>5 DEF WCheckID, RolloutInv, WriterInv, ReadyIsWritable
  <2>6. SetModelID \/ WRefused => WEnd
    BY DEF SetModelID, WRefused
  <2> QED BY <2>1, <2>2, <2>3, <2>4, <2>5, <2>6 DEF Write
<1> QED BY <1>1, <1>3, Frame DEF RolloutInv

LEMMA InvStep ==
  ASSUME TypeOK, RolloutInv, [Next]_vars, TypeOK' PROVE RolloutInv'
<1>1. CASE SkipObserved \/ Fail
  <2>1. UNCHANGED <<pr, cpr, models, cm, writeVars>> /\ pc' = "idle" /\ key' = Startup
    BY <1>1 DEF SkipObserved, Fail, End, rest, storeVars
  <2> QED BY <2>1, EndStep
<1>2. CASE UNCHANGED vars
  <2>1. UNCHANGED <<pr, cpr, pc, key, snap, list, pub, models, cm, writeVars>>
    BY <1>2 DEF vars, prVars, workVars, storeVars
  <2> QED BY <2>1, Frame, WriterFrame DEF RolloutInv
<1> QED
  BY <1>1, <1>2, UserStep, SyncStep, StartStep, AddFinalizerStep, RebuildStep, WriteModelStep,
     PublishStep, FinishStep, RestartStep, WatchStep, WriteStep DEF Next, Work

-----------------------------------------------------------------------------
(* The theorems.                                                            *)

LEMMA InitInv == Init => TypeOK /\ RolloutInv
<1> SUFFICES ASSUME Init PROVE TypeOK /\ RolloutInv
  OBVIOUS
<1>1. NoRegistration.st = "none" /\ NoRegistration.gen = 0 /\ NoRegistration.obs = 0
  BY DEF NoRegistration
<1>2. TypeOK
  <2>1. Len(models) = 0 /\ models \in Seq(Models) /\ events \in Seq(1..Len(models)) /\ list \in Models
    BY DEF Init, Models
  <2>2. 0 \in 0..Len(models) /\ 0 \in 0..MaxFaults
    BY <2>1, BoundTypes
  <2> QED BY <2>1, <2>2, RegistrationConstants DEF Init, TypeOK, Keys
<1>3. \A t \in Types : pr[t] = NoRegistration /\ cpr[t] = NoRegistration
  BY DEF Init
<1>4. pc = "idle" /\ key = Startup /\ ~Listed /\ wpc = "idle" /\ ~wready
  BY DEF Init, Listed
<1>5. CopyInv
  BY <1>1, <1>3 DEF CopyInv, Before, Stored
<1> QED
  BY <1>1, <1>2, <1>3, <1>4, <1>5 DEF RolloutInv, JobInv, ListInv, PublishInv, ObservedInv, ReadyInv,
     GoneInv, WriterInv, ReadyIsPublished, GoneIsUnpublished, ReadyIsWritable, Ready

(* The variables keep their types, and the worker, the watcher and a writer   *)
(* hold IDs of models that exist, through lost answers, conflicts and         *)
(* restarts (ReconcileAuthorizationModel). *)
THEOREM TypeCorrect == Spec => []TypeOK
<1>1. TypeOK /\ RolloutInv /\ [Next]_vars => (TypeOK /\ RolloutInv)'
  BY TypeStep, InvStep
<1> QED BY <1>1, InitInv, PTL DEF Spec

(* What the rollout rests on, in every reachable state: copies are between    *)
(* what the worker read and what is stored, and the latest model, the next    *)
(* one and the published one have what was marked and lack what was released  *)
(* (rebuildAuthorizationModel, reconcileProtectedResource, Finalize). *)
THEOREM RolloutInvariant == Spec => []RolloutInv
<1>1. TypeOK /\ RolloutInv /\ [Next]_vars => (TypeOK /\ RolloutInv)'
  BY TypeStep, InvStep
<1> QED BY <1>1, InitInv, PTL DEF Spec

(* A registration that reads Ready is in the published model, in that very    *)
(* generation, for any number of types, edits and faults                      *)
(* (reconcileProtectedResource, writeModelIDToConfigMap). *)
THEOREM ReadyPublished == Spec => []ReadyIsPublished
<1>1. RolloutInv => ReadyIsPublished
  BY DEF RolloutInv
<1> QED BY <1>1, RolloutInvariant, PTL

(* A registration leaves storage only once the published model is without it, *)
(* and no later model brings it back (ProtectedResourceFinalizer.Finalize). *)
THEOREM GoneUnpublished == Spec => []GoneIsUnpublished
<1>1. RolloutInv => GoneIsUnpublished
  BY DEF RolloutInv
<1> QED BY <1>1, RolloutInvariant, PTL

(* Additions on a type that was Ready when the write began are refused only   *)
(* if the type has been deleted since. A write that removes tuples as well    *)
(* may be refused for its ID too, but only for one that is neither published  *)
(* nor the latest (writeWithModelTransitionRetry, mayBeModelTransition). *)
THEOREM ReadyWritable == Spec => []ReadyIsWritable
<1>1. RolloutInv => ReadyIsWritable
  BY DEF RolloutInv
<1> QED BY <1>1, RolloutInvariant, PTL

=============================================================================
