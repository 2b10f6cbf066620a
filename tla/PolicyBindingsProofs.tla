------------------------ MODULE PolicyBindingsProofs ------------------------
(***************************************************************************)
(* TLAPS proofs about PolicyBindings, for all bindings, Roles, subjects and *)
(* permissions and every number of changes, faults and restarts: types from *)
(* any start, and, from a settled start while things are only taken away,   *)
(* that no tuple is left behind and none that is asked for is lost.         *)
(***************************************************************************)
EXTENDS MCBindings, TLAPS

-----------------------------------------------------------------------------
(* Types.                                                                   *)

LEMMA BindingTypes ==
  NoBinding \in Binding /\ Gone \in Binding
  BY DEF NoBinding, Gone, Binding

LEMMA BindingFields ==
  ASSUME NEW x \in Binding
  PROVE  x.st \in {"none", "live", "deleting", "gone"} /\ x.fin \in BOOLEAN /\ x.subs \in SUBSET Subjects
  BY DEF Binding

LEMMA RoleFields ==
  ASSUME NEW r \in Role PROVE r.there \in BOOLEAN /\ r.perms \in SUBSET Perms
  BY DEF Role

LEMMA GrantType ==
  ASSUME NEW subs \in SUBSET Subjects, NEW perms \in SUBSET Perms, NEW ok
  PROVE  Grant(subs, perms, ok) \in SUBSET Tuples
  BY DEF Grant, Enabled, Tuples

LEMMA ValidType ==
  ASSUME NEW own \in Role, NEW below \in SUBSET Children
  PROVE  validPerms(own, below) \in SUBSET Perms
  BY RoleFields, PermsType DEF validPerms, Enabled

LEMMA AnsweredType ==
  ASSUME TypeOK, NEW ack \in BOOLEAN, Answered(ack) PROVE faults' \in 0..MaxFaults
  BY BoundTypes DEF TypeOK, Answered

(* What a worker keeps has its type. *)
WorkType ==
  /\ queue \subseteq Bindings
  /\ pc \in [Bindings -> Pc] /\ job \in [Bindings -> Binding]
  /\ valid \in [Bindings -> SUBSET Perms]
  /\ want \in [Bindings -> SUBSET Tuples] /\ have \in [Bindings -> SUBSET Tuples]
  /\ sibs \in [Bindings -> SUBSET (Bindings \X SUBSET Subjects)]
  /\ keep \in [Bindings -> SUBSET Tuples]

LEMMA EndType ==
  ASSUME TypeOK, NEW b \in Bindings, NEW again, End(b, again) PROVE WorkType'
<1>1. pc' \in [Bindings -> Pc]
  BY DEF End, Goto, Pc, TypeOK
<1> QED BY <1>1, BindingTypes DEF End, TypeOK, WorkType

LEMMA GotoType ==
  ASSUME TypeOK, NEW b \in Bindings, NEW p \in Pc, Goto(b, p), UNCHANGED <<queue, snapVars>>
  PROVE  WorkType'
  BY DEF Goto, TypeOK, WorkType, snapVars

LEMMA Places ==
  /\ Pc = {"idle", "validate", "valid", "role", "read", "diff", "list", "spare", "write",
           "deleteRead", "deleteList", "deleteSpare", "deleteWrite", "unbind",
           "revokeRead", "revokeList", "revokeSpare", "revokeWrite",
           "retractRead", "retractList", "retractSpare", "retractWrite"}
  BY DEF Pc, Writing, Deleting, Revoking, Retracting

(* A step of a worker that leaves the caches alone. *)
LEMMA WorkerType ==
  ASSUME TypeOK, UNCHANGED bRest, WorkType', bind' \in [Bindings -> Binding],
         tuples' \subseteq Tuples, faults' \in 0..MaxFaults
  PROVE  TypeOK'
  BY DEF TypeOK, WorkType, bRest, cacheVars

LEMMA EditsType ==
  ASSUME NEW old PROVE Edits(old) \subseteq Role
  BY DEF Edits

LEMMA UsersType ==
  ASSUME TypeOK, UNCHANGED users, changes' \in 0..MaxChanges,
         bind' \in [Bindings -> Binding], role' \in [Roles -> Role], reg' \in Role, others' \subseteq Children
  PROVE  TypeOK'
  BY DEF TypeOK, users, cacheVars, workVars, snapVars

LEMMA UserTypes ==
  ASSUME TypeOK,
         \/ \E b \in Bindings : CreateBinding(b) \/ DeleteBinding(b) \/ EditSubjects(b)
         \/ \E r \in Roles : EditRole(r)
         \/ EditRegistration \/ EditChildren
  PROVE  TypeOK'
<1>0. changes < MaxChanges /\ changes' = changes + 1 => changes' \in 0..MaxChanges
  BY BoundTypes DEF TypeOK
<1>1. ASSUME NEW b \in Bindings, CreateBinding(b) PROVE TypeOK'
  <2>1. [st |-> "live", fin |-> FALSE, subs |-> SubjectsOf[b]] \in Binding
    BY SubjectsOfType DEF Binding
  <2> QED BY <1>1, <2>1, UsersType DEF CreateBinding, TypeOK
<1>2. ASSUME NEW b \in Bindings, DeleteBinding(b) PROVE TypeOK'
  <2>0. bind[b] \in Binding
    BY DEF TypeOK
  <2>1. [bind[b] EXCEPT !.st = "deleting"] \in Binding
    BY <2>0 DEF Binding
  <2>2. bind' \in [Bindings -> Binding]
    BY <1>2, <2>1, BindingTypes DEF DeleteBinding, TypeOK
  <2> QED BY <1>2, <2>2, UsersType DEF DeleteBinding, TypeOK
<1>3. ASSUME NEW b \in Bindings, EditSubjects(b) PROVE TypeOK'
  <2>1. PICK s \in SUBSET Subjects : bind' = [bind EXCEPT ![b] = [@ EXCEPT !.subs = s]]
    BY <1>3 DEF EditSubjects
  <2>0. bind[b] \in Binding
    BY DEF TypeOK
  <2>2. [bind[b] EXCEPT !.subs = s] \in Binding
    BY <2>0 DEF Binding
  <2>3. bind' \in [Bindings -> Binding]
    BY <2>1, <2>2 DEF TypeOK
  <2> QED BY <1>0, <1>3, <2>3, UsersType DEF EditSubjects, TypeOK
<1>4. ASSUME NEW r \in Roles, EditRole(r) PROVE TypeOK'
  <2>1. role' \in [Roles -> Role]
    BY <1>4, EditsType DEF EditRole, TypeOK
  <2> QED BY <1>0, <1>4, <2>1, UsersType DEF EditRole, TypeOK
<1>5. CASE EditRegistration
  BY <1>0, <1>5, EditsType, UsersType DEF EditRegistration, TypeOK
<1>6. CASE EditChildren
  <2>1. others' \subseteq Children
    BY <1>6 DEF EditChildren, TypeOK
  <2> QED BY <1>0, <1>6, <2>1, UsersType DEF EditChildren, TypeOK
<1> QED BY <1>1, <1>2, <1>3, <1>4, <1>5, <1>6

LEMMA InformerTypes ==
  ASSUME TypeOK,
         \/ \E b \in Bindings : SyncBinding(b) \/ NotifyBinding(b)
         \/ \E r \in Roles : SyncRole(r) \/ NotifyRole(r)
         \/ SyncRegistration \/ NotifyRegistration \/ SyncChildren
  PROVE  TypeOK'
<1> USE DEF TypeOK, storedVars, workVars, snapVars
<1>1. ASSUME NEW b \in Bindings, SyncBinding(b) PROVE TypeOK'
  BY <1>1 DEF SyncBinding
<1>2. ASSUME NEW b \in Bindings, NotifyBinding(b) PROVE TypeOK'
  BY <1>2 DEF NotifyBinding
<1>3. ASSUME NEW r \in Roles, SyncRole(r) PROVE TypeOK'
  BY <1>3 DEF SyncRole
<1>4. ASSUME NEW r \in Roles, NotifyRole(r) PROVE TypeOK'
  BY <1>4 DEF NotifyRole
<1>5. CASE SyncRegistration
  BY <1>5 DEF SyncRegistration
<1>6. CASE NotifyRegistration
  BY <1>6 DEF NotifyRegistration
<1>7. CASE SyncChildren
  <2>1. nreg' \in BOOLEAN
    BY <1>7 DEF SyncChildren
  <2> QED BY <1>7, <2>1 DEF SyncChildren
<1> QED BY <1>1, <1>2, <1>3, <1>4, <1>5, <1>6, <1>7

LEMMA BStepTypes ==
  ASSUME TypeOK, NEW b \in Bindings, BStep(b) \/ Fail(b) PROVE TypeOK'
<1>0. /\ bind \in [Bindings -> Binding] /\ tuples \subseteq Tuples /\ faults \in 0..MaxFaults
      /\ job[b] \in Binding /\ cbind[b] \in Binding /\ crole[RoleOf[b]] \in Role
  BY RoleOfType DEF TypeOK
<1>1. existing(b) \subseteq Tuples
  BY <1>0 DEF existing
<1>2. Siblings(b) \in SUBSET (Bindings \X SUBSET Subjects)
  BY BindingFields DEF Siblings, TypeOK
<1>3. SiblingTuples(b) \in SUBSET Tuples
  <2>1. ASSUME NEW s \in sibs[b] PROVE Grant(s[2], crole[RoleOf[s[1]]].perms, valid[b]) \in SUBSET Tuples
    <3>1. s[1] \in Bindings /\ s[2] \in SUBSET Subjects
      BY <2>1 DEF TypeOK
    <3>2. crole[RoleOf[s[1]]].perms \in SUBSET Perms
      BY <3>1, RoleOfType, RoleFields DEF TypeOK
    <3> QED BY <3>1, <3>2, GrantType
  <2> QED BY <2>1 DEF SiblingTuples
<1>4. validPerms(creg, cothers) \in SUBSET Perms
  BY ValidType DEF TypeOK
<1>5. CASE Start(b)
  <2>1. pc' \in [Bindings -> Pc] /\ job' \in [Bindings -> Binding]
    BY <1>0, <1>5, Places DEF Start, Goto, TypeOK
  <2>2. [bind[b] EXCEPT !.fin = TRUE] \in Binding
    BY <1>0 DEF Binding
  <2>3. bind' \in [Bindings -> Binding]
    BY <1>0, <1>5, <2>2 DEF Start
  <2>4. WorkType'
    BY <1>5, <2>1 DEF Start, TypeOK, WorkType
  <2> QED BY <1>5, <1>0, <2>3, <2>4, WorkerType DEF Start
<1>6. CASE Validate(b)
  <2>1. WorkType'
    BY <1>6, Places, GotoType, EndType DEF Validate
  <2> QED BY <1>6, <1>0, <2>1, WorkerType DEF Validate
<1>7. CASE ValidPerms(b)
  <2>1. WorkType'
    BY <1>7, <1>4, Places DEF ValidPerms, Goto, TypeOK, WorkType
  <2> QED BY <1>7, <1>0, <2>1, WorkerType DEF ValidPerms
<1>8. CASE FetchRole(b)
  <2>1. Grant(job[b].subs, crole[RoleOf[b]].perms, valid[b]) \in SUBSET Tuples
    BY <1>0, BindingFields, RoleFields, GrantType
  <2>2. WorkType'
    <3>1. CASE want' = [want EXCEPT ![b] = Grant(job[b].subs, crole[RoleOf[b]].perms, valid[b])]
               /\ Goto(b, "read") /\ UNCHANGED <<queue, job, valid, have, sibs, keep>>
      BY <2>1, <3>1, Places DEF Goto, TypeOK, WorkType
    <3> QED BY <1>8, <3>1, Places, GotoType, EndType DEF FetchRole
  <2> QED BY <1>8, <1>0, <2>2, WorkerType DEF FetchRole
<1>9. CASE ReadExisting(b)
  <2>1. WorkType'
    BY <1>9, <1>1, Places DEF ReadExisting, Goto, TypeOK, WorkType
  <2> QED BY <1>9, <1>0, <2>1, WorkerType DEF ReadExisting
<1>10. CASE DiffTuples(b)
  <2>1. WorkType'
    BY <1>10, Places, GotoType, EndType DEF DiffTuples
  <2> QED BY <1>10, <1>0, <2>1, WorkerType DEF DiffTuples
<1>11. CASE ListSiblings(b)
  <2>1. WorkType'
    BY <1>11, <1>2, Places DEF ListSiblings, Goto, TypeOK, WorkType
  <2> QED BY <1>11, <1>0, <2>1, WorkerType DEF ListSiblings
<1>12. CASE SpareSiblings(b)
  <2>1. pc' \in [Bindings -> Pc]
    BY <1>12, Places DEF SpareSiblings, Goto, TypeOK
  <2>2. WorkType'
    BY <1>12, <1>3, <2>1 DEF SpareSiblings, TypeOK, WorkType
  <2> QED BY <1>12, <1>0, <2>2, WorkerType DEF SpareSiblings
<1>13. CASE Write(b)
  <2>1. tuples' \subseteq Tuples
    BY <1>13 DEF Write, added, removed, TypeOK
  <2>2. WorkType' /\ faults' \in 0..MaxFaults
    BY <1>13, EndType, AnsweredType DEF Write
  <2> QED BY <1>13, <1>0, <2>1, <2>2, WorkerType DEF Write
<1>14. CASE DeleteRead(b)
  <2>1. WorkType'
    <3>1. CASE have' = [have EXCEPT ![b] = existing(b)]
      <4>1. pc' \in [Bindings -> Pc] \/ WorkType'
        BY <1>14, Places, EndType, GotoType DEF DeleteRead, Goto, TypeOK
      <4>2. (UNCHANGED <<queue, job, valid, want, sibs, keep>>) \/ WorkType'
        BY <1>14, Places, EndType, GotoType DEF DeleteRead
      <4> QED BY <1>1, <3>1, <4>1, <4>2 DEF TypeOK, WorkType
    <3> QED BY <1>14, <3>1, Places, GotoType, EndType DEF DeleteRead
  <2> QED BY <1>14, <1>0, <2>1, WorkerType DEF DeleteRead
<1>15. CASE DeleteList(b)
  <2>1. pc' \in [Bindings -> Pc]
    BY <1>15, Places DEF DeleteList, Goto, TypeOK
  <2>2. WorkType'
    BY <1>15, <1>2, <1>4, <2>1 DEF DeleteList, TypeOK, WorkType
  <2> QED BY <1>15, <1>0, <2>2, WorkerType DEF DeleteList
<1>16. CASE DeleteWrite(b)
  <2>1. WorkType' /\ faults' \in 0..MaxFaults
    BY <1>16, Places, GotoType, EndType, AnsweredType DEF DeleteWrite
  <2>2. tuples' \subseteq Tuples
    BY <1>0, <1>16 DEF DeleteWrite, Deleted
  <2> QED BY <1>16, <1>0, <2>1, <2>2, WorkerType DEF DeleteWrite
<1>17. CASE RevokeWrite(b)
  <2>1. WorkType' /\ faults' \in 0..MaxFaults
    BY <1>17, EndType, AnsweredType DEF RevokeWrite
  <2>2. tuples' \subseteq Tuples
    BY <1>0, <1>17 DEF RevokeWrite, Deleted
  <2> QED BY <1>17, <1>0, <2>1, <2>2, WorkerType DEF RevokeWrite
<1>18. CASE Unbind(b)
  <2>1. WorkType'
    BY <1>18, EndType DEF Unbind
  <2>2. bind' \in [Bindings -> Binding]
    BY <1>0, <1>18, BindingTypes DEF Unbind
  <2> QED BY <1>18, <1>0, <2>1, <2>2, WorkerType DEF Unbind
<1>19. CASE Fail(b)
  <2>1. WorkType'
    BY <1>19, EndType DEF Fail
  <2>2. faults' \in 0..MaxFaults
    BY <1>0, <1>19, BoundTypes DEF Fail
  <2> QED BY <1>19, <1>0, <2>1, <2>2, WorkerType DEF Fail
<1> QED
  BY <1>5, <1>6, <1>7, <1>8, <1>9, <1>10, <1>11, <1>12, <1>13, <1>14, <1>15, <1>16, <1>17, <1>18, <1>19
  DEF BStep

LEMMA TypeStep == TypeOK /\ [Next]_vars => TypeOK'
<1> SUFFICES ASSUME TypeOK, [Next]_vars PROVE TypeOK'
  OBVIOUS
<1>1. CASE Restart
  <2>1. faults' \in 0..MaxFaults
    BY <1>1, BoundTypes DEF Restart, TypeOK
  <2> QED BY <1>1, <2>1, Places, BindingTypes, FlagTypes DEF Restart, TypeOK
<1>2. CASE UNCHANGED vars
  BY <1>2 DEF vars, storedVars, cacheVars, workVars, snapVars, TypeOK
<1> QED BY <1>1, <1>2, UserTypes, InformerTypes, BStepTypes DEF Next

-----------------------------------------------------------------------------
(* What each step of b's worker does, to b and to the others.               *)

(* Nobody else's worker and binding, and no cache. *)
OthersStay(b) ==
  /\ UNCHANGED <<flag, role, reg, others, cbind, crole, creg, cothers>>
  /\ \A c \in Bindings : c # b =>
       /\ bind'[c] = bind[c] /\ pc'[c] = pc[c] /\ job'[c] = job[c] /\ valid'[c] = valid[c]
       /\ want'[c] = want[c] /\ have'[c] = have[c] /\ sibs'[c] = sibs[c] /\ keep'[c] = keep[c]

SnapStays(b) ==
  /\ job'[b] = job[b] /\ valid'[b] = valid[b] /\ want'[b] = want[b]
  /\ have'[b] = have[b] /\ sibs'[b] = sibs[b] /\ keep'[b] = keep[b]

Ended(b) ==
  pc'[b] = "idle" /\ job'[b] = NoBinding /\ want'[b] = {} /\ have'[b] = {}

(* The moves that change nothing else, with what the worker has found. *)
Moved(b, from, to) ==
  \/ from = "validate" /\ to = "valid"
  \/ from = "validate" /\ to = "revokeRead" /\ ~creg.there
  \/ from = "role" /\ to = "retractRead" /\ ~crole[RoleOf[b]].there
  \/ from = "diff" /\ to = "list"
  \/ from = "diff" /\ to = "write" /\ removed(b) = {}
  \/ from = "deleteRead" /\ to = "unbind" /\ existing(b) = {}

(* The steps after which b's worker knows more. *)
Learned(b) ==
  \/ /\ pc[b] = "valid" /\ pc'[b] = "role" /\ valid'[b] = validPerms(creg, cothers)
     /\ job'[b] = job[b] /\ want'[b] = want[b] /\ have'[b] = have[b]
  \/ /\ pc[b] = "role" /\ pc'[b] = "read" /\ crole[RoleOf[b]].there
     /\ want'[b] = Grant(job[b].subs, crole[RoleOf[b]].perms, valid[b])
     /\ job'[b] = job[b] /\ valid'[b] = valid[b] /\ have'[b] = have[b]
  \/ /\ <<pc[b], pc'[b]>> \in {<<"read", "diff">>, <<"deleteRead", "deleteList">>,
                              <<"revokeRead", "revokeList">>, <<"retractRead", "retractList">>}
     /\ have'[b] = existing(b)
     /\ job'[b] = job[b] /\ valid'[b] = valid[b] /\ want'[b] = want[b]
  \/ /\ \/ pc[b] = "list" /\ pc'[b] = "spare" /\ valid'[b] = valid[b]
        \/ /\ <<pc[b], pc'[b]>> \in {<<"deleteList", "deleteSpare">>, <<"revokeList", "revokeSpare">>,
                                    <<"retractList", "retractSpare">>}
           /\ valid'[b] = validPerms(creg, cothers)
     /\ sibs'[b] = Siblings(b)
     /\ job'[b] = job[b] /\ want'[b] = want[b] /\ have'[b] = have[b]
  \/ /\ <<pc[b], pc'[b]>> \in {<<"spare", "write">>, <<"deleteSpare", "deleteWrite">>,
                              <<"revokeSpare", "revokeWrite">>, <<"retractSpare", "retractWrite">>}
     /\ keep'[b] = SiblingTuples(b)
     /\ job'[b] = job[b] /\ want'[b] = want[b] /\ have'[b] = have[b]

LEMMA EndFrame ==
  ASSUME TypeOK, NEW b \in Bindings, NEW again, End(b, again), UNCHANGED bRest,
         \A c \in Bindings : c # b => bind'[c] = bind[c]
  PROVE  OthersStay(b) /\ Ended(b)
<1>1. OthersStay(b)
  BY DEF End, Goto, TypeOK, OthersStay, bRest, cacheVars
<1>2. Ended(b)
  BY DEF End, Goto, TypeOK, Ended
<1> QED BY <1>1, <1>2

LEMMA MoveFrame ==
  ASSUME TypeOK, NEW b \in Bindings, NEW p, Goto(b, p), UNCHANGED bRest, UNCHANGED snapVars,
         \A c \in Bindings : c # b => bind'[c] = bind[c]
  PROVE  OthersStay(b) /\ SnapStays(b) /\ pc'[b] = p
  BY DEF Goto, TypeOK, OthersStay, SnapStays, bRest, cacheVars, snapVars

(* Every step of a worker is one of these. *)
LEMMA WorkerStep ==
  ASSUME TypeOK, NEW b \in Bindings, BStep(b) \/ Fail(b)
  PROVE  /\ OthersStay(b)
         /\ \/ /\ pc'[b] = pc[b] /\ SnapStays(b) /\ tuples' = tuples
               /\ bind'[b].st = bind[b].st /\ bind'[b].subs = bind[b].subs /\ (bind[b].fin => bind'[b].fin)
            \/ /\ pc[b] = "idle" /\ cbind[b].fin /\ job'[b] = cbind[b]
               /\ pc'[b] = IF cbind[b].st = "live" THEN "validate" ELSE "deleteRead"
               /\ want'[b] = want[b] /\ have'[b] = have[b] /\ UNCHANGED <<bind, tuples>>
            \/ Ended(b) /\ UNCHANGED <<bind, tuples>>
            \/ Moved(b, pc[b], pc'[b]) /\ SnapStays(b) /\ UNCHANGED <<bind, tuples>>
            \/ Learned(b) /\ UNCHANGED <<bind, tuples>>
            \/ /\ pc[b] = "write" /\ Ended(b) /\ bind' = bind
               /\ tuples' = (tuples \ (removed(b) \ keep[b])) \cup added(b)
            \/ /\ pc[b] \in {"deleteWrite", "revokeWrite", "retractWrite"} /\ Ended(b)
               /\ bind' = bind /\ tuples' = Deleted(b)
            \/ /\ pc[b] = "deleteWrite" /\ pc'[b] = "unbind" /\ SnapStays(b)
               /\ bind' = bind /\ tuples' = Deleted(b)
            \/ /\ pc[b] = "unbind" /\ Ended(b) /\ tuples' = tuples
               /\ bind'[b] = Gone
<1> DEFINE Goal ==
         /\ OthersStay(b)
         /\ \/ /\ pc'[b] = pc[b] /\ SnapStays(b) /\ tuples' = tuples
               /\ bind'[b].st = bind[b].st /\ bind'[b].subs = bind[b].subs /\ (bind[b].fin => bind'[b].fin)
            \/ /\ pc[b] = "idle" /\ cbind[b].fin /\ job'[b] = cbind[b]
               /\ pc'[b] = IF cbind[b].st = "live" THEN "validate" ELSE "deleteRead"
               /\ want'[b] = want[b] /\ have'[b] = have[b] /\ UNCHANGED <<bind, tuples>>
            \/ Ended(b) /\ UNCHANGED <<bind, tuples>>
            \/ Moved(b, pc[b], pc'[b]) /\ SnapStays(b) /\ UNCHANGED <<bind, tuples>>
            \/ Learned(b) /\ UNCHANGED <<bind, tuples>>
            \/ /\ pc[b] = "write" /\ Ended(b) /\ bind' = bind
               /\ tuples' = (tuples \ (removed(b) \ keep[b])) \cup added(b)
            \/ /\ pc[b] \in {"deleteWrite", "revokeWrite", "retractWrite"} /\ Ended(b)
               /\ bind' = bind /\ tuples' = Deleted(b)
            \/ /\ pc[b] = "deleteWrite" /\ pc'[b] = "unbind" /\ SnapStays(b)
               /\ bind' = bind /\ tuples' = Deleted(b)
            \/ /\ pc[b] = "unbind" /\ Ended(b) /\ tuples' = tuples
               /\ bind'[b] = Gone
<1>1. CASE Start(b)
  <2>1. UNCHANGED <<bRest, tuples, valid, want, have, sibs, keep>> /\ pc[b] = "idle"
    BY <1>1 DEF Start
  <2>2. CASE UNCHANGED <<bind, pc, job>>
    BY <2>1, <2>2 DEF OthersStay, SnapStays, bRest, cacheVars
  <2>3. CASE /\ UNCHANGED <<pc, job>>
             /\ bind' = IF cbind[b] = bind[b] THEN [bind EXCEPT ![b] = [@ EXCEPT !.fin = TRUE]] ELSE bind
    <3>1. \A c \in Bindings : c # b => bind'[c] = bind[c]
      BY <2>3 DEF TypeOK
    <3>2. bind'[b].st = bind[b].st /\ bind'[b].subs = bind[b].subs /\ (bind[b].fin => bind'[b].fin)
      BY <2>3 DEF TypeOK, Binding
    <3> QED BY <2>1, <2>3, <3>1, <3>2 DEF OthersStay, SnapStays, bRest, cacheVars
  <2>4. CASE /\ cbind[b].fin /\ Goto(b, IF cbind[b].st = "live" THEN "validate" ELSE "deleteRead")
             /\ job' = [job EXCEPT ![b] = cbind[b]] /\ UNCHANGED bind
    <3>1. job'[b] = cbind[b] /\ pc'[b] = IF cbind[b].st = "live" THEN "validate" ELSE "deleteRead"
      BY <2>4 DEF Goto, TypeOK
    <3>2. OthersStay(b)
      BY <2>1, <2>4 DEF OthersStay, bRest, cacheVars, Goto, TypeOK
    <3> QED BY <2>1, <2>4, <3>1, <3>2
  <2> QED BY <1>1, <2>2, <2>3, <2>4 DEF Start
<1>2. CASE Validate(b)
  <2>1. UNCHANGED <<bRest, bind, tuples>> /\ pc[b] = "validate"
    BY <1>2 DEF Validate
  <2>2. \/ \E p \in {"valid"} : Goto(b, p) /\ UNCHANGED snapVars
        \/ Goto(b, "revokeRead") /\ UNCHANGED snapVars /\ ~creg.there
        \/ End(b, FALSE)
    BY <1>2, Zenon DEF Validate
  <2> QED BY <2>1, <2>2, MoveFrame, EndFrame DEF Moved
<1>3. CASE ValidPerms(b)
  <2>1. OthersStay(b)
    BY <1>3 DEF ValidPerms, OthersStay, bRest, cacheVars, Goto, TypeOK
  <2>2. Learned(b)
    BY <1>3 DEF ValidPerms, Learned, Goto, TypeOK
  <2> QED BY <1>3, <2>1, <2>2 DEF ValidPerms
<1>4. CASE FetchRole(b)
  <2>1. UNCHANGED <<bRest, bind, tuples>> /\ pc[b] = "role"
    BY <1>4 DEF FetchRole
  <2>2. CASE Goto(b, "retractRead") /\ UNCHANGED snapVars /\ ~crole[RoleOf[b]].there
    BY <2>1, <2>2, MoveFrame DEF Moved
  <2>3. CASE End(b, TRUE)
    BY <2>1, <2>3, EndFrame
  <2>4. CASE /\ crole[RoleOf[b]].there
             /\ want' = [want EXCEPT ![b] = Grant(job[b].subs, crole[RoleOf[b]].perms, valid[b])]
             /\ Goto(b, "read") /\ UNCHANGED <<job, valid, have, sibs, keep>>
    <3>1. OthersStay(b)
      BY <2>1, <2>4 DEF OthersStay, bRest, cacheVars, Goto, TypeOK
    <3>2. Learned(b)
      BY <2>1, <2>4 DEF Learned, Goto, TypeOK
    <3> QED BY <2>1, <3>1, <3>2
  <2> QED BY <1>4, <2>2, <2>3, <2>4, Zenon DEF FetchRole
<1>5. CASE ReadExisting(b)
  <2>1. OthersStay(b)
    BY <1>5 DEF ReadExisting, OthersStay, bRest, cacheVars, Goto, TypeOK
  <2>2. Learned(b)
    BY <1>5 DEF ReadExisting, Learned, Goto, TypeOK
  <2> QED BY <1>5, <2>1, <2>2 DEF ReadExisting
<1>6. CASE DiffTuples(b)
  <2>1. UNCHANGED <<bRest, bind, tuples>> /\ pc[b] = "diff"
    BY <1>6 DEF DiffTuples
  <2>2. \/ Goto(b, "list") /\ UNCHANGED snapVars
        \/ Goto(b, "write") /\ UNCHANGED snapVars /\ removed(b) = {}
        \/ End(b, FALSE)
    BY <1>6, Zenon DEF DiffTuples
  <2> QED BY <2>1, <2>2, MoveFrame, EndFrame DEF Moved
<1>7. CASE ListSiblings(b)
  <2>1. OthersStay(b)
    BY <1>7 DEF ListSiblings, OthersStay, bRest, cacheVars, Goto, TypeOK
  <2>2. Learned(b)
    BY <1>7 DEF ListSiblings, Learned, Goto, TypeOK
  <2> QED BY <1>7, <2>1, <2>2 DEF ListSiblings
<1>8. CASE SpareSiblings(b)
  <2>1. OthersStay(b)
    BY <1>8 DEF SpareSiblings, OthersStay, bRest, cacheVars, Goto, TypeOK
  <2>2. Learned(b)
    BY <1>8 DEF SpareSiblings, Learned, Goto, TypeOK
  <2> QED BY <1>8, <2>1, <2>2 DEF SpareSiblings
<1>9. CASE Write(b)
  <2>1. \E again : End(b, again)
    BY <1>9, Zenon DEF Write
  <2> QED BY <1>9, <2>1, EndFrame DEF Write
<1>10. CASE DeleteRead(b)
  <2>1. UNCHANGED <<bRest, bind, tuples>> /\ pc[b] \in {"deleteRead", "revokeRead", "retractRead"}
    BY <1>10 DEF DeleteRead
  <2>2. CASE pc[b] = "deleteRead" /\ existing(b) = {} /\ Goto(b, "unbind") /\ UNCHANGED snapVars
    BY <2>1, <2>2, MoveFrame DEF Moved
  <2>3. CASE \E again : End(b, again)
    BY <2>1, <2>3, EndFrame
  <2>4. CASE /\ have' = [have EXCEPT ![b] = existing(b)]
             /\ Goto(b, CASE pc[b] = "deleteRead" -> "deleteList"
                         [] pc[b] = "revokeRead" -> "revokeList" [] OTHER -> "retractList")
             /\ UNCHANGED <<job, valid, want, sibs, keep>>
    <3>1. OthersStay(b)
      BY <2>1, <2>4 DEF OthersStay, bRest, cacheVars, Goto, TypeOK
    <3>2. Learned(b)
      BY <2>1, <2>4 DEF Learned, Goto, TypeOK
    <3> QED BY <2>1, <3>1, <3>2
  <2> QED BY <1>10, <2>2, <2>3, <2>4, Zenon DEF DeleteRead
<1>11. CASE DeleteList(b)
  <2>1. OthersStay(b)
    BY <1>11 DEF DeleteList, OthersStay, bRest, cacheVars, Goto, TypeOK
  <2>2. Learned(b)
    BY <1>11 DEF DeleteList, Learned, Goto, TypeOK
  <2> QED BY <1>11, <2>1, <2>2 DEF DeleteList
<1>12. CASE DeleteWrite(b)
  <2>1. UNCHANGED <<bRest, bind>> /\ pc[b] = "deleteWrite" /\ tuples' = Deleted(b)
    BY <1>12 DEF DeleteWrite
  <2>2. (Goto(b, "unbind") /\ UNCHANGED snapVars) \/ \E again : End(b, again)
    BY <1>12, Zenon DEF DeleteWrite
  <2> QED BY <2>1, <2>2, MoveFrame, EndFrame
<1>13. CASE RevokeWrite(b)
  <2>1. \E again : End(b, again)
    BY <1>13, Zenon DEF RevokeWrite
  <2> QED BY <1>13, <2>1, EndFrame DEF RevokeWrite
<1>14. CASE Unbind(b)
  <2>1. \E again : End(b, again)
    BY <1>14, Zenon DEF Unbind
  <2>2. /\ UNCHANGED <<bRest, tuples>> /\ pc[b] = "unbind"
        /\ \A c \in Bindings : c # b => bind'[c] = bind[c]
        /\ bind' = bind \/ bind'[b] = Gone
    BY <1>14 DEF Unbind, TypeOK
  <2> QED BY <2>1, <2>2, EndFrame
<1>15. CASE Fail(b)
  <2>1. \E again : End(b, again)
    BY <1>15, Zenon DEF Fail
  <2> QED BY <1>15, <2>1, EndFrame DEF Fail
<1> QED
  BY <1>1, <1>2, <1>3, <1>4, <1>5, <1>6, <1>7, <1>8, <1>9, <1>10, <1>11, <1>12, <1>13, <1>14, <1>15
  DEF BStep

-----------------------------------------------------------------------------
(* Whom a binding names is known to all who act for it.                     *)

LEMMA Deletes ==
  /\ Deleting = {"deleteRead", "deleteList", "deleteSpare", "deleteWrite", "unbind"}
  /\ Writing = {"validate", "valid", "role", "read", "diff", "list", "spare", "write"}
  BY DEF Deleting, Writing

LEMMA SharerFrame ==
  ASSUME NEW c \in Bindings, KnowsSharer(c), bind'[c] = bind[c], cbind'[c] = cbind[c],
         pc'[c] = pc[c], job'[c] = job[c], want'[c] = want[c], have'[c] = have[c]
  PROVE  KnowsSharer(c)'
  BY DEF KnowsSharer, Stored

LEMMA GrantSubjects ==
  ASSUME NEW subs, NEW perms, NEW ok, NEW t \in Grant(subs, perms, ok)
  PROVE  t[1] \in subs
  BY DEF Grant

LEMMA WorkerSharer ==
  ASSUME TypeOK, SharersInv, NEW b \in Bindings, BStep(b) \/ Fail(b)
  PROVE  SharersInv'
<1>0. KnowsSharer(b) /\ cbind'[b] = cbind[b] /\ bind[b] \in Binding /\ cbind[b] \in Binding
  BY WorkerStep DEF SharersInv, OthersStay, TypeOK
<1>1. ASSUME NEW c \in Bindings, c # b PROVE KnowsSharer(c)'
  BY <1>1, WorkerStep, SharerFrame DEF SharersInv, OthersStay
<1> SUFFICES KnowsSharer(b)'
  BY <1>1 DEF SharersInv
<1>2. CASE /\ pc'[b] = pc[b] /\ SnapStays(b)
           /\ bind'[b].st = bind[b].st /\ bind'[b].subs = bind[b].subs /\ (bind[b].fin => bind'[b].fin)
  BY <1>0, <1>2 DEF KnowsSharer, SnapStays, Stored
<1>3. CASE /\ pc[b] = "idle" /\ cbind[b].fin /\ job'[b] = cbind[b]
           /\ pc'[b] = IF cbind[b].st = "live" THEN "validate" ELSE "deleteRead"
           /\ want'[b] = want[b] /\ have'[b] = have[b] /\ bind' = bind
  BY <1>0, <1>3, Deletes DEF KnowsSharer, Stored
<1>4. CASE Ended(b) /\ bind' = bind
  BY <1>0, <1>4, Deletes DEF KnowsSharer, Ended, Stored
<1>5. CASE Moved(b, pc[b], pc'[b]) /\ SnapStays(b) /\ bind' = bind
  BY <1>0, <1>5, Deletes DEF KnowsSharer, Moved, SnapStays, Stored
<1>6. CASE Learned(b) /\ bind' = bind
  <2>1. /\ job'[b] = job[b]
        /\ pc[b] # "idle" /\ pc'[b] # "idle"
        /\ pc'[b] \in Deleting => pc[b] \in Deleting
        /\ pc'[b] \in Writing => pc[b] \in Writing
    BY <1>6, Deletes DEF Learned
  <2>2. \A t \in want'[b] \cup have'[b] : t[1] \in job[b].subs
    <3>1. want'[b] = want[b] \/ want'[b] = Grant(job[b].subs, crole[RoleOf[b]].perms, valid[b])
      BY <1>6 DEF Learned
    <3>2. have'[b] = have[b] \/ have'[b] = existing(b)
      BY <1>6 DEF Learned
    <3>3. \A t \in want'[b] : t[1] \in job[b].subs
      BY <1>0, <3>1, GrantSubjects DEF KnowsSharer
    <3>4. \A t \in have'[b] : t[1] \in job[b].subs
      BY <1>0, <3>2 DEF KnowsSharer, existing
    <3> QED BY <3>3, <3>4
  <2> QED BY <1>0, <1>6, <2>1, <2>2 DEF KnowsSharer, Stored
<1>7. CASE pc[b] = "deleteWrite" /\ pc'[b] = "unbind" /\ SnapStays(b) /\ bind' = bind
  BY <1>0, <1>7, Deletes DEF KnowsSharer, SnapStays, Stored
<1>8. CASE pc[b] = "unbind" /\ Ended(b) /\ bind'[b] = Gone
  BY <1>0, <1>8, Deletes DEF KnowsSharer, Ended, Stored, Gone
<1> QED BY <1>2, <1>3, <1>4, <1>5, <1>6, <1>7, <1>8, WorkerStep

(* No user's step, no informer and no handler touches a worker; a binding is  *)
(* only deleted. *)
LEMMA QuietStep ==
  ASSUME TypeOK, SharersInv, Next, NoneAdded, ~Restart,
         \A b \in Bindings : ~(BStep(b) \/ Fail(b))
  PROVE  /\ UNCHANGED <<flag, tuples, workVars>>
         /\ \/ bind' = bind
            \/ /\ UNCHANGED <<cbind, role, crole, reg, creg, others, cothers>>
               /\ \E b \in Bindings :
                    /\ bind[b].st = "live" /\ bind'[b] = [bind[b] EXCEPT !.st = "deleting"]
                    /\ \A c \in Bindings : c # b => bind'[c] = bind[c]
         /\ \/ cbind' = cbind
            \/ /\ UNCHANGED <<bind, role, crole, reg, creg, others, cothers>>
               /\ \E b \in Bindings : cbind'[b] = bind[b] /\ \A c \in Bindings : c # b => cbind'[c] = cbind[c]
<1>1. ASSUME NEW b \in Bindings, CreateBinding(b) PROVE FALSE
  BY <1>1 DEF CreateBinding, NoneAdded, NoBinding, TypeOK
<1>2. ASSUME NEW b \in Bindings, EditSubjects(b) PROVE FALSE
  <2>1. PICK s \in (SUBSET Subjects) \ {{}, SubjectsOf[b]} : bind' = [bind EXCEPT ![b] = [@ EXCEPT !.subs = s]]
    BY <1>2 DEF EditSubjects
  <2>2. bind[b] \in Binding /\ bind[b].st = "live" /\ bind[b].subs = SubjectsOf[b]
    BY <1>2 DEF EditSubjects, TypeOK
  <2>3. bind'[b].st = "live" /\ bind'[b].subs = s
    BY <2>1, <2>2 DEF Binding, TypeOK
  <2> QED BY <2>1, <2>2, <2>3 DEF NoneAdded
<1>3. ASSUME NEW b \in Bindings, DeleteBinding(b)
      PROVE  /\ UNCHANGED <<flag, tuples, workVars, cbind, role, crole, reg, creg, others, cothers>>
             /\ bind[b].st = "live" /\ bind'[b] = [bind[b] EXCEPT !.st = "deleting"]
             /\ \A c \in Bindings : c # b => bind'[c] = bind[c]
  <2>1. bind[b].fin
    BY <1>3 DEF DeleteBinding, SharersInv, KnowsSharer, Stored
  <2>2. /\ UNCHANGED users /\ UNCHANGED <<role, reg, others>> /\ bind[b].st = "live"
        /\ bind' = [bind EXCEPT ![b] = [bind[b] EXCEPT !.st = "deleting"]]
    BY <1>3, <2>1 DEF DeleteBinding
  <2> QED BY <2>2 DEF users, cacheVars, TypeOK
<1>4. ASSUME NEW b \in Bindings, SyncBinding(b)
      PROVE  /\ UNCHANGED <<flag, tuples, workVars, bind, role, crole, reg, creg, others, cothers>>
             /\ cbind'[b] = bind[b] /\ \A c \in Bindings : c # b => cbind'[c] = cbind[c]
  BY <1>4 DEF SyncBinding, storedVars, TypeOK
<1>5. ASSUME NEW b \in Bindings, NotifyBinding(b) PROVE UNCHANGED <<flag, tuples, workVars, bind, cbind>>
  BY <1>5 DEF NotifyBinding, storedVars
<1>6. ASSUME NEW r \in Roles, EditRole(r) \/ SyncRole(r) \/ NotifyRole(r)
      PROVE  UNCHANGED <<flag, tuples, workVars, bind, cbind>>
  BY <1>6 DEF EditRole, SyncRole, NotifyRole, storedVars, users, cacheVars
<1>7. ASSUME EditRegistration \/ EditChildren PROVE UNCHANGED <<flag, tuples, workVars, bind, cbind>>
  BY <1>7 DEF EditRegistration, EditChildren, users, cacheVars
<1>8. ASSUME SyncRegistration \/ NotifyRegistration \/ SyncChildren
      PROVE  UNCHANGED <<flag, tuples, workVars, bind, cbind>>
  BY <1>8 DEF SyncRegistration, NotifyRegistration, SyncChildren, storedVars
<1> QED BY <1>1, <1>2, <1>3, <1>4, <1>5, <1>6, <1>7, <1>8 DEF Next

LEMMA SharersStep == TypeOK /\ SharersInv /\ [Next /\ NoneAdded]_vars => SharersInv'
<1> SUFFICES ASSUME TypeOK, SharersInv, [Next /\ NoneAdded]_vars, NEW c \in Bindings PROVE KnowsSharer(c)'
  BY DEF SharersInv
<1>0. KnowsSharer(c) /\ bind[c] \in Binding /\ cbind[c] \in Binding
  BY DEF SharersInv, TypeOK
<1>1. CASE UNCHANGED vars
  BY <1>0, <1>1, SharerFrame DEF vars, storedVars, cacheVars, workVars, snapVars
<1>2. CASE Restart
  <2>1. /\ bind'[c] = bind[c] /\ cbind'[c] = bind[c] /\ pc'[c] = "idle" /\ job'[c] = NoBinding
        /\ want'[c] = {} /\ have'[c] = {}
    BY <1>2 DEF Restart
  <2> QED BY <1>0, <2>1, Deletes DEF KnowsSharer, Stored
<1>3. ASSUME NEW b \in Bindings, BStep(b) \/ Fail(b) PROVE KnowsSharer(c)'
  BY <1>3, WorkerSharer DEF SharersInv
<1>4. CASE /\ Next /\ NoneAdded /\ ~Restart /\ \A b \in Bindings : ~(BStep(b) \/ Fail(b))
  <2>1. pc'[c] = pc[c] /\ job'[c] = job[c] /\ want'[c] = want[c] /\ have'[c] = have[c]
    BY <1>4, QuietStep DEF workVars, snapVars
  <2>2. CASE bind' = bind /\ cbind' = cbind
    BY <1>0, <2>1, <2>2, SharerFrame
  <2>3. CASE bind' = bind /\ cbind'[c] = bind[c]
    BY <1>0, <2>1, <2>3 DEF KnowsSharer, Stored
  <2>4. CASE cbind' = cbind /\ bind[c].st = "live" /\ bind'[c] = [bind[c] EXCEPT !.st = "deleting"]
    <3>1. bind'[c].st = "deleting" /\ bind'[c].fin = bind[c].fin /\ bind'[c].subs = bind[c].subs
      BY <1>0, <2>4 DEF Binding
    <3> QED BY <1>0, <2>1, <2>4, <3>1 DEF KnowsSharer, Stored
  <2>5. CASE bind'[c] = bind[c] /\ cbind'[c] = cbind[c]
    BY <1>0, <2>1, <2>5, SharerFrame
  <2> QED BY <1>4, <2>2, <2>3, <2>4, <2>5, QuietStep
<1> QED BY <1>1, <1>2, <1>3, <1>4

-----------------------------------------------------------------------------
(* One of the bindings that share a tuple answers for it.                   *)

LEMMA AnswersFrame ==
  ASSUME NEW c \in Bindings, NEW t, Answers(c, t), Stored(bind'[c]), bind'[c].subs = bind[c].subs,
         pc'[c] = pc[c], have'[c] = have[c], sibs'[c] = sibs[c], keep'[c] = keep[c]
  PROVE  Answers(c, t)'
  BY DEF Answers, Stored

(* A binding whose worker is not deleting answers for all of its subjects. *)
LEMMA AnswersAll ==
  ASSUME NEW c \in Bindings, NEW t, Stored(bind[c]), t[1] \in bind[c].subs, pc[c] \notin Deleting \ {"deleteRead"}
  PROVE  Answers(c, t)
  BY DEF Answers

LEMMA WorkerAnswers ==
  ASSUME TypeOK, SharersInv, NEW b \in Bindings, BStep(b) \/ Fail(b),
         NEW t \in tuples', NEW a \in Bindings, t \in tuples => Answers(a, t)
  PROVE  \E c \in Bindings : Answers(c, t)'
<1>0. KnowsSharer(b) /\ OthersStay(b) /\ (Stored(bind[b]) => bind[b].subs \subseteq Subjects)
  BY WorkerStep, BindingFields DEF SharersInv, TypeOK
<1>1. ASSUME NEW c \in Bindings, c # b, Answers(c, t) PROVE Answers(c, t)'
  <2>1. Stored(bind[c])
    BY <1>1 DEF Answers
  <2> QED BY <1>0, <1>1, <2>1, AnswersFrame DEF OthersStay
<1>2. CASE t \notin tuples
  <2>1. pc[b] = "write" /\ Ended(b) /\ bind' = bind /\ t \in added(b)
    BY <1>2, WorkerStep DEF Deleted
  <2>2. Stored(bind[b]) /\ t[1] \in bind[b].subs
    BY <1>0, <2>1, Deletes DEF KnowsSharer, added
  <2> QED BY <2>1, <2>2, Deletes DEF Ended, Answers, Stored
<1>3. CASE t \in tuples /\ a # b
  BY <1>1, <1>3
<1>4. CASE t \in tuples /\ Answers(b, t)
  <2>0. /\ Stored(bind[b]) /\ t[1] \in bind[b].subs
        /\ pc[b] # "idle" => t \in existing(b)
    BY <1>0, <1>4 DEF Answers, KnowsSharer, existing
  <2>1. ASSUME bind' = bind, pc'[b] \notin Deleting \ {"deleteRead"} PROVE Answers(b, t)'
    BY <2>0, <2>1 DEF Answers, Stored
  <2>2. CASE /\ pc'[b] = pc[b] /\ SnapStays(b)
             /\ bind'[b].st = bind[b].st /\ bind'[b].subs = bind[b].subs
    <3>1. Answers(b, t)'
      BY <1>4, <2>0, <2>2, AnswersFrame DEF SnapStays, Stored
    <3> QED BY <3>1
  <2>3. CASE /\ pc'[b] = IF cbind[b].st = "live" THEN "validate" ELSE "deleteRead"
             /\ bind' = bind
    BY <2>1, <2>3, Deletes
  <2>4. CASE Ended(b) /\ bind' = bind
    BY <2>1, <2>4, Deletes DEF Ended
  <2>5. CASE Moved(b, pc[b], pc'[b]) /\ bind' = bind
    BY <2>0, <2>1, <2>5, Deletes DEF Moved
  <2>6. CASE Learned(b) /\ bind' = bind
    <3>1. CASE pc[b] = "deleteRead"
      <4>1. pc'[b] = "deleteList" /\ have'[b] = existing(b)
        BY <2>6, <3>1 DEF Learned
      <4> QED BY <2>0, <2>6, <3>1, <4>1 DEF Answers, Stored
    <3>2. CASE pc[b] = "deleteList"
      <4>1. pc'[b] = "deleteSpare" /\ have'[b] = have[b] /\ sibs'[b] = Siblings(b)
        BY <2>6, <3>2 DEF Learned
      <4>2. t \in have[b]
        BY <1>4, <3>2, Deletes DEF Answers
      <4>3. CASE \A s \in Siblings(b) : t[1] \notin s[2]
        BY <2>0, <2>6, <4>1, <4>2, <4>3 DEF Answers, Stored
      <4>4. ASSUME NEW s \in Siblings(b), t[1] \in s[2] PROVE \E c \in Bindings : Answers(c, t)'
        <5>1. PICK c \in Bindings \ {b} : cbind[c].st = "live" /\ s = <<c, cbind[c].subs>>
          BY <4>4 DEF Siblings
        <5>2. KnowsSharer(c)
          BY <5>1 DEF SharersInv
        <5>3. Stored(bind[c]) /\ t[1] \in bind[c].subs /\ pc[c] \notin Deleting
          BY <4>4, <5>1, <5>2 DEF KnowsSharer
        <5>4. Answers(c, t)
          BY <5>1, <5>3, AnswersAll
        <5> QED BY <1>1, <5>1, <5>4
      <4> QED BY <4>3, <4>4
    <3>3. CASE pc[b] = "deleteSpare"
      <4>1. pc'[b] = "deleteWrite" /\ have'[b] = have[b] /\ keep'[b] = SiblingTuples(b)
        BY <2>6, <3>3 DEF Learned
      <4>2. t \in have[b] /\ \A s \in sibs[b] : t[1] \notin s[2]
        BY <1>4, <3>3, Deletes DEF Answers
      <4>3. t \notin SiblingTuples(b)
        BY <4>2, GrantSubjects DEF SiblingTuples
      <4> QED BY <2>0, <2>6, <4>1, <4>2, <4>3 DEF Answers, Stored
    <3>4. CASE pc[b] \notin {"deleteRead", "deleteList", "deleteSpare"}
      <4>1. pc'[b] \notin Deleting
        BY <2>6, <3>4, Deletes DEF Learned
      <4> QED BY <2>1, <2>6, <4>1
    <3> QED BY <3>1, <3>2, <3>3, <3>4
  <2>7. CASE pc[b] = "deleteWrite" /\ pc'[b] = "unbind" /\ tuples' = Deleted(b)
    BY <1>4, <2>7, Deletes DEF Answers, Deleted
  <2>8. CASE pc[b] = "unbind" /\ tuples' = tuples
    BY <1>4, <2>8, Deletes DEF Answers
  <2> QED BY <2>2, <2>3, <2>4, <2>5, <2>6, <2>7, <2>8, WorkerStep
<1> QED BY <1>2, <1>3, <1>4

LEMMA AnsweredStep == TypeOK /\ AnsweredFor /\ [Next /\ NoneAdded]_vars => AnsweredFor'
<1> SUFFICES ASSUME TypeOK, AnsweredFor, [Next /\ NoneAdded]_vars, NEW t \in tuples'
             PROVE  \E c \in Bindings : Answers(c, t)'
  BY SharersStep DEF AnsweredFor
<1>0. SharersInv
  BY DEF AnsweredFor
<1>1. ASSUME NEW b \in Bindings, BStep(b) \/ Fail(b) PROVE \E c \in Bindings : Answers(c, t)'
  BY <1>0, <1>1, WorkerAnswers DEF AnsweredFor
<1>2. CASE t \in tuples /\ ~\E b \in Bindings : BStep(b) \/ Fail(b)
  <2>1. PICK c \in Bindings : Answers(c, t)
    BY <1>2 DEF AnsweredFor
  <2>2. Stored(bind[c]) /\ t[1] \in bind[c].subs /\ bind[c] \in Binding
    BY <2>1 DEF Answers, TypeOK
  <2>3. CASE UNCHANGED vars
    BY <2>1, <2>2, <2>3, AnswersFrame DEF vars, storedVars, workVars, snapVars
  <2>4. CASE Restart
    <3>1. pc'[c] = "idle" /\ bind' = bind
      BY <2>4 DEF Restart
    <3> QED BY <2>2, <3>1, Deletes DEF Answers, Stored
  <2>5. CASE Next /\ NoneAdded /\ ~Restart
    <3>1. UNCHANGED workVars /\ (bind'[c] = bind[c] \/ bind'[c] = [bind[c] EXCEPT !.st = "deleting"])
      BY <1>0, <1>2, <2>5, QuietStep
    <3>2. Stored(bind'[c]) /\ bind'[c].subs = bind[c].subs
      BY <2>2, <3>1 DEF Binding, Stored
    <3> QED BY <2>1, <3>1, <3>2, AnswersFrame DEF workVars, snapVars
  <2> QED BY <2>3, <2>4, <2>5
<1>3. t \in tuples \/ \E b \in Bindings : BStep(b) \/ Fail(b)
  BY <1>0, QuietStep DEF vars, Restart
<1> QED BY <1>1, <1>2, <1>3

(* A binding that answers for a tuple is one that names its subject. *)
LEMMA AnsweredGrants == AnsweredFor => NoOrphanGrants
  BY DEF AnsweredFor, NoOrphanGrants, Answers

-----------------------------------------------------------------------------
(* While things are only taken away, nothing asked for is lost.             *)

(* A cache has what it had, or what is stored. *)
LEMMA CachesFollow ==
  ASSUME TypeOK, [Next]_vars
  PROVE  /\ \A r \in Roles : crole'[r] \in {crole[r], role[r]}
         /\ creg' \in {creg, reg} /\ cothers' \in {cothers, others}
<1>1. ASSUME NEW r \in Roles, SyncRole(r)
      PROVE  (\A q \in Roles : crole'[q] \in {crole[q], role[q]}) /\ UNCHANGED <<creg, cothers>>
  BY <1>1 DEF SyncRole, TypeOK
<1>2. ASSUME NEW r \in Roles, EditRole(r) \/ NotifyRole(r) PROVE UNCHANGED <<crole, creg, cothers>>
  BY <1>2 DEF EditRole, NotifyRole, users, cacheVars
<1>3. ASSUME NEW b \in Bindings,
             CreateBinding(b) \/ DeleteBinding(b) \/ EditSubjects(b) \/ SyncBinding(b) \/ NotifyBinding(b)
      PROVE  UNCHANGED <<crole, creg, cothers>>
  BY <1>3 DEF CreateBinding, DeleteBinding, EditSubjects, SyncBinding, NotifyBinding, users, cacheVars
<1>4. ASSUME NEW b \in Bindings, BStep(b) \/ Fail(b) PROVE UNCHANGED <<crole, creg, cothers>>
  BY <1>4, WorkerStep DEF OthersStay
<1>5. ASSUME EditRegistration \/ EditChildren \/ NotifyRegistration PROVE UNCHANGED <<crole, creg, cothers>>
  BY <1>5 DEF EditRegistration, EditChildren, NotifyRegistration, users, cacheVars
<1>6. CASE SyncRegistration
  BY <1>6 DEF SyncRegistration
<1>7. CASE SyncChildren
  BY <1>7 DEF SyncChildren
<1>8. CASE Restart
  BY <1>8 DEF Restart
<1>9. CASE UNCHANGED vars
  BY <1>9 DEF vars, cacheVars
<1> QED BY <1>1, <1>2, <1>3, <1>4, <1>5, <1>6, <1>7, <1>8, <1>9 DEF Next

LEMMA LessTransitive ==
  ASSUME NEW x, NEW y, NEW z, Less(x, y), Less(y, z) PROVE Less(x, z)
  BY DEF Less

(* With the flag, what is granted is exactly the permissions that are valid. *)
LEMMA FlagGrant ==
  ASSUME flag, NEW subs, NEW perms, NEW ok
  PROVE  Grant(subs, perms, ok) = subs \X (perms \cap ok)
  BY DEF Grant, Enabled

LEMMA FlagValid ==
  ASSUME flag, NEW own, NEW below PROVE validPerms(own, below) = own.perms \cup below
  BY DEF validPerms, Enabled

LEMMA FlagWanted ==
  ASSUME flag, NEW c \in Bindings, NEW t \in Wanted(c)
  PROVE  /\ bind[c].st = "live" /\ reg.there /\ role[RoleOf[c]].there
         /\ t \in bind[c].subs \X (role[RoleOf[c]].perms \cap (reg.perms \cup others))
  BY FlagGrant, FlagValid DEF Wanted

LEMMA WantedShrinks ==
  ASSUME TypeOK, flag, OnlyTaken, NEW c \in Bindings PROVE Wanted(c)' \subseteq Wanted(c)
<1> SUFFICES ASSUME NEW t \in Wanted(c)' PROVE t \in Wanted(c)
  OBVIOUS
<1>1. flag' /\ RoleOf[c] \in Roles
  BY RoleOfType DEF OnlyTaken
<1>2. /\ bind'[c].st = "live" /\ reg'.there /\ role'[RoleOf[c]].there
      /\ t \in bind'[c].subs \X (role'[RoleOf[c]].perms \cap (reg'.perms \cup others'))
  <2>1. bind'[c].st = "live" /\ reg'.there /\ role'[RoleOf[c]].there
    BY DEF Wanted
  <2> QED BY <1>1, <2>1 DEF Wanted, Grant, validPerms, Enabled
<1>3. /\ bind[c].st = "live" /\ bind'[c].subs = bind[c].subs
      /\ reg.there /\ role[RoleOf[c]].there
      /\ role'[RoleOf[c]].perms \subseteq role[RoleOf[c]].perms
      /\ reg'.perms \cup others' \subseteq reg.perms \cup others
  BY <1>1, <1>2 DEF OnlyTaken, NoneAdded, Less
<1>4. t \in bind[c].subs \X (role[RoleOf[c]].perms \cap (reg.perms \cup others))
  BY <1>2, <1>3
<1> QED BY <1>3, <1>4, FlagGrant, FlagValid DEF Wanted

(* What was enough stays enough when there is less of it. *)
LEMMA EnoughFrame ==
  ASSUME TypeOK, flag, OnlyTaken, NEW b \in Bindings, KnowsEnough(b), pc'[b] = pc[b], SnapStays(b)
  PROVE  KnowsEnough(b)'
<1>1. \A c \in Bindings : Wanted(c)' \subseteq Wanted(c)
  BY WantedShrinks
<1>2. /\ reg'.there => reg.there
      /\ role'[RoleOf[b]].there => role[RoleOf[b]].there
      /\ reg'.perms \cup others' \subseteq reg.perms \cup others
      /\ \A c \in Bindings : bind'[c].st = "live" => bind[c].st = "live" /\ bind'[c].subs = bind[c].subs
  BY RoleOfType DEF OnlyTaken, NoneAdded, Less
<1>3. removed(b)' = removed(b)
  BY DEF removed, SnapStays
<1>4. Spared(b) => Spared(b)'
  BY <1>1 DEF Spared, SnapStays
<1>5. KnowsEnough(b)!1' /\ KnowsEnough(b)!2' /\ KnowsEnough(b)!3'
  BY <1>2 DEF KnowsEnough, SnapStays
<1>6. KnowsEnough(b)!4' /\ KnowsEnough(b)!6' /\ KnowsEnough(b)!7'
  BY <1>1, <1>3, <1>4 DEF KnowsEnough, SnapStays
<1>7. KnowsEnough(b)!5'
  BY <1>2 DEF KnowsEnough, SnapStays
<1> QED BY <1>5, <1>6, <1>7 DEF KnowsEnough

LEMMA Waiting ==
  /\ Revoking = {"revokeRead", "revokeList", "revokeSpare", "revokeWrite"}
  /\ Retracting = {"retractRead", "retractList", "retractSpare", "retractWrite"}
  BY DEF Revoking, Retracting

(* At these places nothing has to be known. *)
LEMMA KnowsNothing ==
  ASSUME NEW b \in Bindings, pc[b] \in {"idle", "validate", "valid", "deleteRead", "deleteList", "unbind"}
  PROVE  KnowsEnough(b)
  BY Waiting DEF KnowsEnough

(* The caches have all the permissions there are. *)
LEMMA CachesEnough ==
  ASSUME TypeOK, SparingInv
  PROVE  /\ reg.perms \cup others \subseteq validPerms(creg, cothers)
         /\ reg.there => creg.there
         /\ \A r \in Roles : role[r].there => crole[r].there
         /\ \A r \in Roles : role[r].perms \subseteq crole[r].perms
  BY FlagValid DEF SparingInv, Less

(* What is spared is all that the siblings ask for. *)
LEMMA SiblingsSpared ==
  ASSUME TypeOK, SparingInv, NEW b \in Bindings,
         pc[b] \in {"spare", "deleteSpare", "revokeSpare", "retractSpare"},
         NEW c \in Bindings \ {b}, NEW t \in Wanted(c), t[1] \in job[b].subs
  PROVE  t \in SiblingTuples(b)
<1>0. flag /\ KnowsEnough(b) /\ RoleOf[c] \in Roles
  BY RoleOfType DEF SparingInv
<1>1. /\ bind[c].st = "live" /\ role[RoleOf[c]].there
      /\ t \in bind[c].subs \X (role[RoleOf[c]].perms \cap (reg.perms \cup others))
  BY <1>0, FlagWanted
<1>2. t[1] \in bind[c].subs
  BY <1>1
<1>3. <<c, bind[c].subs>> \in sibs[b]
  BY <1>0, <1>1, <1>2 DEF KnowsEnough
<1>4. reg.perms \cup others \subseteq valid[b]
  BY <1>0 DEF KnowsEnough
<1>5. t \in Grant(bind[c].subs, crole[RoleOf[c]].perms, valid[b])
  <2>1. t \in bind[c].subs \X (crole[RoleOf[c]].perms \cap valid[b])
    BY <1>0, <1>1, <1>4, CachesEnough
  <2> QED BY <1>0, <2>1, FlagGrant
<1>6. crole[RoleOf[c]].there
  BY <1>0, <1>1, CachesEnough
<1>7. PICK s \in {x \in sibs[b] : crole[RoleOf[x[1]]].there} : s = <<c, bind[c].subs>>
  BY <1>3, <1>6
<1> QED BY <1>5, <1>7 DEF SiblingTuples

LEMMA SiblingsListed ==
  ASSUME SharersInv, NEW b \in Bindings, NEW c \in Bindings \ {b},
         bind[c].st = "live", bind[c].subs \cap job[b].subs # {}
  PROVE  <<c, bind[c].subs>> \in Siblings(b)
<1>1. cbind[c].st = "live" /\ cbind[c].subs = bind[c].subs
  BY DEF SharersInv, KnowsSharer, Stored
<1> QED BY <1>1 DEF Siblings

(* What b's own worker asks for is at least what b asks for. *)
LEMMA OwnGrant ==
  ASSUME TypeOK, SparingInv, NEW b \in Bindings, pc[b] = "role"
  PROVE  Wanted(b) \subseteq Grant(job[b].subs, crole[RoleOf[b]].perms, valid[b])
<1> SUFFICES ASSUME NEW t \in Wanted(b) PROVE t \in Grant(job[b].subs, crole[RoleOf[b]].perms, valid[b])
  OBVIOUS
<1>0. flag /\ KnowsEnough(b) /\ KnowsSharer(b) /\ RoleOf[b] \in Roles
  BY RoleOfType DEF SparingInv, SharersInv
<1>1. bind[b].st = "live" /\ t \in bind[b].subs \X (role[RoleOf[b]].perms \cap (reg.perms \cup others))
  BY <1>0, FlagWanted
<1>2. job[b].subs = bind[b].subs
  BY <1>0, <1>1 DEF KnowsSharer, Stored
<1>3. reg.perms \cup others \subseteq valid[b]
  BY <1>0 DEF KnowsEnough
<1>4. t \in job[b].subs \X (crole[RoleOf[b]].perms \cap valid[b])
  BY <1>0, <1>1, <1>2, <1>3, CachesEnough
<1> QED BY <1>0, <1>4, FlagGrant

LEMMA WorkerEnough ==
  ASSUME TypeOK, SparingInv, OnlyTaken, NEW b \in Bindings, BStep(b) \/ Fail(b)
  PROVE  KnowsEnough(b)'
<1>0. flag /\ KnowsEnough(b) /\ SharersInv /\ OthersStay(b) /\ RoleOf[b] \in Roles
  BY WorkerStep, RoleOfType DEF SparingInv
<1>1. ASSUME pc'[b] \in {"idle", "validate", "valid", "deleteRead", "deleteList", "unbind"} PROVE KnowsEnough(b)'
  BY <1>1, Waiting DEF KnowsEnough
<1>2. CASE pc'[b] = pc[b] /\ SnapStays(b)
  BY <1>0, <1>2, EnoughFrame
<1>3. CASE Moved(b, pc[b], pc'[b]) /\ SnapStays(b) /\ bind' = bind
  <2>1. \A c \in Bindings : Wanted(c)' \subseteq Wanted(c)
    BY <1>0, WantedShrinks
  <2>2. CASE pc[b] = "validate" /\ pc'[b] = "revokeRead" /\ ~creg.there
    <3>1. ~reg'.there
      BY <1>0, <2>2, CachesEnough DEF OthersStay
    <3> QED BY <2>2, <3>1, Waiting DEF KnowsEnough
  <2>3. CASE pc[b] = "role" /\ pc'[b] = "retractRead" /\ ~crole[RoleOf[b]].there
    <3>1. ~role'[RoleOf[b]].there
      BY <1>0, <2>3, CachesEnough DEF OthersStay
    <3> QED BY <2>3, <3>1, Waiting DEF KnowsEnough
  <2>4. CASE pc[b] = "diff" /\ pc'[b] = "list"
    BY <1>0, <1>3, <2>1, <2>4, Waiting DEF KnowsEnough, SnapStays, OthersStay
  <2>5. CASE pc[b] = "diff" /\ pc'[b] = "write" /\ removed(b) = {}
    <3>1. removed(b)' = {}
      BY <1>3, <2>5 DEF removed, SnapStays
    <3> QED BY <1>0, <1>3, <2>1, <2>5, <3>1, Waiting DEF KnowsEnough, SnapStays
  <2> QED BY <1>1, <1>3, <2>2, <2>3, <2>4, <2>5 DEF Moved
<1>4. CASE Learned(b) /\ bind' = bind
  <2>0. /\ \A c \in Bindings : Wanted(c)' = Wanted(c)
        /\ UNCHANGED <<reg, role, others>>
    BY <1>0, <1>4 DEF Wanted, Grant, validPerms, Enabled, OthersStay
  <2>1. CASE pc[b] = "valid" /\ pc'[b] = "role" /\ valid'[b] = validPerms(creg, cothers)
    BY <2>0, <2>1, CachesEnough, Waiting DEF KnowsEnough
  <2>2. CASE /\ pc[b] = "role" /\ pc'[b] = "read" /\ valid'[b] = valid[b]
             /\ want'[b] = Grant(job[b].subs, crole[RoleOf[b]].perms, valid[b])
    BY <1>0, <2>0, <2>2, OwnGrant, Waiting DEF KnowsEnough
  <2>3. CASE pc[b] = "read" /\ pc'[b] = "diff" /\ valid'[b] = valid[b] /\ want'[b] = want[b]
    BY <1>0, <2>0, <2>3, Waiting DEF KnowsEnough
  <2>4. CASE <<pc[b], pc'[b]>> \in {<<"revokeRead", "revokeList">>, <<"retractRead", "retractList">>}
    BY <1>0, <2>0, <2>4, Waiting DEF KnowsEnough
  <2>5. CASE /\ \/ pc[b] = "list" /\ pc'[b] = "spare" /\ valid'[b] = valid[b]
                \/ /\ <<pc[b], pc'[b]>> \in {<<"deleteList", "deleteSpare">>, <<"revokeList", "revokeSpare">>,
                                            <<"retractList", "retractSpare">>}
                   /\ valid'[b] = validPerms(creg, cothers)
             /\ sibs'[b] = Siblings(b) /\ job'[b] = job[b] /\ want'[b] = want[b]
    <3>1. reg'.perms \cup others' \subseteq valid'[b]
      BY <1>0, <2>0, <2>5, CachesEnough DEF KnowsEnough
    <3>2. \A c \in Bindings \ {b} :
            bind'[c].st = "live" /\ bind'[c].subs \cap job'[b].subs # {} => <<c, bind'[c].subs>> \in sibs'[b]
      BY <1>0, <1>4, <2>5, SiblingsListed
    <3>3. /\ pc'[b] \in Revoking => ~reg'.there
          /\ pc'[b] \in Retracting => ~role'[RoleOf[b]].there
          /\ pc'[b] = "spare" => Wanted(b)' \subseteq want'[b]
      BY <1>0, <2>0, <2>5, Waiting DEF KnowsEnough
    <3> QED BY <2>5, <3>1, <3>2, <3>3 DEF KnowsEnough
  <2>6. CASE /\ <<pc[b], pc'[b]>> \in {<<"spare", "write">>, <<"deleteSpare", "deleteWrite">>,
                                      <<"revokeSpare", "revokeWrite">>, <<"retractSpare", "retractWrite">>}
             /\ keep'[b] = SiblingTuples(b) /\ job'[b] = job[b] /\ want'[b] = want[b]
    <3>1. Spared(b)'
      BY <2>0, <2>6, SiblingsSpared DEF Spared
    <3>2. /\ pc'[b] \in Revoking => ~reg'.there
          /\ pc'[b] \in Retracting => ~role'[RoleOf[b]].there
          /\ pc'[b] = "write" => Wanted(b)' \subseteq want'[b]
      BY <1>0, <2>0, <2>6, Waiting DEF KnowsEnough
    <3> QED BY <2>6, <3>1, <3>2 DEF KnowsEnough
  <2>7. CASE pc[b] = "deleteRead" /\ pc'[b] = "deleteList"
    BY <1>1, <2>7
  <2> QED BY <1>4, <2>1, <2>2, <2>3, <2>4, <2>5, <2>6, <2>7 DEF Learned
<1> QED BY <1>1, <1>2, <1>3, <1>4, WorkerStep DEF Ended

(* A worker removes nothing that a binding asks for. *)
LEMMA WorkerKeeps ==
  ASSUME TypeOK, SparingInv, NEW b \in Bindings, BStep(b) \/ Fail(b),
         NEW c \in Bindings, NEW t \in Wanted(c)
  PROVE  t \in tuples'
<1>0. flag /\ KnowsEnough(b) /\ KnowsSharer(b) /\ t \in tuples
  BY DEF SparingInv, SharersInv, SharedGrantsKept
<1>1. t \in have[b] => t[1] \in job[b].subs
  BY <1>0 DEF KnowsSharer
<1>2. CASE pc[b] = "write" /\ tuples' = (tuples \ (removed(b) \ keep[b])) \cup added(b)
  <2>1. CASE c = b
    BY <1>0, <1>2, <2>1 DEF KnowsEnough, removed
  <2>2. CASE c # b
    BY <1>0, <1>1, <1>2, <2>2 DEF KnowsEnough, Spared, removed
  <2> QED BY <2>1, <2>2
<1>3. CASE pc[b] \in {"deleteWrite", "revokeWrite", "retractWrite"} /\ tuples' = Deleted(b)
  <2>1. c # b
    <3>1. bind[c].st = "live" /\ reg.there /\ role[RoleOf[c]].there
      BY <1>0, FlagWanted
    <3> QED BY <1>0, <1>3, <3>1, Waiting, Deletes DEF KnowsEnough, KnowsSharer, Stored
  <2> QED BY <1>0, <1>1, <1>3, <2>1 DEF KnowsEnough, Spared, Deleted
<1> QED BY <1>0, <1>2, <1>3, WorkerStep

LEMMA SparingStep == TypeOK /\ SparingInv /\ [Next /\ OnlyTaken]_vars => SparingInv'
<1> SUFFICES ASSUME TypeOK, SparingInv, [Next /\ OnlyTaken]_vars PROVE SparingInv'
  OBVIOUS
<1>1. OnlyTaken
  BY DEF vars, storedVars, OnlyTaken, NoneAdded, Less
<1>2. flag /\ flag' /\ SharersInv'
  BY <1>1, SharersStep DEF SparingInv, OnlyTaken
<1>3. \A c \in Bindings : Wanted(c)' \subseteq Wanted(c)
  BY <1>1, <1>2, WantedShrinks
<1>4. (\A r \in Roles : Less(crole[r], role[r])') /\ Less(creg, reg)' /\ (others \subseteq cothers)'
  <2>1. ASSUME NEW r \in Roles PROVE Less(crole'[r], role'[r])
    <3>1. Less(crole[r], role[r]) /\ Less(role[r], role'[r])
      BY <1>1 DEF SparingInv, OnlyTaken
    <3>2. crole'[r] \in {crole[r], role[r]}
      BY CachesFollow
    <3> QED BY <3>1, <3>2, LessTransitive
  <2>2. Less(creg', reg')
    <3>1. Less(creg, reg) /\ Less(reg, reg')
      BY <1>1 DEF SparingInv, OnlyTaken
    <3>2. creg' \in {creg, reg}
      BY CachesFollow
    <3> QED BY <3>1, <3>2, LessTransitive
  <2>3. others' \subseteq cothers'
    BY <1>1, CachesFollow DEF SparingInv, OnlyTaken
  <2> QED BY <2>1, <2>2, <2>3 DEF Less
<1>5. ASSUME NEW b \in Bindings PROVE KnowsEnough(b)'
  <2>0. KnowsEnough(b) /\ SharersInv /\ NoneAdded
    BY <1>1 DEF SparingInv, OnlyTaken
  <2>1. ASSUME NEW a \in Bindings, BStep(a) \/ Fail(a), a # b PROVE KnowsEnough(b)'
    BY <1>1, <1>2, <2>0, <2>1, WorkerStep, EnoughFrame DEF OthersStay, SnapStays
  <2>2. CASE BStep(b) \/ Fail(b)
    BY <1>1, <2>2, WorkerEnough
  <2>3. CASE Restart
    <3>1. pc'[b] = "idle"
      BY <2>3 DEF Restart
    <3> QED BY <3>1, Waiting DEF KnowsEnough
  <2>4. CASE UNCHANGED workVars
    BY <1>1, <1>2, <2>0, <2>4, EnoughFrame DEF SnapStays, workVars, snapVars
  <2>5. \/ \E a \in Bindings : BStep(a) \/ Fail(a)
        \/ Restart \/ UNCHANGED workVars
    BY <2>0, QuietStep DEF vars
  <2> QED BY <2>1, <2>2, <2>3, <2>4, <2>5
<1>6. SharedGrantsKept'
  <2> SUFFICES ASSUME NEW c \in Bindings, NEW t \in Wanted(c)' PROVE t \in tuples'
    BY DEF SharedGrantsKept
  <2>1. t \in Wanted(c) /\ t \in tuples
    BY <1>3 DEF SparingInv, SharedGrantsKept
  <2>2. tuples' = tuples \/ \E b \in Bindings : BStep(b) \/ Fail(b)
    BY <1>1, QuietStep DEF vars, SparingInv, OnlyTaken, Restart
  <2> QED BY <2>1, <2>2, WorkerKeeps
<1> QED BY <1>2, <1>4, <1>5, <1>6 DEF SparingInv

-----------------------------------------------------------------------------
(* Where it starts.                                                         *)

LEMMA IdleType ==
  ASSUME Idle, flag \in Flags, bind \in [Bindings -> Binding],
         role \in [Roles -> {r \in Role : r.there}],
         reg = [there |-> TRUE, perms |-> Perms \ Children], others = Children, tuples \subseteq Tuples
  PROVE  TypeOK
<1>1. reg \in Role /\ role \in [Roles -> Role] /\ flag \in BOOLEAN
  BY FlagTypes DEF Role
<1>2. pc \in [Bindings -> Pc] /\ job \in [Bindings -> Binding]
  BY Places, BindingTypes DEF Idle
<1>3. /\ valid \in [Bindings -> SUBSET Perms] /\ want \in [Bindings -> SUBSET Tuples]
      /\ have \in [Bindings -> SUBSET Tuples] /\ keep \in [Bindings -> SUBSET Tuples]
      /\ sibs \in [Bindings -> SUBSET (Bindings \X SUBSET Subjects)]
  BY DEF Idle
<1>4. changes \in 0..MaxChanges /\ faults \in 0..MaxFaults
  BY BoundTypes DEF Idle
<1> QED BY <1>1, <1>2, <1>3, <1>4 DEF Idle, TypeOK

LEMMA InitType == Init => TypeOK
<1> SUFFICES ASSUME Init PROVE TypeOK
  OBVIOUS
<1>1. bind \in [Bindings -> Binding]
  BY BindingTypes DEF Init
<1> QED BY <1>1, IdleType DEF Init

LEMMA SettledType == Settled => TypeOK
<1> SUFFICES ASSUME Settled PROVE TypeOK
  OBVIOUS
<1>1. \A b \in Bindings : [st |-> "live", fin |-> TRUE, subs |-> SubjectsOf[b]] \in Binding
  BY SubjectsOfType DEF Binding
<1>2. bind \in [Bindings -> Binding]
  BY <1>1 DEF Settled
<1>3. ASSUME NEW b \in Bindings PROVE Wanted(b) \in SUBSET Tuples
  <2>1. bind[b].subs \in SUBSET Subjects
    BY <1>2, BindingFields
  <2>2. role[RoleOf[b]].perms \in SUBSET Perms
    BY RoleOfType, RoleFields DEF Settled
  <2> QED BY <2>1, <2>2, GrantType DEF Wanted
<1>4. tuples \subseteq Tuples
  BY <1>3 DEF Settled
<1> QED BY <1>2, <1>4, IdleType DEF Settled

LEMMA SettledAnswered == Settled => AnsweredFor
<1> SUFFICES ASSUME Settled PROVE AnsweredFor
  OBVIOUS
<1>1. ASSUME NEW b \in Bindings
      PROVE  /\ bind[b].st = "live" /\ bind[b].fin /\ cbind[b] = bind[b]
             /\ pc[b] = "idle" /\ want[b] = {} /\ have[b] = {}
  BY DEF Settled, Idle
<1>2. ASSUME NEW b \in Bindings PROVE KnowsSharer(b)
  BY <1>1, Deletes DEF KnowsSharer, Stored
<1>3. ASSUME NEW t \in tuples PROVE \E c \in Bindings : Answers(c, t)
  <2>1. PICK c \in Bindings : t \in Wanted(c)
    BY DEF Settled
  <2>2. t[1] \in bind[c].subs
    BY <2>1, GrantSubjects DEF Wanted
  <2> QED BY <1>1, <2>2, Deletes DEF Answers, Stored
<1> QED BY <1>2, <1>3 DEF AnsweredFor, SharersInv

LEMMA SettledSparing == Settled /\ flag => SparingInv
<1> SUFFICES ASSUME Settled, flag PROVE SparingInv
  OBVIOUS
<1>1. \A b \in Bindings : KnowsEnough(b)
  <2>1. \A b \in Bindings : pc[b] = "idle"
    BY DEF Settled, Idle
  <2> QED BY <2>1, KnowsNothing
<1>2. SharedGrantsKept
  BY DEF Settled, SharedGrantsKept
<1> QED BY <1>1, <1>2, SettledAnswered DEF Settled, Idle, SparingInv, AnsweredFor, Less

-----------------------------------------------------------------------------
(* Theorems.                                                                *)

(* Every variable keeps the type the code gives it, from an empty start and   *)
(* through every edit, fault and restart. *)
THEOREM TypeCorrect == Spec => []TypeOK
  BY InitType, TypeStep, PTL DEF Spec

(* Settled bindings may be deleted in any order, while Roles and registrations *)
(* change in any way and the leader fails and restarts, with either flag: as  *)
(* long as no binding is created or edited, no tuple loses the last binding   *)
(* that names its subject (DeletePolicy, openFGAFinalizer). *)
THEOREM NoneLeftBehind == Settled /\ [][Next /\ NoneAdded]_vars => []NoOrphanGrants
<1>1. TypeOK /\ AnsweredFor /\ [Next /\ NoneAdded]_vars => TypeOK' /\ AnsweredFor'
  BY TypeStep, AnsweredStep
<1> QED BY <1>1, SettledType, SettledAnswered, AnsweredGrants, PTL

(* With the flag, settled bindings from which things are only taken away keep *)
(* every tuple they still ask for, faults and restarts included               *)
(* (siblingDesiredTuples, reconcilePolicy). *)
THEOREM NothingLost == Settled /\ flag /\ [][Next /\ OnlyTaken]_vars => []SharedGrantsKept
<1>1. TypeOK /\ SparingInv /\ [Next /\ OnlyTaken]_vars => TypeOK' /\ SparingInv'
  BY TypeStep, SparingStep
<1>2. SparingInv => SharedGrantsKept
  BY DEF SparingInv
<1> QED BY <1>1, <1>2, SettledType, SettledSparing, PTL

LEMMA MCStep ==
  TypeOK /\ SettledInv /\ [MCNext]_<<vars, cast>> => TypeOK' /\ SettledInv'
<1> SUFFICES ASSUME TypeOK, SettledInv, [MCNext]_<<vars, cast>> PROVE TypeOK' /\ SettledInv'
  OBVIOUS
<1>1. TypeOK'
  BY TypeStep DEF MCNext
<1>2. cast' = "settled" => cast = "settled" /\ [Next /\ OnlyTaken]_vars
  BY DEF MCNext, Taken
<1>3. [Next /\ OnlyTaken]_vars => [Next /\ NoneAdded]_vars
  BY DEF OnlyTaken
<1> QED BY <1>1, <1>2, <1>3, AnsweredStep, SparingStep DEF SettledInv

(* The inductive invariant of the settled cast: one binding answers for each  *)
(* tuple, and caches err towards keeping (DeletePolicy, siblingDesiredTuples). *)
THEOREM SharingInvariant == MCSpec => [](TypeOK /\ SettledInv)
<1>1. MCInit => TypeOK /\ SettledInv
  BY InitType, SettledType, SettledAnswered, SettledSparing DEF MCInit, SettledInv
<1> QED BY <1>1, MCStep, PTL DEF MCSpec

(* Bindings that were settled and share tuples leave none behind without a    *)
(* binding (DeletePolicy, openFGAFinalizer). *)
THEOREM SettledLeaveNone == MCSpec => []SettledNoOrphans
<1>1. SettledInv => SettledNoOrphans
  BY AnsweredGrants DEF SettledInv, SettledNoOrphans
<1> QED BY <1>1, SharingInvariant, PTL

(* What is only taken away costs no live binding a tuple (reconcilePolicy,    *)
(* siblingDesiredTuples). *)
THEOREM SettledLoseNone == MCSpec => []SettledGrantsKept
<1>1. SettledInv => SettledGrantsKept
  BY DEF SettledInv, SettledGrantsKept, SparingInv
<1> QED BY <1>1, SharingInvariant, PTL

=============================================================================
