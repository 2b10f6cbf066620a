------------------------- MODULE MembershipsProofs -------------------------
(***************************************************************************)
(* TLAPS proofs about Memberships, for all Users, ServiceAccounts, Groups   *)
(* and GroupMemberships, however often their names are used again, and for  *)
(* every number of faults. TypeOK /\ MembershipInv is inductive.            *)
(***************************************************************************)
EXTENDS Memberships, TLAPS

-----------------------------------------------------------------------------
(* Names and records.                                                       *)

LEMMA Names ==
  /\ \A p \in Principals : p \in Keys /\ p \in Objects /\ p \notin Members /\ p \notin Groups
  /\ \A p \in Users : p \in Principals /\ p \notin Accounts
  /\ \A p \in Accounts : p \in Principals /\ p \notin Users
  /\ \A m \in Members : /\ m \in Keys /\ m \in Objects /\ m \notin Principals /\ m \notin Groups
                        /\ UserOf[m] \in Users /\ GroupOf[m] \in Groups
                        /\ GroupOf[m] \in Objects /\ UserOf[m] \in Objects
  /\ \A g \in Groups : g \in Objects /\ g \notin Keys /\ g \notin Principals
  /\ \A k \in Keys : k \in Objects /\ k \notin Groups /\ (k \in Principals \/ k \in Members)
  BY NamesDiffer, RefTypes DEF Principals, Keys, Objects

LEMMA ObjectFields ==
  ASSUME NEW r \in Object
  PROVE  /\ r.uid \in Uids /\ r.uid \in Nat /\ r.del \in BOOLEAN /\ r.fin \in BOOLEAN
         /\ r.stat \in SUBSET (Refs \cup {"set"})
  BY SetTypes DEF Object, Uids

LEMMA AbsentType ==
  Absent \in Object /\ Absent.uid = 0 /\ Absent.del = FALSE /\ Absent.fin = FALSE
<1>1. 0 \in Uids
  BY SetTypes DEF Uids
<1> QED BY <1>1 DEF Absent, Object

LEMMA NoJobType ==
  /\ NoJob \in Job /\ NoJob.at = "idle" /\ NoJob.seen = Absent /\ NoJob.found = {} /\ NoJob.group = 0
<1>1. 0 \in Uids
  BY SetTypes DEF Uids
<1> QED BY <1>1, AbsentType DEF NoJob, Job

LEMMA JobFields ==
  ASSUME NEW j \in Job
  PROVE  j.seen \in Object /\ j.found \in SUBSET Refs /\ j.group \in Uids
  BY DEF Job

LEMMA EndType ==
  ASSUME TypeOK, NEW k \in Keys, NEW again, End(k, again)
  PROVE  job' \in [Keys -> Job] /\ queue' \subseteq Keys
  BY NoJobType DEF TypeOK, End

LEMMA AnsweredType ==
  ASSUME TypeOK, NEW ack \in BOOLEAN, Answered(ack) PROVE faults' \in 0..MaxFaults
  BY SetTypes DEF TypeOK, Answered

LEMMA GotoType ==
  ASSUME TypeOK, NEW k \in Keys,
         NEW at \in {"idle", "addFinalizer", "read", "write", "delete", "strip", "validate",
                     "check", "add", "status", "finalize", "recheck", "remove"},
         Goto(k, at)
  PROVE  job' \in [Keys -> Job] /\ queue' \subseteq Keys
<1>1. [job[k] EXCEPT !.at = at] \in Job
  BY DEF TypeOK, Job
<1> QED BY <1>1 DEF TypeOK, Goto

LEMMA StartType ==
  ASSUME TypeOK, NEW k \in Keys,
         NEW at \in {"idle", "addFinalizer", "read", "write", "delete", "strip", "validate",
                     "check", "add", "status", "finalize", "recheck", "remove"},
         Start(k, at)
  PROVE  TypeOK'
<1>1. cached[k] \in Object
  BY Names DEF TypeOK
<1>2. [NoJob EXCEPT !.at = at, !.seen = cached[k]] \in Job
  BY <1>1, NoJobType DEF Job
<1>3. job' \in [Keys -> Job] /\ queue' \subseteq Keys
  BY <1>2, NoJobType DEF TypeOK, Start
<1> QED BY <1>3 DEF TypeOK, Start, tuples

LEMMA UpdateType ==
  ASSUME TypeOK, NEW k \in Keys, NEW r \in Object, Update(k, r)
  PROVE  obj' \in [Objects -> Object]
  BY Names DEF TypeOK, Update

(* A token names an object that was there. *)
LEMMA TokenType ==
  ASSUME TypeOK, NEW p \in Principals, NEW r \in Object, Present(r)
  PROVE  Token(p, r) \in (Users \X {0}) \cup (Accounts \X (Uids \ {0}))
  BY Names, ObjectFields DEF Token, Present, Principals

LEMMA NoticeType ==
  ASSUME TypeOK, NEW o \in Objects, NEW r \in Object, Notice(o, r)
  PROVE  TypeOK'
<1>1. Requests(o) \subseteq Keys
  BY Names DEF Requests
<1> QED BY <1>1 DEF TypeOK, Notice, tuples

LEMMA LookUpType ==
  ASSUME TypeOK, NEW m \in Members, NEW from, NEW valid \in {"check", "recheck"},
         NEW invalid \in {"status", "strip"}, LookUp(m, from, valid, invalid)
  PROVE  TypeOK'
<1>1. Found(m) \in SUBSET Refs /\ cached[GroupOf[m]].uid \in Uids /\ m \in Keys
  BY Names, ObjectFields DEF Found, TypeOK
<1> DEFINE j == [job[m] EXCEPT !.at = IF Found(m) = Refs THEN valid ELSE invalid,
                               !.found = Found(m), !.group = cached[GroupOf[m]].uid]
<1>2. j \in Job
  BY <1>1 DEF TypeOK, Job
<1>3. job' = [job EXCEPT ![m] = j]
  BY <1>1 DEF LookUp, TypeOK, Job
<1> HIDE DEF j
<1> QED BY <1>1, <1>2, <1>3 DEF TypeOK, LookUp, tuples

LEMMA TypeStep == TypeOK /\ MembershipInv /\ [Next]_vars => TypeOK'
<1> SUFFICES ASSUME TypeOK, PrincipalInv, MemberInv, [Next]_vars PROVE TypeOK'
  BY DEF MembershipInv
<1>1. ASSUME NEW o \in Objects, Create(o) PROVE TypeOK'
  <2>1. left[o] \in 1..MaxTimes
    BY <1>1, SetTypes DEF Create, TypeOK
  <2>2. left[o] \in Uids /\ left[o] - 1 \in 0..MaxTimes
    BY <2>1, SetTypes DEF Uids
  <2>3. [Absent EXCEPT !.uid = left[o]] \in Object
    BY <2>2, AbsentType DEF Object
  <2> QED BY <1>1, <2>2, <2>3 DEF Create, TypeOK, tuples
<1>2. ASSUME NEW o \in Objects, Delete(o) PROVE TypeOK'
  <2>1. left[o] - 1 \in 0..MaxTimes
    BY <1>2, SetTypes DEF Delete, TypeOK
  <2>2. [obj[o] EXCEPT !.del = TRUE] \in Object
    BY DEF TypeOK, Object
  <2> QED BY <1>2, <2>1, <2>2 DEF Delete, TypeOK, tuples
<1>3. ASSUME NEW o \in Objects, Leave(o) PROVE TypeOK'
  BY <1>3, AbsentType DEF Leave, TypeOK, tuples
<1>4. ASSUME NEW o \in Objects, Observe(o) \/ Relist(o) PROVE TypeOK'
  <2>1. obj[o] \in Object /\ Absent \in Object
    BY AbsentType DEF TypeOK
  <2> QED BY <1>4, <2>1, NoticeType DEF Observe, Relist
<1>5. ASSUME NEW p \in Principals, StartPrincipal(p) PROVE TypeOK'
  <2>1. FirstStep(cached[p]) \in {"idle", "delete", "addFinalizer", "read"}
    BY DEF FirstStep, Live
  <2> QED BY <1>5, <2>1, Names, StartType DEF StartPrincipal
<1>6. ASSUME NEW m \in Members, StartMember(m) PROVE TypeOK'
  <2>1. FirstMemberStep(cached[m]) \in {"idle", "finalize", "addFinalizer", "validate"}
    BY DEF FirstMemberStep, Live
  <2> QED BY <1>6, <2>1, Names, StartType DEF StartMember
<1>7. ASSUME NEW p \in Principals, ReadTuple(p) PROVE TypeOK'
  <2>1. job' \in [Keys -> Job] /\ queue' \subseteq Keys
    BY <1>7, Names, EndType, GotoType DEF ReadTuple
  <2>2. faults' \in 0..MaxFaults
    <3>1. faults' = faults \/ (faults < MaxFaults /\ faults' = faults + 1)
      BY <1>7, Zenon DEF ReadTuple
    <3> QED BY <3>1, SetTypes DEF TypeOK
  <2> QED BY <1>7, <2>1, <2>2 DEF ReadTuple, TypeOK, tuples
<1>8. ASSUME NEW p \in Principals, NEW ack \in BOOLEAN, WriteTuple(p, ack) PROVE TypeOK'
  <2>1. job' \in [Keys -> Job] /\ queue' \subseteq Keys /\ faults' \in 0..MaxFaults
    BY <1>8, Names, EndType, AnsweredType DEF WriteTuple
  <2>2. Token(p, job[p].seen) \in (Users \X {0}) \cup (Accounts \X (Uids \ {0}))
    BY <1>8, Names, JobFields, TokenType DEF WriteTuple, PrincipalInv, Live, TypeOK
  <2> QED BY <1>8, <2>1, <2>2 DEF WriteTuple, TypeOK
<1>9. ASSUME NEW p \in Principals, NEW ack \in BOOLEAN, DeleteTuple(p, ack) PROVE TypeOK'
  <2>1. job' \in [Keys -> Job] /\ queue' \subseteq Keys /\ faults' \in 0..MaxFaults
    BY <1>9, Names, EndType, GotoType, AnsweredType DEF DeleteTuple, Continue
  <2> QED BY <1>9, <2>1 DEF DeleteTuple, TypeOK
<1>10. ASSUME NEW k \in Keys, NEW ack \in BOOLEAN, AddFinalizer(k, ack) PROVE TypeOK'
  <2>1. job' \in [Keys -> Job] /\ queue' \subseteq Keys /\ faults' \in 0..MaxFaults
    BY <1>10, EndType, AnsweredType DEF AddFinalizer
  <2>2. [obj[k] EXCEPT !.fin = TRUE] \in Object
    <3>1. obj[k] \in Object
      BY Names DEF TypeOK
    <3> QED BY <3>1 DEF Object
  <2>3. obj' \in [Objects -> Object]
    BY <1>10, <2>2, UpdateType DEF AddFinalizer
  <2> QED BY <1>10, <2>1, <2>3 DEF AddFinalizer, TypeOK, tuples
<1>11. ASSUME NEW k \in Keys, NEW ack \in BOOLEAN, Strip(k, ack) PROVE TypeOK'
  <2>1. job' \in [Keys -> Job] /\ queue' \subseteq Keys /\ faults' \in 0..MaxFaults
    BY <1>11, EndType, AnsweredType DEF Strip
  <2>2. [obj[k] EXCEPT !.fin = FALSE] \in Object
    <3>1. obj[k] \in Object
      BY Names DEF TypeOK
    <3> QED BY <3>1 DEF Object
  <2>3. obj' \in [Objects -> Object]
    BY <1>11, <2>2, UpdateType DEF Strip
  <2> QED BY <1>11, <2>1, <2>3 DEF Strip, TypeOK, tuples
<1>12. ASSUME NEW m \in Members, ValidateRefs(m) \/ Finalize(m) PROVE TypeOK'
  BY <1>12, LookUpType DEF ValidateRefs, Finalize
<1>13. ASSUME NEW m \in Members, CheckTuple(m) PROVE TypeOK'
  <2>1. job' \in [Keys -> Job] /\ queue' \subseteq Keys
    BY <1>13, Names, GotoType DEF CheckTuple
  <2> QED BY <1>13, <2>1 DEF CheckTuple, TypeOK, tuples
<1>14. ASSUME NEW m \in Members, NEW ack \in BOOLEAN, AddMember(m, ack) PROVE TypeOK'
  <2>1. job' \in [Keys -> Job] /\ queue' \subseteq Keys /\ faults' \in 0..MaxFaults
    BY <1>14, Names, EndType, GotoType, AnsweredType DEF AddMember, Continue
  <2>2. job[m].group \in Uids \ {0}
    BY <1>14, Names, JobFields DEF AddMember, MemberInv, TypeOK
  <2>3. MemberTuple(m, job[m].group) \in Users \X Groups \X (Uids \ {0})
    BY <2>2, Names DEF MemberTuple
  <2> QED BY <1>14, <2>1, <2>3 DEF AddMember, TypeOK
<1>15. ASSUME NEW m \in Members, NEW ack \in BOOLEAN, RemoveMember(m, ack) PROVE TypeOK'
  <2>1. job' \in [Keys -> Job] /\ queue' \subseteq Keys /\ faults' \in 0..MaxFaults
    BY <1>15, Names, EndType, GotoType, AnsweredType DEF RemoveMember, Continue
  <2> QED BY <1>15, <2>1 DEF RemoveMember, TypeOK
<1>16. ASSUME NEW m \in Members, NEW ack \in BOOLEAN, UpdateStatus(m, ack) PROVE TypeOK'
  <2>1. job' \in [Keys -> Job] /\ queue' \subseteq Keys
    BY <1>16, Names, EndType DEF UpdateStatus
  <2>2. faults' \in 0..MaxFaults
    BY <1>16, AnsweredType DEF UpdateStatus, TypeOK
  <2>3. [obj[m] EXCEPT !.stat = job[m].found \cup {"set"}] \in Object
    <3>1. job[m].found \cup {"set"} \in SUBSET (Refs \cup {"set"})
      BY Names, JobFields DEF TypeOK
    <3> QED BY <3>1, Names DEF TypeOK, Object
  <2>4. obj' \in [Objects -> Object]
    BY <1>16, <2>3, Names, UpdateType DEF UpdateStatus, TypeOK
  <2> QED BY <1>16, <2>1, <2>2, <2>4 DEF UpdateStatus, TypeOK, tuples
<1>17. ASSUME NEW k \in Keys, Fail(k) PROVE TypeOK'
  <2>1. job' \in [Keys -> Job] /\ queue' \subseteq Keys
    BY <1>17, EndType DEF Fail
  <2>2. faults' \in 0..MaxFaults
    BY <1>17, SetTypes DEF Fail, TypeOK
  <2> QED BY <1>17, <2>1, <2>2 DEF Fail, TypeOK, tuples
<1>18. CASE Restart
  <2>1. faults' \in 0..MaxFaults
    BY <1>18, SetTypes DEF Restart, TypeOK
  <2> QED BY <1>18, <2>1, NoJobType DEF Restart, TypeOK, tuples
<1>19. CASE UNCHANGED vars
  BY <1>19 DEF vars, TypeOK
<1> QED
  BY <1>1, <1>2, <1>3, <1>4, <1>5, <1>6, <1>7, <1>8, <1>9, <1>10, <1>11, <1>12, <1>13, <1>14,
     <1>15, <1>16, <1>17, <1>18, <1>19, Names DEF Next, PrincipalStep, MemberStep

-----------------------------------------------------------------------------
(* The invariant.                                                           *)

LEMMA Members3 ==
  ASSUME TypeOK, NEW t \in members
  PROVE  t[1] \in Users /\ t[2] \in Groups /\ t[2] \in Objects /\ t[3] \in Nat /\ t[3] # 0
<1>1. t[3] \in Uids \ {0} /\ t[1] \in Users /\ t[2] \in Groups
  BY DEF TypeOK
<1> QED BY <1>1, Names, SetTypes DEF Uids

LEMMA Authenticated2 ==
  ASSUME TypeOK, NEW t \in authenticated
  PROVE  t[1] \in Principals /\ t[1] \in Objects
  BY Names DEF TypeOK

LEMMA NaturalUids ==
  ASSUME TypeOK
  PROVE  /\ \A o \in Objects : obj[o].uid \in Nat /\ cached[o].uid \in Nat /\ left[o] \in Nat
         /\ \A k \in Keys : job[k].seen.uid \in Nat /\ job[k].group \in Nat
<1>1. \A o \in Objects : obj[o].uid \in Nat /\ cached[o].uid \in Nat /\ left[o] \in Nat
  BY ObjectFields, SetTypes DEF TypeOK
<1>2. \A k \in Keys : job[k].seen.uid \in Nat
  BY ObjectFields, JobFields DEF TypeOK
<1>3. \A k \in Keys : job[k].group \in Nat
  BY JobFields, SetTypes DEF TypeOK, Uids
<1> QED BY <1>1, <1>2, <1>3

(* What happens to an object in storage, when its users and others act: it   *)
(* comes with a UID nobody has seen, and leaves only without our finalizer. *)
LEMMA StorageStep ==
  ASSUME TypeOK, MembershipInv, NEW o \in Objects, Create(o) \/ Delete(o) \/ Leave(o)
  PROVE  MembershipInv'
<1>1. /\ UNCHANGED <<cached, job, authenticated, members>>
      /\ \A x \in Objects : x # o => obj'[x] = obj[x] /\ left'[x] = left[x]
  BY DEF Create, Delete, Leave, TypeOK, tuples
<1>2. \/ /\ obj[o].uid = 0 /\ left[o] > 0 /\ left'[o] = left[o] - 1
         /\ obj'[o].uid = left[o] /\ ~obj'[o].del /\ ~obj'[o].fin
      \/ /\ obj[o].uid # 0 /\ left[o] > 0 /\ left'[o] = left[o] - 1
         /\ obj'[o].uid = obj[o].uid /\ obj'[o].del /\ obj'[o].fin = obj[o].fin
      \/ /\ ~obj[o].fin /\ left'[o] = left[o]
         /\ obj'[o].uid = 0 /\ ~obj'[o].del /\ ~obj'[o].fin
  <2>1. CASE Create(o)
    BY <2>1, AbsentType DEF Create, TypeOK, Present, Absent, Object
  <2>2. CASE Delete(o)
    BY <2>2 DEF Delete, TypeOK, Live, Present, Object
  <2>3. CASE Leave(o)
    BY <2>3, AbsentType DEF Leave, TypeOK
  <2> QED BY <2>1, <2>2, <2>3
<1>3. /\ obj[o].uid \in Nat /\ cached[o].uid \in Nat /\ left[o] \in Nat
      /\ o \in Keys => job[o].seen.uid \in Nat
  BY NaturalUids
<1>4. /\ cached[o].uid # 0 => left[o] < cached[o].uid
      /\ o \in Keys /\ job[o].seen.uid # 0 => left[o] < job[o].seen.uid
      /\ obj[o].uid # 0 => left[o] < obj[o].uid
      /\ \A m \in Members : GroupOf[m] = o /\ job[m].group # 0 => left[o] < job[m].group
      /\ \A t \in members : t[2] = o => left[o] < t[3]
  BY DEF MembershipInv, FreshInv, Present
<1>5. FreshInv'
  <2>1. \A x \in Objects : \A c \in {obj'[x], cached'[x]} : Present(c) => left'[x] < c.uid
    <3>1. ASSUME NEW x \in Objects, x # o PROVE \A c \in {obj'[x], cached'[x]} : Present(c) => left'[x] < c.uid
      BY <1>1, <3>1 DEF MembershipInv, FreshInv
    <3>2. \A c \in {obj'[o], cached'[o]} : Present(c) => left'[o] < c.uid
      BY <1>1, <1>2, <1>3, <1>4 DEF Present
    <3> QED BY <3>1, <3>2
  <2>2. ASSUME NEW k \in Keys, Present(job[k].seen) PROVE left'[k] < job[k].seen.uid
    <3>1. CASE k # o
      BY <1>1, <2>2, <3>1, Names DEF MembershipInv, FreshInv
    <3>2. CASE k = o
      BY <1>2, <1>3, <1>4, <2>2, <3>2 DEF Present
    <3> QED BY <3>1, <3>2
  <2>3. ASSUME NEW m \in Members, job[m].group # 0 PROVE left'[GroupOf[m]] < job[m].group
    <3>1. CASE GroupOf[m] # o
      BY <1>1, <2>3, <3>1, Names DEF MembershipInv, FreshInv
    <3>2. CASE GroupOf[m] = o
      BY <1>2, <1>3, <1>4, <2>3, <3>2, Names, NaturalUids
    <3> QED BY <3>1, <3>2
  <2>4. ASSUME NEW t \in members PROVE left'[t[2]] < t[3]
    <3>1. CASE t[2] # o
      BY <1>1, <2>4, <3>1, Members3 DEF MembershipInv, FreshInv
    <3>2. CASE t[2] = o
      BY <1>2, <1>3, <1>4, <2>4, <3>2, Members3
    <3> QED BY <3>1, <3>2
  <2> QED BY <1>1, <2>1, <2>2, <2>3, <2>4 DEF FreshInv
<1>6. CopyInv'
  <2> SUFFICES ASSUME NEW p \in Principals
               PROVE  /\ Same(cached[p], obj'[p]) /\ cached[p].del => obj'[p].del
                      /\ Same(job[p].seen, obj'[p]) =>
                           cached[p].uid = obj'[p].uid /\ (job[p].seen.del => cached[p].del)
                      /\ \A c \in {cached[p], job[p].seen} :
                           Live(c) /\ c.fin => c.uid = obj'[p].uid /\ obj'[p].fin
    BY <1>1 DEF CopyInv
  <2>1. /\ Same(cached[p], obj[p]) /\ cached[p].del => obj[p].del
        /\ Same(job[p].seen, obj[p]) =>
             cached[p].uid = obj[p].uid /\ (job[p].seen.del => cached[p].del)
        /\ \A c \in {cached[p], job[p].seen} :
             Live(c) /\ c.fin => c.uid = obj[p].uid /\ obj[p].fin
    BY DEF MembershipInv, CopyInv
  <2>2. CASE p # o
    BY <1>1, <2>1, <2>2, Names
  <2>3. CASE p = o
    <3>1. o \in Keys
      BY <2>3, Names
    <3>2. Same(cached[o], obj'[o]) /\ cached[o].del => obj'[o].del
      BY <1>2, <1>3, <1>4, <2>1, <2>3 DEF Same, Present
    <3>3. Same(job[o].seen, obj'[o]) =>
            cached[o].uid = obj'[o].uid /\ (job[o].seen.del => cached[o].del)
      BY <1>2, <1>3, <1>4, <2>1, <2>3, <3>1 DEF Same, Present
    <3>4. \A c \in {cached[o], job[o].seen} :
            Live(c) /\ c.fin => c.uid = obj'[o].uid /\ obj'[o].fin
      BY <1>2, <2>1, <2>3 DEF Live, Present
    <3> QED BY <2>3, <3>2, <3>3, <3>4
  <2> QED BY <2>2, <2>3
<1>7. PrincipalInv'
  BY <1>1 DEF MembershipInv, PrincipalInv, Token
<1>8. MemberInv'
  <2>1. ASSUME NEW t \in members, t[3] = obj'[t[2]].uid PROVE cached[t[2]].uid = t[3]
    <3>1. t[3] = obj[t[2]].uid
      BY <1>1, <1>2, <1>3, <1>4, <2>1, Members3
    <3> QED BY <3>1 DEF MembershipInv, MemberInv
  <2>2. ASSUME NEW m \in Members, job[m].group # 0, job[m].group = obj'[GroupOf[m]].uid
        PROVE  cached[GroupOf[m]].uid = job[m].group
    <3>1. job[m].group = obj[GroupOf[m]].uid
      BY <1>1, <1>2, <1>3, <1>4, <2>2, Names, NaturalUids
    <3> QED BY <2>2, <3>1 DEF MembershipInv, MemberInv
  <2>3. ASSUME NEW m \in Members, MemberTuple(m, obj'[GroupOf[m]].uid) \in members
        PROVE  obj'[GroupOf[m]].uid = obj[GroupOf[m]].uid
    <3>1. /\ MemberTuple(m, obj'[GroupOf[m]].uid)[2] = GroupOf[m]
          /\ MemberTuple(m, obj'[GroupOf[m]].uid)[3] = obj'[GroupOf[m]].uid
      BY DEF MemberTuple
    <3>2. obj'[GroupOf[m]].uid # 0 /\ (GroupOf[m] = o => left[o] < obj'[o].uid)
      BY <1>4, <2>3, <3>1, Members3
    <3> QED BY <1>1, <1>2, <1>3, <3>2, Names
  <2>4. ASSUME NEW m \in Members
        PROVE  /\ job[m].at = "addFinalizer" => Present(job[m].seen)
               /\ job[m].at \in {"check", "add", "recheck", "remove"} => job[m].group # 0
               /\ job[m].at \in {"recheck", "remove", "strip"} /\ job[m].found = Refs /\ Others(m) = {} =>
                    /\ MemberTuple(m, obj[GroupOf[m]].uid) \in members => obj[GroupOf[m]].uid = job[m].group
                    /\ job[m].at = "strip" => MemberTuple(m, job[m].group) \notin members
    BY DEF MembershipInv, MemberInv
  <2>5. ASSUME NEW m \in Members, job[m].at \in {"recheck", "remove", "strip"}, job[m].found = Refs,
               Others(m) = {}, MemberTuple(m, obj'[GroupOf[m]].uid) \in members
        PROVE  obj'[GroupOf[m]].uid = job[m].group
    BY <2>3, <2>4, <2>5
  <2>6. ASSUME NEW m \in Members, obj'[m].fin PROVE Present(obj'[m])
    <3>1. obj[m].fin => Present(obj[m])
      BY DEF MembershipInv, MemberInv
    <3> QED BY <1>1, <1>2, <2>6, <3>1, Names DEF Present
  <2> QED BY <1>1, <2>1, <2>2, <2>4, <2>5, <2>6 DEF MemberInv, MemberTuple, Others
<1>9. NoOrphanAuthenticated'
  <2> SUFFICES ASSUME NEW t \in authenticated
               PROVE  /\ Present(obj'[t[1]]) /\ obj'[t[1]].fin
                      /\ t = Token(t[1], obj'[t[1]])
    BY <1>1 DEF NoOrphanAuthenticated, Token
  <2>1. Present(obj[t[1]]) /\ obj[t[1]].fin /\ t = Token(t[1], obj[t[1]])
    BY DEF MembershipInv, NoOrphanAuthenticated
  <2>2. t[1] \in Objects
    BY Authenticated2
  <2>3. CASE t[1] # o
    BY <1>1, <2>1, <2>2, <2>3
  <2>4. CASE t[1] = o
    <3>1. obj'[o].uid = obj[o].uid /\ obj'[o].fin
      BY <1>2, <2>1, <2>4 DEF Present
    <3> QED BY <2>1, <2>4, <3>1 DEF Present, Token
  <2> QED BY <2>3, <2>4
<1> QED BY <1>5, <1>6, <1>7, <1>8, <1>9 DEF MembershipInv

(* A copy is refreshed: with what is stored, or with the end of an earlier    *)
(* incarnation. *)
LEMMA NoticeStep ==
  ASSUME TypeOK, MembershipInv, NEW o \in Objects, Observe(o) \/ Relist(o)
  PROVE  MembershipInv'
<1>1. /\ UNCHANGED <<obj, left, job, authenticated, members>>
      /\ \A x \in Objects : x # o => cached'[x] = cached[x]
      /\ \/ cached'[o] = obj[o]
         \/ cached'[o] = Absent /\ cached[o].uid # obj[o].uid
  BY DEF Observe, Relist, Notice, TypeOK, tuples
<1>2. FreshInv'
  <2>1. ASSUME NEW x \in Objects, NEW c \in {obj[x], cached'[x]}, Present(c) PROVE left[x] < c.uid
    BY <1>1, <2>1, AbsentType DEF MembershipInv, FreshInv, Present
  <2> QED BY <1>1, <2>1 DEF MembershipInv, FreshInv
<1>3. CopyInv'
  <2> SUFFICES ASSUME NEW p \in Principals
               PROVE  /\ Same(cached'[p], obj[p]) /\ cached'[p].del => obj[p].del
                      /\ Same(job[p].seen, obj[p]) =>
                           cached'[p].uid = obj[p].uid /\ (job[p].seen.del => cached'[p].del)
                      /\ \A c \in {cached'[p], job[p].seen} :
                           Live(c) /\ c.fin => c.uid = obj[p].uid /\ obj[p].fin
    BY <1>1 DEF CopyInv
  <2>1. /\ Same(cached[p], obj[p]) /\ cached[p].del => obj[p].del
        /\ Same(job[p].seen, obj[p]) =>
             cached[p].uid = obj[p].uid /\ (job[p].seen.del => cached[p].del)
        /\ \A c \in {cached[p], job[p].seen} :
             Live(c) /\ c.fin => c.uid = obj[p].uid /\ obj[p].fin
    BY DEF MembershipInv, CopyInv
  <2>2. CASE p # o
    BY <1>1, <2>1, <2>2, Names
  <2>3. CASE p = o /\ cached'[o] = obj[o]
    BY <2>1, <2>3 DEF Same, Present, Live
  <2>4. CASE p = o /\ cached'[o] = Absent /\ cached[o].uid # obj[o].uid
    BY <2>1, <2>4, AbsentType DEF Same, Present, Live
  <2> QED BY <1>1, <2>2, <2>3, <2>4
<1>4. PrincipalInv' /\ NoOrphanAuthenticated'
  BY <1>1 DEF MembershipInv, PrincipalInv, NoOrphanAuthenticated, Token
<1>5. MemberInv'
  <2>1. ASSUME NEW g \in Groups, cached[g].uid = obj[g].uid PROVE cached'[g].uid = obj[g].uid
    BY <1>1, <2>1, Names
  <2>2. ASSUME NEW t \in members, t[3] = obj[t[2]].uid PROVE cached'[t[2]].uid = t[3]
    BY <2>1, <2>2, Members3 DEF MembershipInv, MemberInv
  <2>3. ASSUME NEW m \in Members, job[m].group # 0, job[m].group = obj[GroupOf[m]].uid
        PROVE  cached'[GroupOf[m]].uid = obj[GroupOf[m]].uid
    BY <2>1, <2>3, Names DEF MembershipInv, MemberInv
  <2> QED BY <1>1, <2>2, <2>3 DEF MembershipInv, MemberInv, MemberTuple, Others
<1> QED BY <1>2, <1>3, <1>4, <1>5 DEF MembershipInv

LEMMA RestartStep ==
  ASSUME TypeOK, MembershipInv, Restart PROVE MembershipInv'
<1>1. /\ UNCHANGED <<obj, left, authenticated, members>> /\ cached' = obj
      /\ \A k \in Keys : job'[k] = NoJob
  BY DEF Restart, tuples
<1>2. \A k \in Keys : job'[k].at = "idle" /\ job'[k].seen.uid = 0 /\ job'[k].group = 0
  BY <1>1, NoJobType, AbsentType
<1>3. FreshInv'
  BY <1>1, <1>2, Names DEF MembershipInv, FreshInv, Present
<1>4. CopyInv'
  BY <1>1, <1>2, Names DEF CopyInv, Same, Live, Present
<1>5. PrincipalInv' /\ NoOrphanAuthenticated'
  BY <1>1, <1>2, Names DEF MembershipInv, PrincipalInv, NoOrphanAuthenticated, Token
<1>6. MemberInv'
  BY <1>1, <1>2, Names DEF MembershipInv, MemberInv
<1> QED BY <1>3, <1>4, <1>5, <1>6 DEF MembershipInv

(* What a worker does to its own job: it reads the cached copy when it begins, *)
(* and forgets it when it ends. Copies in storage and in the cache stay. *)
LEMMA CopiesStay ==
  ASSUME TypeOK, MembershipInv, UNCHANGED <<obj, cached, left>>,
         \A k \in Keys : job'[k].seen \in {job[k].seen, cached[k], Absent},
         \A m \in Members : job'[m].group \in {job[m].group, cached[GroupOf[m]].uid, 0},
         \A t \in members' : t \in members \/ \E m \in Members : /\ t = MemberTuple(m, job[m].group)
                                                                 /\ job[m].group # 0
  PROVE  FreshInv' /\ CopyInv'
<1>1. FreshInv'
  <2>1. ASSUME NEW k \in Keys, Present(job'[k].seen) PROVE left[k] < job'[k].seen.uid
    BY <2>1, Names, AbsentType DEF MembershipInv, FreshInv, Present
  <2>2. ASSUME NEW m \in Members, job'[m].group # 0 PROVE left[GroupOf[m]] < job'[m].group
    BY <2>2, Names DEF MembershipInv, FreshInv, Present
  <2>3. ASSUME NEW t \in members' PROVE left[t[2]] < t[3]
    BY <2>3 DEF MembershipInv, FreshInv, MemberTuple
  <2> QED BY <2>1, <2>2, <2>3 DEF MembershipInv, FreshInv
<1>2. CopyInv'
  <2> SUFFICES ASSUME NEW p \in Principals
               PROVE  /\ Same(job'[p].seen, obj[p]) =>
                           cached[p].uid = obj[p].uid /\ (job'[p].seen.del => cached[p].del)
                      /\ Live(job'[p].seen) /\ job'[p].seen.fin =>
                           job'[p].seen.uid = obj[p].uid /\ obj[p].fin
    BY DEF MembershipInv, CopyInv
  <2>1. job'[p].seen \in {job[p].seen, cached[p], Absent}
    BY Names
  <2>2. CASE job'[p].seen = Absent
    BY <2>2, AbsentType DEF Same, Present, Live
  <2>3. CASE job'[p].seen = cached[p]
    BY <2>3 DEF Same, Present, Live, MembershipInv, CopyInv
  <2>4. CASE job'[p].seen = job[p].seen
    BY <2>4 DEF MembershipInv, CopyInv
  <2> QED BY <2>1, <2>2, <2>3, <2>4
<1> QED BY <1>1, <1>2

(* The other keys. *)
LEMMA OthersStay ==
  ASSUME TypeOK, MembershipInv, NEW k \in Keys, UNCHANGED <<obj, cached>>,
         \A x \in Keys : x # k => job'[x] = job[x],
         members' = members,
         \A p \in Principals : p # k => \A r : Token(p, r) \in authenticated' => Token(p, r) \in authenticated
  PROVE  /\ \A p \in Principals : p # k =>
             /\ job'[p].at \in {"read", "write"} => Live(job'[p].seen) /\ job'[p].seen.fin
             /\ job'[p].at \in {"delete", "strip"} => Present(job'[p].seen) /\ job'[p].seen.del
             /\ job'[p].at = "strip" => Token(p, job'[p].seen) \notin authenticated'
         /\ k \notin Members => MemberInv'
<1>1. \A p \in Principals : p # k => job'[p] = job[p]
  BY Names
<1>2. \A p \in Principals : p # k =>
             /\ job'[p].at \in {"read", "write"} => Live(job'[p].seen) /\ job'[p].seen.fin
             /\ job'[p].at \in {"delete", "strip"} => Present(job'[p].seen) /\ job'[p].seen.del
             /\ job'[p].at = "strip" => Token(p, job'[p].seen) \notin authenticated'
  BY <1>1 DEF MembershipInv, PrincipalInv
<1>3. ASSUME k \notin Members PROVE MemberInv'
  <2>1. \A m \in Members : job'[m] = job[m]
    BY <1>3, Names
  <2> QED BY <2>1 DEF MembershipInv, MemberInv, MemberTuple, Others
<1> QED BY <1>2, <1>3

(* A step of a User's or ServiceAccount's own worker, except for Updates. *)
LEMMA PrincipalOwnStep ==
  ASSUME TypeOK, MembershipInv, NEW p \in Principals, NEW j, UNCHANGED <<obj, cached, left, members>>,
         job' = [job EXCEPT ![p] = j], j.seen \in {job[p].seen, cached[p], Absent},
         j.at \in {"read", "write"} => Live(j.seen) /\ j.seen.fin,
         j.at \in {"delete", "strip"} => Present(j.seen) /\ j.seen.del,
         j.at = "strip" => Token(p, j.seen) \notin authenticated',
         \A t \in authenticated' : t \in authenticated
                                   \/ (t = Token(p, job[p].seen) /\ job[p].at = "write")
  PROVE  MembershipInv'
<1>1. p \in Keys /\ p \notin Members /\ job'[p] = j /\ \A x \in Keys : x # p => job'[x] = job[x]
  BY Names DEF TypeOK
<1>2. FreshInv' /\ CopyInv'
  BY <1>1, Names, CopiesStay
<1>3. \A q \in Principals : q # p => \A r : Token(q, r) \in authenticated' => Token(q, r) \in authenticated
  BY DEF Token
<1>4. PrincipalInv' /\ MemberInv'
  <2>1. \A q \in Principals : q # p =>
             /\ job'[q].at \in {"read", "write"} => Live(job'[q].seen) /\ job'[q].seen.fin
             /\ job'[q].at \in {"delete", "strip"} => Present(job'[q].seen) /\ job'[q].seen.del
             /\ job'[q].at = "strip" => Token(q, job'[q].seen) \notin authenticated'
    BY <1>1, <1>3, OthersStay
  <2>2. MemberInv'
    BY <1>1, <1>3, OthersStay
  <2> QED BY <1>1, <2>1, <2>2 DEF PrincipalInv, Token
<1>5. NoOrphanAuthenticated'
  <2> SUFFICES ASSUME NEW t \in authenticated', t \notin authenticated
               PROVE  Present(obj[p]) /\ obj[p].fin /\ t = Token(p, obj[p])
    BY DEF MembershipInv, NoOrphanAuthenticated, Token
  <2>1. job[p].at = "write" /\ t = Token(p, job[p].seen)
    OBVIOUS
  <2>2. Live(job[p].seen) /\ job[p].seen.fin
    BY <2>1 DEF MembershipInv, PrincipalInv
  <2>3. job[p].seen.uid = obj[p].uid /\ obj[p].fin
    BY <2>2 DEF MembershipInv, CopyInv
  <2> QED BY <2>1, <2>2, <2>3 DEF Live, Present, Token
<1> QED BY <1>2, <1>4, <1>5 DEF MembershipInv

LEMMA PrincipalSteps ==
  ASSUME TypeOK, MembershipInv, NEW p \in Principals,
         StartPrincipal(p) \/ ReadTuple(p) \/ Fail(p)
         \/ \E ack \in BOOLEAN : WriteTuple(p, ack) \/ DeleteTuple(p, ack)
  PROVE  MembershipInv'
<1>0. p \in Keys /\ job[p] \in Job /\ cached[p] \in Object
  BY Names DEF TypeOK
<1>1. CASE StartPrincipal(p)
  <2> DEFINE at == FirstStep(cached[p])
             j == IF at = "idle" THEN NoJob ELSE [NoJob EXCEPT !.at = at, !.seen = cached[p]]
  <2>1. UNCHANGED <<obj, cached, left, authenticated, members>> /\ job' = [job EXCEPT ![p] = j]
    BY <1>1 DEF StartPrincipal, Start, tuples
  <2>2. /\ at \in {"idle", "delete", "addFinalizer", "read"}
        /\ at = "read" => Live(cached[p]) /\ cached[p].fin
        /\ at = "delete" => Present(cached[p]) /\ cached[p].del
    <3>1. cached[p].del \in BOOLEAN /\ cached[p].fin \in BOOLEAN
      BY <1>0, ObjectFields
    <3> QED BY <3>1 DEF FirstStep, Live
  <2> HIDE DEF at
  <2>3. j.seen \in {cached[p], Absent} /\ (j.at # "idle" => j.at = at /\ j.seen = cached[p])
    BY NoJobType DEF Job
  <2> HIDE DEF j
  <2> QED BY <2>1, <2>2, <2>3, PrincipalOwnStep
<1>2. ASSUME job' = [job EXCEPT ![p] = NoJob], UNCHANGED <<obj, cached, left, members>>,
             \A t \in authenticated' : t \in authenticated
                                   \/ (t = Token(p, job[p].seen) /\ job[p].at = "write")
      PROVE  MembershipInv'
  BY <1>2, NoJobType, PrincipalOwnStep
<1>3. CASE Fail(p)
  <2>1. job' = [job EXCEPT ![p] = NoJob] /\ UNCHANGED <<obj, cached, left, members, authenticated>>
    BY <1>3 DEF Fail, End, tuples
  <2> QED BY <1>2, <2>1
<1>4. CASE ReadTuple(p)
  <2>1. UNCHANGED <<obj, cached, left, members, authenticated>> /\ job[p].at = "read"
    BY <1>4 DEF ReadTuple, tuples
  <2>2. job' = [job EXCEPT ![p] = NoJob] \/ job' = [job EXCEPT ![p].at = "write"]
    BY <1>4 DEF ReadTuple, End, Goto
  <2>3. CASE job' = [job EXCEPT ![p].at = "write"]
    <3> DEFINE j == [job[p] EXCEPT !.at = "write"]
    <3>1. job' = [job EXCEPT ![p] = j] /\ j.at = "write" /\ j.seen = job[p].seen
      BY <1>0, <2>3 DEF Job
    <3>2. Live(job[p].seen) /\ job[p].seen.fin
      BY <2>1 DEF MembershipInv, PrincipalInv
    <3> HIDE DEF j
    <3> QED BY <2>1, <3>1, <3>2, PrincipalOwnStep
  <2> QED BY <1>2, <2>1, <2>2, <2>3
<1>5. ASSUME NEW ack \in BOOLEAN, WriteTuple(p, ack) PROVE MembershipInv'
  <2>1. job' = [job EXCEPT ![p] = NoJob] /\ UNCHANGED <<obj, cached, left, members>>
        /\ job[p].at = "write" /\ authenticated' = authenticated \cup {Token(p, job[p].seen)}
    BY <1>5 DEF WriteTuple, End
  <2> QED BY <1>2, <2>1
<1>6. ASSUME NEW ack \in BOOLEAN, DeleteTuple(p, ack) PROVE MembershipInv'
  <2>1. /\ UNCHANGED <<obj, cached, left, members>> /\ job[p].at = "delete"
        /\ authenticated' = authenticated \ {Token(p, job[p].seen)}
    BY <1>6 DEF DeleteTuple
  <2>2. job' = [job EXCEPT ![p] = NoJob] \/ job' = [job EXCEPT ![p].at = "strip"]
    BY <1>6 DEF DeleteTuple, Continue, End, Goto
  <2>3. CASE job' = [job EXCEPT ![p].at = "strip"]
    <3> DEFINE j == [job[p] EXCEPT !.at = "strip"]
    <3>1. job' = [job EXCEPT ![p] = j] /\ j.at = "strip" /\ j.seen = job[p].seen
      BY <1>0, <2>3 DEF Job
    <3>2. Present(job[p].seen) /\ job[p].seen.del
      BY <2>1 DEF MembershipInv, PrincipalInv
    <3> HIDE DEF j
    <3> QED BY <2>1, <3>1, <3>2, PrincipalOwnStep
  <2> QED BY <1>2, <2>1, <2>2, <2>3
<1> QED BY <1>1, <1>3, <1>4, <1>5, <1>6

(* A step of a GroupMembership's own worker, except for Updates. *)
LEMMA MemberOwnStep ==
  ASSUME TypeOK, MembershipInv, NEW m \in Members, NEW j, UNCHANGED <<obj, cached, left, authenticated>>,
         job' = [job EXCEPT ![m] = j], j.seen \in {job[m].seen, cached[m], Absent},
         j.group \in {job[m].group, cached[GroupOf[m]].uid, 0},
         j.at = "addFinalizer" => Present(j.seen),
         j.at \in {"check", "add", "recheck", "remove"} => j.group # 0,
         \A t : t \in members' => t \in members
                                  \/ (t = MemberTuple(m, job[m].group) /\ job[m].at = "add"),
         j.at \in {"recheck", "remove", "strip"} /\ j.found = Refs /\ Others(m) = {} =>
             /\ MemberTuple(m, obj[GroupOf[m]].uid) \in members' => obj[GroupOf[m]].uid = j.group
             /\ j.at = "strip" => MemberTuple(m, j.group) \notin members'
  PROVE  MembershipInv'
<1>1. m \in Keys /\ m \notin Principals /\ job'[m] = j /\ \A x \in Keys : x # m => job'[x] = job[x]
  BY Names DEF TypeOK
<1>2. job[m].at = "add" => job[m].group # 0
  BY DEF MembershipInv, MemberInv
<1>3. FreshInv' /\ CopyInv'
  <2>1. \A k \in Keys : job'[k].seen \in {job[k].seen, cached[k], Absent}
    BY <1>1
  <2>2. \A n \in Members : job'[n].group \in {job[n].group, cached[GroupOf[n]].uid, 0}
    BY <1>1, Names
  <2> QED BY <1>2, <2>1, <2>2, CopiesStay
<1>4. \A p \in Principals : job'[p] = job[p]
  BY <1>1, Names
<1>5. PrincipalInv' /\ NoOrphanAuthenticated'
  BY <1>4 DEF MembershipInv, PrincipalInv, NoOrphanAuthenticated, Token
<1>6. MemberInv'
  <2>1. ASSUME NEW t \in members', t[3] = obj[t[2]].uid PROVE cached[t[2]].uid = t[3]
    BY <1>2, <2>1 DEF MembershipInv, MemberInv, MemberTuple
  <2>2. ASSUME NEW n \in Members, n # m
        PROVE  /\ job[n].at = "addFinalizer" => Present(job[n].seen)
               /\ job[n].at \in {"check", "add", "recheck", "remove"} => job[n].group # 0
               /\ job[n].group # 0 /\ job[n].group = obj[GroupOf[n]].uid =>
                    cached[GroupOf[n]].uid = obj[GroupOf[n]].uid
               /\ job[n].at \in {"recheck", "remove", "strip"} /\ job[n].found = Refs /\ Others(n) = {} =>
                    /\ MemberTuple(n, obj[GroupOf[n]].uid) \in members' =>
                         obj[GroupOf[n]].uid = job[n].group
                    /\ job[n].at = "strip" => MemberTuple(n, job[n].group) \notin members'
    <3>1. ASSUME Others(n) = {}, NEW g, MemberTuple(n, g) \in members' PROVE MemberTuple(n, g) \in members
      <4>1. UserOf[m] # UserOf[n] \/ GroupOf[m] # GroupOf[n]
        BY <2>2, <3>1 DEF Others
      <4> QED BY <3>1, <4>1 DEF MemberTuple
    <3> QED BY <3>1 DEF MembershipInv, MemberInv
  <2>3. j.group # 0 /\ j.group = obj[GroupOf[m]].uid => cached[GroupOf[m]].uid = obj[GroupOf[m]].uid
    BY DEF MembershipInv, MemberInv
  <2>4. \A n \in Members : obj[n].fin => Present(obj[n])
    BY DEF MembershipInv, MemberInv
  <2> QED BY <1>1, <2>1, <2>2, <2>3, <2>4, Names DEF MemberInv, MemberTuple, Others
<1> QED BY <1>3, <1>5, <1>6 DEF MembershipInv

(* A worker that goes on keeps what it has read and found. *)
LEMMA GotoJob ==
  ASSUME TypeOK, NEW k \in Keys, NEW at, Goto(k, at)
  PROVE  \E j : /\ job' = [job EXCEPT ![k] = j] /\ j.at = at
                /\ j.seen = job[k].seen /\ j.found = job[k].found /\ j.group = job[k].group
<1> DEFINE j == [job[k] EXCEPT !.at = at]
<1>1. job' = [job EXCEPT ![k] = j]
  BY DEF Goto, TypeOK
<1>2. j.at = at /\ j.seen = job[k].seen /\ j.found = job[k].found /\ j.group = job[k].group
  BY DEF TypeOK, Job
<1> HIDE DEF j
<1> QED BY <1>1, <1>2

LEMMA MemberEnds ==
  ASSUME TypeOK, MembershipInv, NEW m \in Members, UNCHANGED <<obj, cached, left, authenticated>>,
         job' = [job EXCEPT ![m] = NoJob],
         \A t : t \in members' => t \in members
                                  \/ (t = MemberTuple(m, job[m].group) /\ job[m].at = "add")
  PROVE  MembershipInv'
  BY NoJobType, MemberOwnStep

(* Finalize learns the UID that the tuples on the stored Group have, if any. *)
LEMMA LookUpStep ==
  ASSUME TypeOK, MembershipInv, NEW m \in Members, ValidateRefs(m) \/ Finalize(m)
  PROVE  MembershipInv'
<1> DEFINE at == IF Finalize(m) THEN IF Found(m) = Refs THEN "recheck" ELSE "strip"
                                ELSE IF Found(m) = Refs THEN "check" ELSE "status"
           uid == cached[GroupOf[m]].uid
           j == [job[m] EXCEPT !.at = at, !.found = Found(m), !.group = uid]
<1>1. m \in Keys /\ job[m] \in Job
  BY Names DEF TypeOK
<1>2. job' = [job EXCEPT ![m] = j] /\ UNCHANGED <<obj, cached, left, authenticated, members>>
  <2>1. CASE Finalize(m)
    BY <1>1, <2>1 DEF Finalize, LookUp, tuples, TypeOK, Job
  <2>2. CASE ~Finalize(m)
    BY <1>1, <2>2 DEF ValidateRefs, LookUp, tuples, TypeOK, Job
  <2> QED BY <2>1, <2>2
<1> HIDE DEF at
<1>3. j.at = at /\ j.seen = job[m].seen /\ j.found = Found(m) /\ j.group = uid
  BY <1>1 DEF Job
<1> HIDE DEF j
<1>4. at \in {"check", "recheck"} \/ (at \in {"status", "strip"} /\ Found(m) # Refs)
  BY DEF at
<1>5. at \in {"check", "recheck"} => Found(m) = Refs
  BY DEF at
<1>6. Found(m) = Refs => uid # 0
  <2>1. "group" \in Refs
    BY DEF Refs
  <2>2. "group" \in Found(m) => Present(cached[GroupOf[m]])
    BY DEF Found
  <2> QED BY <2>1, <2>2 DEF Present
<1>7. MemberTuple(m, obj[GroupOf[m]].uid) \in members => obj[GroupOf[m]].uid = uid
  BY DEF MembershipInv, MemberInv, MemberTuple
<1> QED BY <1>2, <1>3, <1>4, <1>5, <1>6, <1>7, MemberOwnStep

LEMMA MemberSteps ==
  ASSUME TypeOK, MembershipInv, NEW m \in Members,
         StartMember(m) \/ CheckTuple(m) \/ Fail(m)
         \/ \E ack \in BOOLEAN : AddMember(m, ack) \/ RemoveMember(m, ack)
  PROVE  MembershipInv'
<1>0. m \in Keys /\ job[m] \in Job /\ cached[m] \in Object
  BY Names DEF TypeOK
<1>1. CASE StartMember(m)
  <2> DEFINE at == FirstMemberStep(cached[m])
             j == IF at = "idle" THEN NoJob ELSE [NoJob EXCEPT !.at = at, !.seen = cached[m]]
  <2>1. UNCHANGED <<obj, cached, left, authenticated, members>> /\ job' = [job EXCEPT ![m] = j]
    BY <1>1 DEF StartMember, Start, tuples
  <2>2. /\ at \in {"idle", "finalize", "addFinalizer", "validate"}
        /\ at = "addFinalizer" => Present(cached[m])
    <3>1. cached[m].del \in BOOLEAN /\ cached[m].fin \in BOOLEAN
      BY <1>0, ObjectFields
    <3> QED BY <3>1 DEF FirstMemberStep, Live
  <2> HIDE DEF at
  <2>3. /\ j.seen \in {cached[m], Absent} /\ j.at \in {"idle", at} /\ j.group = 0
        /\ j.at # "idle" => j.seen = cached[m]
    BY NoJobType DEF Job
  <2> HIDE DEF j
  <2> QED BY <2>1, <2>2, <2>3, MemberOwnStep
<1>2. CASE Fail(m)
  <2>1. job' = [job EXCEPT ![m] = NoJob] /\ UNCHANGED <<obj, cached, left, members, authenticated>>
    BY <1>2 DEF Fail, End, tuples
  <2> QED BY <2>1, MemberEnds
<1>3. job[m].at \in {"check", "add", "recheck", "remove"} => job[m].group # 0
  BY DEF MembershipInv, MemberInv
<1>4. job[m].at \in {"recheck", "remove", "strip"} /\ job[m].found = Refs /\ Others(m) = {} =>
        (MemberTuple(m, obj[GroupOf[m]].uid) \in members => obj[GroupOf[m]].uid = job[m].group)
  BY DEF MembershipInv, MemberInv
<1>5. CASE CheckTuple(m)
  <2>1. UNCHANGED <<obj, cached, left, authenticated, members>>
    BY <1>5 DEF CheckTuple, tuples
  <2>2. PICK at : /\ Goto(m, at)
                  /\ \/ job[m].at = "check" /\ at \in {"status", "add"}
                     \/ job[m].at = "recheck" /\ at = "remove"
                     \/ job[m].at = "recheck" /\ at = "strip" /\ ~Stored(m)
    BY <1>5 DEF CheckTuple
  <2>3. PICK j : /\ job' = [job EXCEPT ![m] = j] /\ j.at = at
                 /\ j.seen = job[m].seen /\ j.found = job[m].found /\ j.group = job[m].group
    BY <1>0, <2>2, GotoJob
  <2> QED BY <1>3, <1>4, <2>1, <2>2, <2>3, MemberOwnStep DEF Stored
<1>6. ASSUME NEW ack \in BOOLEAN, AddMember(m, ack) PROVE MembershipInv'
  <2>1. UNCHANGED <<obj, cached, left, authenticated>> /\ job[m].at = "add"
        /\ members' = members \cup {MemberTuple(m, job[m].group)}
    BY <1>6 DEF AddMember
  <2>2. CASE job' = [job EXCEPT ![m] = NoJob]
    BY <2>1, <2>2, MemberEnds
  <2>3. CASE Goto(m, "status")
    <3>1. PICK j : /\ job' = [job EXCEPT ![m] = j] /\ j.at = "status"
                   /\ j.seen = job[m].seen /\ j.found = job[m].found /\ j.group = job[m].group
      BY <1>0, <2>3, GotoJob
    <3> QED BY <2>1, <3>1, MemberOwnStep
  <2> QED BY <1>6, <2>2, <2>3 DEF AddMember, Continue, End
<1>7. ASSUME NEW ack \in BOOLEAN, RemoveMember(m, ack) PROVE MembershipInv'
  <2>1. UNCHANGED <<obj, cached, left, authenticated>> /\ job[m].at = "remove"
        /\ members' = members \ {MemberTuple(m, job[m].group)}
    BY <1>7 DEF RemoveMember
  <2>2. CASE job' = [job EXCEPT ![m] = NoJob]
    BY <2>1, <2>2, MemberEnds
  <2>3. CASE Goto(m, "strip")
    <3>1. PICK j : /\ job' = [job EXCEPT ![m] = j] /\ j.at = "strip"
                   /\ j.seen = job[m].seen /\ j.found = job[m].found /\ j.group = job[m].group
      BY <1>0, <2>3, GotoJob
    <3> QED BY <1>4, <2>1, <3>1, MemberOwnStep
  <2> QED BY <1>7, <2>2, <2>3 DEF RemoveMember, Continue, End
<1> QED BY <1>1, <1>2, <1>5, <1>6, <1>7

(* An Update changes the finalizer or the status of one stored object, and    *)
(* only of the version its worker read: when the finalizer of a principal     *)
(* goes, no copy of it reads live. *)
LEMMA UpdateStep ==
  ASSUME TypeOK, MembershipInv, NEW k \in Keys, UNCHANGED <<cached, left, authenticated, members>>,
         job' = [job EXCEPT ![k] = NoJob],
         \A x \in Objects : x # k => obj'[x] = obj[x],
         obj'[k].uid = obj[k].uid, obj'[k].del = obj[k].del,
         k \in Principals => \/ obj[k].fin => obj'[k].fin
                             \/ job[k].at = "strip" /\ job[k].seen = obj[k],
         ~obj[k].fin /\ obj'[k].fin => job[k].at = "addFinalizer" /\ job[k].seen = obj[k]
  PROVE  MembershipInv'
<1>1. job'[k] = NoJob /\ k \in Objects /\ \A x \in Keys : x # k => job'[x] = job[x]
  BY Names DEF TypeOK
<1>2. \A x \in Objects : obj'[x].uid = obj[x].uid /\ obj'[x].del = obj[x].del
  BY <1>1
<1>3. FreshInv'
  <2>1. \A x \in Keys : Present(job'[x].seen) => left[x] < job'[x].seen.uid
    BY <1>1, NoJobType, AbsentType DEF MembershipInv, FreshInv, Present
  <2>2. \A m \in Members : job'[m].group # 0 => left[GroupOf[m]] < job'[m].group
    BY <1>1, NoJobType, Names DEF MembershipInv, FreshInv
  <2>3. \A o \in Objects : \A c \in {obj'[o], cached[o]} : Present(c) => left[o] < c.uid
    BY <1>2 DEF MembershipInv, FreshInv, Present
  <2> QED BY <2>1, <2>2, <2>3 DEF MembershipInv, FreshInv
<1>4. k \in Principals /\ obj[k].fin /\ ~obj'[k].fin =>
        /\ ~Live(cached[k]) /\ Present(obj[k])
        /\ \A t \in authenticated : t[1] # k
  <2> SUFFICES ASSUME k \in Principals, obj[k].fin, ~obj'[k].fin
               PROVE  /\ ~Live(cached[k]) /\ Present(obj[k])
                      /\ \A t \in authenticated : t[1] # k
    OBVIOUS
  <2>1. job[k].at = "strip" /\ job[k].seen = obj[k]
    OBVIOUS
  <2>2. Present(job[k].seen) /\ job[k].seen.del /\ Token(k, job[k].seen) \notin authenticated
    BY <2>1 DEF MembershipInv, PrincipalInv
  <2>3. cached[k].del
    BY <2>1, <2>2 DEF MembershipInv, CopyInv, Same
  <2>4. \A t \in authenticated : t[1] # k
    BY <2>1, <2>2 DEF MembershipInv, NoOrphanAuthenticated
  <2> QED BY <2>1, <2>2, <2>3, <2>4 DEF Live
<1>5. CopyInv'
  <2> SUFFICES ASSUME NEW p \in Principals
               PROVE  /\ Same(cached[p], obj'[p]) /\ cached[p].del => obj'[p].del
                      /\ Same(job'[p].seen, obj'[p]) =>
                           cached[p].uid = obj'[p].uid /\ (job'[p].seen.del => cached[p].del)
                      /\ \A c \in {cached[p], job'[p].seen} :
                           Live(c) /\ c.fin => c.uid = obj'[p].uid /\ obj'[p].fin
    BY DEF CopyInv
  <2>1. /\ Same(cached[p], obj[p]) /\ cached[p].del => obj[p].del
        /\ Same(job[p].seen, obj[p]) =>
             cached[p].uid = obj[p].uid /\ (job[p].seen.del => cached[p].del)
        /\ \A c \in {cached[p], job[p].seen} :
             Live(c) /\ c.fin => c.uid = obj[p].uid /\ obj[p].fin
    BY DEF MembershipInv, CopyInv
  <2>2. CASE p # k
    BY <1>1, <2>1, <2>2, Names
  <2>3. CASE p = k
    <3>1. job'[p].seen = Absent /\ ~Present(Absent)
      BY <1>1, <2>3, NoJobType, AbsentType DEF Present
    <3>2. Live(cached[p]) /\ cached[p].fin => cached[p].uid = obj'[p].uid /\ obj'[p].fin
      BY <1>4, <2>1, <2>3
    <3>3. Same(cached[p], obj'[p]) /\ cached[p].del => obj'[p].del
      BY <2>1, <2>3 DEF Same
    <3> QED BY <3>1, <3>2, <3>3 DEF Same, Live
  <2> QED BY <2>2, <2>3
<1>6. PrincipalInv'
  BY <1>1, NoJobType, Names DEF MembershipInv, PrincipalInv, Token
<1>7. MemberInv'
  <2>1. \A t \in members : t[3] = obj'[t[2]].uid => cached[t[2]].uid = t[3]
    BY <1>2, Members3 DEF MembershipInv, MemberInv
  <2>2. \A m \in Members : obj'[GroupOf[m]] = obj[GroupOf[m]]
    BY Names
  <2>3. \A m \in Members : obj'[m].fin => Present(obj'[m])
    <3>1. ASSUME k \in Members, ~obj[k].fin, obj'[k].fin PROVE Present(obj[k])
      BY <3>1 DEF MembershipInv, MemberInv
    <3> QED BY <1>2, <3>1, Names DEF MembershipInv, MemberInv, Present
  <2> QED BY <1>1, <2>1, <2>2, <2>3, NoJobType, Names DEF MembershipInv, MemberInv, MemberTuple, Others
<1>8. NoOrphanAuthenticated'
  <2> SUFFICES ASSUME NEW t \in authenticated
               PROVE  Present(obj'[t[1]]) /\ obj'[t[1]].fin /\ t = Token(t[1], obj'[t[1]])
    BY DEF NoOrphanAuthenticated, Token
  <2>1. t[1] \in Principals /\ t[1] \in Objects /\ Present(obj[t[1]]) /\ obj[t[1]].fin /\ t = Token(t[1], obj[t[1]])
    BY Authenticated2 DEF MembershipInv, NoOrphanAuthenticated
  <2>2. obj'[t[1]].fin
    BY <1>4, <2>1
  <2> QED BY <1>2, <2>1, <2>2 DEF Present, Token
<1> QED BY <1>3, <1>5, <1>6, <1>7, <1>8 DEF MembershipInv

(* What AddFinalizer, Strip and UpdateStatus do to the object of their key. *)
LEMMA Updates ==
  ASSUME TypeOK, NEW k \in Keys, NEW ack \in BOOLEAN,
         AddFinalizer(k, ack) \/ Strip(k, ack) \/ UpdateStatus(k, ack)
  PROVE  /\ UNCHANGED <<cached, left, authenticated, members>>
         /\ job' = [job EXCEPT ![k] = NoJob]
         /\ \A x \in Objects : x # k => obj'[x] = obj[x]
         /\ obj'[k].uid = obj[k].uid /\ obj'[k].del = obj[k].del
         /\ obj[k].fin /\ ~obj'[k].fin => job[k].at = "strip" /\ job[k].seen = obj[k]
         /\ ~obj[k].fin /\ obj'[k].fin => job[k].at = "addFinalizer" /\ job[k].seen = obj[k]
<1>1. k \in Objects /\ obj[k] \in Object
  BY Names DEF TypeOK
<1>2. /\ UNCHANGED <<cached, left, authenticated, members>> /\ job' = [job EXCEPT ![k] = NoJob]
  BY DEF AddFinalizer, Strip, UpdateStatus, End, tuples
<1>3. \A x \in Objects : x # k => obj'[x] = obj[x]
  BY DEF AddFinalizer, Strip, UpdateStatus, Update, TypeOK
<1>4. CASE AddFinalizer(k, ack)
  <2>1. /\ job[k].at = "addFinalizer"
        /\ obj'[k] = obj[k] \/ (obj'[k] = [obj[k] EXCEPT !.fin = TRUE] /\ job[k].seen = obj[k])
    BY <1>1, <1>4 DEF AddFinalizer, Update, TypeOK
  <2> QED BY <1>1, <1>2, <1>3, <2>1 DEF Object
<1>5. CASE Strip(k, ack)
  <2>1. /\ job[k].at = "strip"
        /\ obj'[k] = obj[k] \/ (obj'[k] = [obj[k] EXCEPT !.fin = FALSE] /\ job[k].seen = obj[k])
    BY <1>1, <1>5 DEF Strip, Update, TypeOK
  <2> QED BY <1>1, <1>2, <1>3, <2>1 DEF Object
<1>6. CASE UpdateStatus(k, ack)
  <2>1. obj'[k] = obj[k] \/ obj'[k] = [obj[k] EXCEPT !.stat = job[k].found \cup {"set"}]
    BY <1>1, <1>6 DEF UpdateStatus, Update, TypeOK
  <2> QED BY <1>1, <1>2, <1>3, <2>1 DEF Object
<1> QED BY <1>4, <1>5, <1>6

LEMMA InvStep == TypeOK /\ MembershipInv /\ [Next]_vars => MembershipInv'
<1> SUFFICES ASSUME TypeOK, MembershipInv, [Next]_vars PROVE MembershipInv'
  OBVIOUS
<1>1. ASSUME NEW k \in Keys, NEW ack \in BOOLEAN,
             AddFinalizer(k, ack) \/ Strip(k, ack) \/ UpdateStatus(k, ack)
      PROVE  MembershipInv'
  BY <1>1, Updates, UpdateStep
<1>2. CASE UNCHANGED vars
  BY <1>2 DEF vars, MembershipInv, FreshInv, CopyInv, PrincipalInv, MemberInv, NoOrphanAuthenticated,
              MemberTuple, Token, Others
<1>3. ASSUME NEW k \in Keys, Fail(k) PROVE MembershipInv'
  BY <1>3, Names, PrincipalSteps, MemberSteps
<1>4. ASSUME NEW p \in Principals, PrincipalStep(p) PROVE MembershipInv'
  BY <1>1, <1>4, Names, PrincipalSteps DEF PrincipalStep
<1>5. ASSUME NEW m \in Members, MemberStep(m) PROVE MembershipInv'
  BY <1>1, <1>5, Names, MemberSteps, LookUpStep DEF MemberStep
<1> QED
  BY <1>2, <1>3, <1>4, <1>5, StorageStep, NoticeStep, RestartStep DEF Next

-----------------------------------------------------------------------------
(* The theorems.                                                            *)

LEMMA InitInv == Init => TypeOK /\ MembershipInv
<1> SUFFICES ASSUME Init PROVE TypeOK /\ MembershipInv
  OBVIOUS
<1>1. PICK c \in Casts :
        /\ left = c.times
        /\ obj = [o \in Objects |->
                    IF o \in c.settled
                    THEN [Absent EXCEPT !.uid = c.times[o] + 1, !.fin = o \in Principals]
                    ELSE Absent]
        /\ authenticated = {Token(p, obj[p]) : p \in c.settled \cap Principals}
  BY DEF Init
<1>2. left \in [Objects -> 0..MaxTimes] /\ c.settled \subseteq Users \cup Groups
  BY <1>1, CastTypes
<1>3. ASSUME NEW o \in Objects, o \in c.settled
      PROVE  /\ obj[o] \in Object /\ obj[o].uid = left[o] + 1 /\ ~obj[o].del
             /\ obj[o].fin <=> o \in Principals
  <2>1. left[o] + 1 \in Uids /\ left[o] \in Nat
    BY <1>2, <1>3, SetTypes DEF Uids
  <2>2. obj[o] = [Absent EXCEPT !.uid = left[o] + 1, !.fin = o \in Principals]
    BY <1>1, <1>3
  <2>3. (o \in Principals) \in BOOLEAN
    OBVIOUS
  <2> QED BY <2>1, <2>2, <2>3, AbsentType DEF Object
<1>4. ASSUME NEW o \in Objects, o \notin c.settled PROVE obj[o] = Absent
  BY <1>1, <1>4
<1>5. \A k \in Keys : job[k] = NoJob
  BY DEF Init
<1>6. \A o \in Objects : left[o] \in Nat
  BY <1>2, SetTypes
<1>7. TypeOK
  <2>1. obj \in [Objects -> Object]
    <3>1. \A o \in Objects : obj[o] \in Object
      BY <1>3, <1>4, AbsentType
    <3> QED BY <1>1, <3>1
  <2>2. authenticated \subseteq (Users \X {0}) \cup (Accounts \X (Uids \ {0}))
    <3>1. ASSUME NEW p \in c.settled \cap Principals PROVE Token(p, obj[p]) \in Users \X {0}
      BY <1>2, Names DEF Token
    <3> QED BY <1>1, <3>1
  <2>3. 0 \in 0..MaxFaults
    BY SetTypes
  <2> QED BY <1>2, <2>1, <2>2, <2>3, NoJobType DEF Init, TypeOK
<1>8. cached = obj /\ members = {}
  BY DEF Init
<1>9. FreshInv
  <2>1. \A o \in Objects : Present(obj[o]) => left[o] < obj[o].uid
    BY <1>3, <1>4, <1>6, AbsentType DEF Present
  <2>2. \A k \in Keys : job[k].seen.uid = 0 /\ job[k].group = 0
    BY <1>5, NoJobType, AbsentType
  <2> QED BY <1>8, <2>1, <2>2, Names DEF FreshInv, Present
<1>10. CopyInv /\ PrincipalInv /\ MemberInv
  <2>1. \A k \in Keys : job[k].at = "idle" /\ job[k].seen.uid = 0 /\ job[k].group = 0
    BY <1>5, NoJobType, AbsentType
  <2>2. \A m \in Members : ~obj[m].fin
    BY <1>3, <1>4, AbsentType, Names
  <2> QED BY <1>8, <2>1, <2>2, Names DEF CopyInv, PrincipalInv, MemberInv, Same, Present, Live
<1>11. NoOrphanAuthenticated
  <2>1. ASSUME NEW p \in c.settled \cap Principals PROVE Present(obj[p]) /\ obj[p].fin
    BY <1>3, <1>6, Names DEF Present
  <2>2. ASSUME NEW t \in authenticated PROVE \E p \in c.settled \cap Principals : t = Token(p, obj[p])
    BY <1>1
  <2>3. \A p, r : Token(p, r)[1] = p
    BY DEF Token
  <2> QED BY <2>1, <2>2, <2>3 DEF NoOrphanAuthenticated
<1> QED BY <1>7, <1>9, <1>10, <1>11 DEF MembershipInv

(* The variables keep their types: a token never lacks the UID it is made of, *)
(* and a member tuple always names a Group that was there (systemGroupTupleKey, *)
(* getOpenFGAGroupAndMember). *)
THEOREM TypeCorrect == Spec => []TypeOK
<1>1. TypeOK /\ MembershipInv /\ [Next]_vars => (TypeOK /\ MembershipInv)'
  BY TypeStep, InvStep
<1> QED BY <1>1, InitInv, PTL DEF Spec

(* The inductive invariant: how old each copy may be when its reconcile acts  *)
(* on it, and what is certain before a finalizer comes off (reconcileObject,  *)
(* handleDeletion, UserGroupFinalizer.Finalize). *)
THEOREM MembershipInvariant == Spec => []MembershipInv
<1>1. TypeOK /\ MembershipInv /\ [Next]_vars => (TypeOK /\ MembershipInv)'
  BY TypeStep, InvStep
<1> QED BY <1>1, InitInv, PTL DEF Spec

(* system_authenticated never has a member that is not stored, of that UID,   *)
(* under this provider's finalizer (reconcileObject, handleDeletion). *)
THEOREM NoOrphans == Spec => []NoOrphanAuthenticated
<1>1. MembershipInv => NoOrphanAuthenticated
  BY DEF MembershipInv
<1> QED BY <1>1, MembershipInvariant, PTL

(* Whoever re-creates the Group or the User meanwhile, a GroupMembership that *)
(* its finalization releases leaves no tuple of its pair on the Group that    *)
(* bears the name (UserGroupFinalizer.Finalize, RemoveMemberFromGroup). *)
THEOREM ReleasedMembers == Spec => ReleasedMembersGone
<1>1. ASSUME TypeOK, MembershipInv, [Next]_vars, NEW m \in Members,
             obj[m].fin, ~obj'[m].fin, job[m].found = Refs, Others(m) = {}
      PROVE  MemberTuple(m, obj[GroupOf[m]].uid) \notin members'
  <2>1. job[m].at = "strip" /\ members' = members
    <3>1. m \in Keys /\ m \in Objects /\ m \notin Principals
      BY Names
    <3>2. CASE \E k \in Keys, ack \in BOOLEAN :
                 AddFinalizer(k, ack) \/ Strip(k, ack) \/ UpdateStatus(k, ack)
      BY <1>1, <3>1, <3>2, Updates
    <3>3. CASE \E o \in Objects : Create(o) \/ Delete(o) \/ Leave(o)
      <4>1. PICK o \in Objects : Create(o) \/ Delete(o) \/ Leave(o)
        BY <3>3
      <4>2. o = m
        BY <1>1, <3>1, <4>1 DEF Create, Delete, Leave, TypeOK
      <4>3. CASE Create(m)
        BY <1>1, <4>3 DEF Create, MembershipInv, MemberInv
      <4>4. CASE Delete(m)
        BY <1>1, <3>1, <4>4 DEF Delete, TypeOK, Object
      <4>5. CASE Leave(m)
        BY <1>1, <4>5 DEF Leave
      <4> QED BY <4>1, <4>2, <4>3, <4>4, <4>5
    <3>4. CASE obj' = obj
      BY <1>1, <3>4
    <3>5. \/ \E k \in Keys, ack \in BOOLEAN :
                 AddFinalizer(k, ack) \/ Strip(k, ack) \/ UpdateStatus(k, ack)
          \/ \E o \in Objects : Create(o) \/ Delete(o) \/ Leave(o)
          \/ obj' = obj
      <4>1. ASSUME NEW o \in Objects, Observe(o) \/ Relist(o) PROVE obj' = obj
        BY <4>1 DEF Observe, Relist, Notice
      <4>2. ASSUME NEW p \in Principals, PrincipalStep(p)
            PROVE  obj' = obj \/ \E ack \in BOOLEAN : AddFinalizer(p, ack) \/ Strip(p, ack)
        BY <4>2 DEF PrincipalStep, StartPrincipal, Start, ReadTuple, WriteTuple, DeleteTuple
      <4>3. ASSUME NEW n \in Members, MemberStep(n)
            PROVE  obj' = obj \/ \E ack \in BOOLEAN : AddFinalizer(n, ack) \/ Strip(n, ack) \/ UpdateStatus(n, ack)
        BY <4>3 DEF MemberStep, StartMember, Start, ValidateRefs, Finalize, LookUp, CheckTuple,
                    AddMember, RemoveMember
      <4>4. Restart \/ (\E k \in Keys : Fail(k)) \/ UNCHANGED vars => obj' = obj
        BY DEF Restart, Fail, vars
      <4> QED BY <1>1, <4>1, <4>2, <4>3, <4>4, Names DEF Next
    <3> QED BY <3>2, <3>3, <3>4, <3>5
  <2> QED BY <1>1, <2>1 DEF MembershipInv, MemberInv
<1>2. TypeOK /\ MembershipInv /\ [Next]_vars =>
        [\A m \in Members :
         obj[m].fin /\ ~obj'[m].fin /\ job[m].found = Refs /\ Others(m) = {} =>
           MemberTuple(m, obj[GroupOf[m]].uid) \notin members']_vars
  BY <1>1
<1> QED BY <1>2, TypeCorrect, MembershipInvariant, PTL DEF Spec, ReleasedMembersGone

=============================================================================
