---------------------------- MODULE RolesProofs ----------------------------
(***************************************************************************)
(* TLAPS proofs about Roles, for all Roles, permissions, references and     *)
(* plans: types, how far an informer is behind, that tuples go before their *)
(* Role, that a status names the spec it was computed for, and that a walk  *)
(* ends with exactly what can be reached.                                   *)
(***************************************************************************)
EXTENDS Roles, FiniteSetTheorems, TLAPS

-----------------------------------------------------------------------------
(* Types.                                                                   *)

LEMMA NoTypes == NoRole \in Role /\ NoStatus \in Status /\ NoJob \in Job
<1>1. NoStatus \in Status
  BY BoundTypes DEF NoStatus, Status, Ready
<1>2. NoRole \in Role
  BY <1>1, BoundTypes DEF NoRole, Role
<1> QED BY <1>1, <1>2 DEF NoJob, Job

LEMMA RoleFields ==
  ASSUME NEW r \in Role
  PROVE  /\ r.st \in {"none", "live", "deleting"} /\ r.gen \in 0..MaxGen /\ r.fin \in BOOLEAN
         /\ r.perms \in SUBSET Perms /\ r.refs \in Seq(Names) /\ r.status \in Status
  BY DEF Role

LEMMA JobFields ==
  ASSUME NEW j \in Job
  PROVE  /\ j.copy \in Role /\ j.fresh \in BOOLEAN /\ j.regs \in SUBSET Perms /\ j.todo \in Seq(Names)
         /\ j.visited \in SUBSET Names /\ j.perms \in SUBSET Perms /\ j.missing \in SUBSET Names
  BY DEF Job

LEMMA StatusTypes ==
  ASSUME NEW gen \in 0..MaxGen, NEW perms \in SUBSET Perms, NEW missing \in SUBSET Names, NEW regs
  PROVE  StatusOf(gen, perms, missing, regs) \in Status
  BY DEF StatusOf, Status, Ready

LEMMA ReachableTypes ==
  ASSUME NEW of \in [Names -> Role], NEW n \in Names
  PROVE  ReachablePerms(of, n) \in SUBSET Perms /\ Dangling(of, n) \in SUBSET Names
  BY RoleFields DEF ReachablePerms, Dangling, Reachable

(* A Get takes a walk one reference further, three ways. *)
Skips(of, w) == [w EXCEPT !.todo = Tail(w.todo), !.missing = w.missing \cup {Head(w.todo)}]
PassesBy(of, w) == [w EXCEPT !.todo = Tail(w.todo)]
Enters(of, w) ==
    [w EXCEPT !.todo = of[Head(w.todo)].refs \o Tail(w.todo), !.visited = w.visited \cup {Head(w.todo)},
              !.perms = w.perms \cup of[Head(w.todo)].perms]

LEMMA LookUpCases ==
  ASSUME NEW of, NEW w
  PROVE  LET m == Head(w.todo)
         IN  /\ ~Stored(of[m]) => LookUp(of, w) = Skips(of, w)
             /\ Stored(of[m]) /\ m \in w.visited => LookUp(of, w) = PassesBy(of, w)
             /\ Stored(of[m]) /\ m \notin w.visited => LookUp(of, w) = Enters(of, w)
  BY DEF LookUp, Skips, PassesBy, Enters

LEMMA LookUpType ==
  ASSUME NEW of \in [Names -> Role], NEW j \in Job, j.todo # <<>>
  PROVE  LookUp(of, j) \in Job
<1>1. Head(j.todo) \in Names /\ Tail(j.todo) \in Seq(Names)
  BY JobFields
<1>2. of[Head(j.todo)].refs \o Tail(j.todo) \in Seq(Names) /\ of[Head(j.todo)].perms \in SUBSET Perms
  BY <1>1, RoleFields
<1>3. Skips(of, j) \in Job /\ PassesBy(of, j) \in Job
  BY <1>1 DEF Skips, PassesBy, Job
<1>4. Enters(of, j) \in Job
  <2> DEFINE todo == of[Head(j.todo)].refs \o Tail(j.todo)
             ps == of[Head(j.todo)].perms
             m == Head(j.todo)
  <2> HIDE DEF todo, ps, m
  <2>1. [j EXCEPT !.todo = todo, !.visited = j.visited \cup {m}, !.perms = j.perms \cup ps] \in Job
    BY <1>1, <1>2 DEF todo, ps, m, Job
  <2> QED BY <2>1 DEF Enters, todo, ps, m
<1> QED BY <1>3, <1>4, LookUpCases

LEMMA LookUpKeeps ==
  ASSUME NEW of, NEW j \in Job
  PROVE  /\ LookUp(of, j).fresh = j.fresh /\ LookUp(of, j).copy = j.copy /\ LookUp(of, j).at = j.at
         /\ LookUp(of, j).regs = j.regs
<1>1. ASSUME NEW w \in {Skips(of, j), PassesBy(of, j), Enters(of, j)}
      PROVE  w.fresh = j.fresh /\ w.copy = j.copy /\ w.at = j.at /\ w.regs = j.regs
  BY <1>1 DEF Skips, PassesBy, Enters, Job
<1> QED BY <1>1, LookUpCases

(* The writes of a Role and of a job. *)
LEMMA PutType ==
  ASSUME TypeOK, NEW n \in Names, NEW r \in Role, Put(n, r)
  PROVE  role' \in [Names -> Role] /\ events' \in Seq(Names \X Role)
  BY DEF TypeOK, Put

LEMMA UpdateType ==
  ASSUME TypeOK, NEW n \in Names, NEW r \in Role, Update(n, r)
  PROVE  role' \in [Names -> Role] /\ events' \in Seq(Names \X Role)
  BY PutType DEF TypeOK, Update

LEMMA JobType ==
  ASSUME TypeOK, NEW n \in Names, NEW j \in Job, job' = [job EXCEPT ![n] = j]
  PROVE  job' \in [Names -> Job]
  BY DEF TypeOK

LEMMA EndType ==
  ASSUME TypeOK, NEW n \in Names, NEW again, End(n, again)
  PROVE  job' \in [Names -> Job] /\ queue' \subseteq Names
  BY JobType, NoTypes DEF TypeOK, End

LEMMA OutdatedType ==
  ASSUME TypeOK, NEW n \in Names, Outdated(n) PROVE job' \in [Names -> Job]
<1>1. job[n] \in Job
  BY DEF TypeOK
<1>2. [job[n] EXCEPT !.fresh = FALSE] \in Job
  BY <1>1 DEF Job
<1> QED BY <1>2, JobType DEF Outdated

LEMMA GotoType ==
  ASSUME TypeOK, NEW n \in Names, NEW at \in {"strip", "error"}, Goto(n, at) PROVE job' \in [Names -> Job]
<1>1. job[n] \in Job
  BY DEF TypeOK
<1>2. [job[n] EXCEPT !.at = at] \in Job
  BY <1>1 DEF Job
<1> QED BY <1>2, JobType DEF Goto

(* A user's step: a Role is written and a plan gets shorter. *)
LEMMA UserType ==
  ASSUME TypeOK, NEW n \in Names, NEW r \in Role, Put(n, r), Outdated(n),
         plan' = plan \/ (plan[n] # <<>> /\ plan' = [plan EXCEPT ![n] = Tail(@)]), UNCHANGED users
  PROVE  TypeOK'
<1>1. plan' \in [Names -> Seq(Specs \cup {Nowhere})]
  <2> DEFINE S == Specs \cup {Nowhere}
  <2>1. plan \in [Names -> Seq(S)]
    BY DEF TypeOK
  <2> HIDE DEF S
  <2>2. plan[n] # <<>> => Tail(plan[n]) \in Seq(S)
    BY <2>1
  <2>3. plan' \in [Names -> Seq(S)]
    BY <2>1, <2>2
  <2> QED BY <2>3 DEF S
<1> QED BY <1>1, PutType, OutdatedType DEF TypeOK, users, regVars

LEMMA SpecFields ==
  ASSUME TypeOK, NEW n \in Names, plan[n] # <<>>, Head(plan[n]) # Nowhere
  PROVE  Head(plan[n]).perms \in SUBSET Perms /\ Head(plan[n]).refs \in Seq(Names)
<1>1. Head(plan[n]) \in Specs
  BY DEF TypeOK
<1> QED BY <1>1 DEF Specs

LEMMA UserTypes ==
  ASSUME TypeOK, NEW n \in Names, Create(n) \/ Edit(n) \/ Delete(n) \/ Leave(n) PROVE TypeOK'
<1>0. role[n] \in Role
  BY DEF TypeOK
<1>1. CASE Create(n)
  <2> DEFINE r == [NoRole EXCEPT !.st = "live", !.gen = 1,
                                 !.perms = Head(plan[n]).perms, !.refs = Head(plan[n]).refs]
  <2>0. /\ Head(plan[n]).perms \in SUBSET Perms /\ Head(plan[n]).refs \in Seq(Names)
        /\ 1 \in 0..MaxGen /\ NoRole.fin \in BOOLEAN /\ NoRole.status \in Status
    BY <1>1, SpecFields, NoTypes, RoleFields, BoundTypes DEF Create
  <2>1. r \in Role
    BY <2>0 DEF NoRole, Role
  <2> QED BY <1>1, <2>1, UserType DEF Create
<1>2. CASE Edit(n)
  <2> DEFINE r == [role[n] EXCEPT !.gen = @ + 1, !.perms = Head(plan[n]).perms, !.refs = Head(plan[n]).refs]
  <2>0. role[n].gen + 1 \in 0..MaxGen
    BY <1>0, <1>2, RoleFields, BoundTypes DEF Edit
  <2>1. r \in Role
    BY <1>0, <1>2, <2>0, SpecFields DEF Edit, Role
  <2> QED BY <1>2, <2>1, UserType DEF Edit
<1>3. CASE Delete(n)
  <2>0. role[n].gen + 1 \in 0..MaxGen
    BY <1>0, <1>3, RoleFields, BoundTypes DEF Delete
  <2>1. [role[n] EXCEPT !.st = "deleting", !.gen = @ + 1] \in Role
    BY <1>0, <2>0 DEF Role
  <2> QED BY <1>3, <2>1, UserType DEF Delete
<1>4. CASE Leave(n)
  BY <1>4, NoTypes, UserType DEF Leave
<1> QED BY <1>1, <1>2, <1>3, <1>4

LEMMA InformerTypes ==
  ASSUME TypeOK,
         \/ EditRegistration \/ Deliver \/ NotifyInheritors \/ SyncRegistration
         \/ \E p \in Perms : NotifyRegistration(p)
  PROVE  TypeOK'
<1>1. CASE EditRegistration
  BY <1>1 DEF EditRegistration, TypeOK
<1>2. CASE Deliver
  <2>1. Head(events)[1] \in Names /\ Head(events)[2] \in Role /\ Tail(events) \in Seq(Names \X Role)
    BY <1>2 DEF Deliver, TypeOK
  <2>2. \/ queue' = queue \cup {Head(events)[1]} /\ noted' = Append(noted, Head(events)[1])
        \/ UNCHANGED <<queue, noted>>
    BY <1>2, Zenon DEF Deliver
  <2>3. queue' \subseteq Names /\ noted' \in Seq(Names)
    <3>1. queue \subseteq Names /\ noted \in Seq(Names)
      BY DEF TypeOK
    <3>2. PICK m \in Names : m = Head(events)[1]
      BY <2>1
    <3>3. (queue' = queue \cup {m} /\ noted' = Append(noted, m)) \/ UNCHANGED <<queue, noted>>
      BY <2>2, <3>2
    <3> QED BY <3>1, <3>3
  <2> QED BY <1>2, <2>1, <2>3 DEF Deliver, TypeOK, regVars
<1>3. CASE NotifyInheritors
  BY <1>3 DEF NotifyInheritors, TypeOK, regVars
<1>4. CASE SyncRegistration
  BY <1>4 DEF SyncRegistration, TypeOK
<1>5. ASSUME NEW p \in Perms, NotifyRegistration(p) PROVE TypeOK'
  BY <1>5 DEF NotifyRegistration, Affected, TypeOK
<1> QED BY <1>1, <1>2, <1>3, <1>4, <1>5

(* A step of a reconcile. *)
LEMMA ReconcileType ==
  ASSUME TypeOK, UNCHANGED rest, role' \in [Names -> Role], events' \in Seq(Names \X Role),
         tuples' \subseteq Names, queue' \subseteq Names, job' \in [Names -> Job], faults' \in 0..MaxFaults
  PROVE  TypeOK'
  BY DEF TypeOK, rest, regVars

LEMMA FaultType ==
  ASSUME TypeOK, faults > 0, faults' = faults - 1 PROVE faults' \in 0..MaxFaults
  BY BoundTypes DEF TypeOK

LEMMA AnsweredType ==
  ASSUME TypeOK, NEW ack \in BOOLEAN, Answered(ack) PROVE faults' \in 0..MaxFaults
  BY FaultType DEF TypeOK, Answered

LEMMA ComputedType ==
  ASSUME TypeOK, NEW n \in Names PROVE Computed(n) \in Status
<1>1. job[n] \in Job
  BY DEF TypeOK
<1>2. job[n].copy.gen \in 0..MaxGen
  BY <1>1, JobFields, RoleFields
<1> QED BY <1>1, <1>2, JobFields, StatusTypes DEF Computed

LEMMA StepTypes ==
  ASSUME TypeOK, NEW n \in Names, Step(n) \/ WalkFails(n) \/ Fail(n) PROVE TypeOK'
<1>0. /\ role[n] \in Role /\ crole[n] \in Role /\ job[n] \in Job
      /\ role \in [Names -> Role] /\ events \in Seq(Names \X Role) /\ tuples \subseteq Names
      /\ queue \subseteq Names /\ faults \in 0..MaxFaults
  BY DEF TypeOK
<1>1. CASE Start(n)
  <2>1. \A f \in BOOLEAN : \A at \in {"add", "finalize", "list"} :
          [NoJob EXCEPT !.at = at, !.copy = crole[n], !.fresh = f] \in Job
    BY <1>0, NoTypes DEF Job
  <2>2. FirstStep(crole[n]) \in {"idle", "add", "finalize", "list"}
    BY <1>0, RoleFields DEF FirstStep
  <2>3. (\A i \in DOMAIN events : events[i][1] # n) \in BOOLEAN
    OBVIOUS
  <2>4. \E j \in Job : job' = [job EXCEPT ![n] = j]
    BY <1>1, <2>1, <2>2, <2>3, NoTypes DEF Start
  <2> QED BY <1>0, <1>1, <2>4, JobType, ReconcileType DEF Start
<1>2. CASE AddFinalizer(n)
  <2>1. [role[n] EXCEPT !.fin = TRUE] \in Role
    BY <1>0 DEF Role
  <2>2. \E again : End(n, again)
    BY <1>2, Zenon DEF AddFinalizer
  <2> QED BY <1>0, <1>2, <2>1, <2>2, UpdateType, EndType, ReconcileType DEF AddFinalizer
<1>3. CASE Finalize(n)
  BY <1>0, <1>3, GotoType, ReconcileType DEF Finalize
<1>4. CASE Strip(n)
  <2>1. [role[n] EXCEPT !.fin = FALSE] \in Role
    BY <1>0 DEF Role
  <2>2. \E again : End(n, again)
    BY <1>4, Zenon DEF Strip
  <2> QED BY <1>0, <1>4, <2>1, <2>2, UpdateType, EndType, ReconcileType DEF Strip
<1>5. CASE ListRegistrations(n)
  <2>1. job[n].copy.refs \in Seq(Names) /\ job[n].copy.perms \in SUBSET Perms /\ creg \in SUBSET Perms
    BY <1>0, JobFields, RoleFields DEF TypeOK
  <2>2. [job[n] EXCEPT !.at = "walk", !.regs = creg, !.todo = job[n].copy.refs,
                       !.visited = {n}, !.perms = job[n].copy.perms] \in Job
    BY <1>0, <2>1 DEF Job
  <2> QED BY <1>0, <1>5, <2>2, JobType, ReconcileType DEF ListRegistrations
<1>6. CASE GetInherited(n)
  <2>1. LookUp(crole, job[n]) \in Job
    BY <1>0, <1>6, LookUpType DEF GetInherited, TypeOK
  <2>2. job' = [job EXCEPT ![n] = LookUp(crole, job[n])]
    BY <1>6 DEF GetInherited
  <2> QED BY <1>0, <1>6, <2>1, <2>2, JobType, ReconcileType DEF GetInherited
<1>7. CASE UpdateStatus(n)
  <2>1. [role[n] EXCEPT !.status = Computed(n)] \in Role
    BY <1>0, ComputedType DEF Role
  <2>2. role' \in [Names -> Role] /\ events' \in Seq(Names \X Role)
    BY <1>0, <1>7, <2>1, UpdateType DEF UpdateStatus
  <2>3. faults' \in 0..MaxFaults
    BY <1>0, <1>7, AnsweredType DEF UpdateStatus
  <2>4. \E again : End(n, again)
    BY <1>7, Zenon DEF UpdateStatus
  <2> QED BY <1>0, <1>7, <2>2, <2>3, <2>4, EndType, ReconcileType DEF UpdateStatus
<1>8. CASE ReportError(n)
  <2> DEFINE old == job[n].copy.status
             new == [old EXCEPT !.obs = job[n].copy.gen, !.ready = "Error"]
  <2>1. old \in Status /\ job[n].copy.gen \in 0..MaxGen
    BY <1>0, JobFields, RoleFields
  <2>2. new \in Status
    BY <2>1 DEF Status, Ready
  <2> HIDE DEF new
  <2>3. [role[n] EXCEPT !.status = new] \in Role
    BY <1>0, <2>2 DEF Role
  <2>4. role' \in [Names -> Role] /\ events' \in Seq(Names \X Role)
    BY <1>0, <1>8, <2>3, UpdateType DEF ReportError, new
  <2>5. \E again : End(n, again)
    BY <1>8, Zenon DEF ReportError
  <2> QED BY <1>0, <1>8, <2>4, <2>5, EndType, ReconcileType DEF ReportError
<1>9. CASE WalkFails(n)
  BY <1>0, <1>9, FaultType, GotoType, ReconcileType DEF WalkFails
<1>10. CASE Fail(n)
  <2>1. \E again : End(n, again)
    BY <1>10, Zenon DEF Fail
  <2> QED BY <1>0, <1>10, <2>1, FaultType, EndType, ReconcileType DEF Fail
<1> QED BY <1>1, <1>2, <1>3, <1>4, <1>5, <1>6, <1>7, <1>8, <1>9, <1>10 DEF Step

LEMMA TypeStep == TypeOK /\ [Next]_vars => TypeOK'
<1> SUFFICES ASSUME TypeOK, [Next]_vars PROVE TypeOK'
  OBVIOUS
<1>1. CASE Restart
  BY <1>1, FaultType, NoTypes DEF Restart, TypeOK
<1>2. CASE UNCHANGED vars
  BY <1>2 DEF vars, TypeOK
<1> QED BY <1>1, <1>2, UserTypes, InformerTypes, StepTypes DEF Next

LEMMA InitType == Init => TypeOK
<1> SUFFICES ASSUME Init PROVE TypeOK
  OBVIOUS
<1> DEFINE Bare(c) == [n \in Names |-> IF c.from[n] = Nowhere THEN NoRole
                        ELSE [NoRole EXCEPT !.st = "live", !.gen = 1, !.fin = TRUE,
                                            !.perms = c.from[n].perms, !.refs = c.from[n].refs]]
<1>1. PICK c \in Casts :
        /\ role = [n \in Names |-> IF ~Stored(Bare(c)[n]) THEN NoRole
                     ELSE [Bare(c)[n] EXCEPT !.status =
                             StatusOf(1, ReachablePerms(Bare(c), n), Dangling(Bare(c), n), c.reg)]]
        /\ crole = role /\ events = <<>> /\ noted = <<>>
        /\ reg = c.reg /\ creg = reg /\ nreg = {}
        /\ tuples = c.legacy
        /\ queue = {} /\ job = [n \in Names |-> NoJob]
        /\ plan = c.plan /\ regPlan = c.regPlan /\ faults = c.faults
  BY DEF Init
<1>2. /\ c.from \in [Names -> Specs \cup {Nowhere}] /\ c.plan \in [Names -> Seq(Specs \cup {Nowhere})]
      /\ c.reg \subseteq Perms /\ c.regPlan \in Seq(SUBSET Perms) /\ c.faults \in 0..MaxFaults
      /\ c.legacy \subseteq Names
  BY CastTypes
<1>3. ASSUME NEW n \in Names, c.from[n] # Nowhere
      PROVE  [NoRole EXCEPT !.st = "live", !.gen = 1, !.fin = TRUE,
                            !.perms = c.from[n].perms, !.refs = c.from[n].refs] \in Role
  <2>1. c.from[n].perms \in SUBSET Perms /\ c.from[n].refs \in Seq(Names)
    BY <1>2, <1>3 DEF Specs
  <2>2. 1 \in 0..MaxGen /\ NoRole.status \in Status
    BY NoTypes, RoleFields, BoundTypes
  <2> QED BY <2>1, <2>2 DEF NoRole, Role
<1>4. Bare(c) \in [Names -> Role]
  BY <1>3, NoTypes
<1> HIDE DEF Bare
<1>5. ASSUME NEW n \in Names
      PROVE  [Bare(c)[n] EXCEPT !.status =
                StatusOf(1, ReachablePerms(Bare(c), n), Dangling(Bare(c), n), c.reg)] \in Role
  <2>1. StatusOf(1, ReachablePerms(Bare(c), n), Dangling(Bare(c), n), c.reg) \in Status
    BY <1>4, ReachableTypes, StatusTypes, BoundTypes
  <2>2. Bare(c)[n] \in Role
    BY <1>4
  <2> QED BY <2>1, <2>2 DEF Role
<1>6. role \in [Names -> Role]
  BY <1>1, <1>5, NoTypes
<1> QED BY <1>1, <1>2, <1>6, NoTypes DEF TypeOK

-----------------------------------------------------------------------------
(* What a step of n's reconcile does.                                       *)

(* It writes the version it has read: a finalizer, or a status for its spec. *)
Writes(n, r) ==
  \/ r = [role[n] EXCEPT !.fin = TRUE]
  \/ r = [role[n] EXCEPT !.fin = FALSE] /\ job[n].at = "strip"
  \/ \E s \in Status : r = [role[n] EXCEPT !.status = s] /\ s.obs = job[n].copy.gen

LEMMA EndJob ==
  ASSUME TypeOK, NEW n \in Names, NEW again, End(n, again)
  PROVE  job'[n] = NoJob /\ \A m \in Names : m # n => job'[m] = job[m]
  BY DEF End, TypeOK

LEMMA ReconcileStep ==
  ASSUME TypeOK, NEW n \in Names, Step(n) \/ WalkFails(n) \/ Fail(n)
  PROVE  /\ crole' = crole /\ tuples' \subseteq tuples
         /\ \A m \in Names : m # n => job'[m] = job[m]
         /\ \/ UNCHANGED <<role, events>> /\ job'[n] = NoJob
            \/ /\ UNCHANGED <<role, events>>
               /\ job'[n].fresh = job[n].fresh /\ job'[n].copy = job[n].copy
               /\ job'[n].at = "strip" => n \notin tuples'
            \/ /\ UNCHANGED <<role, events>>
               /\ job'[n].copy = crole[n] /\ job'[n].at # "strip"
               /\ job'[n].fresh => \A i \in DOMAIN events : events[i][1] # n
            \/ /\ job[n].fresh /\ job'[n] = NoJob
               /\ \E r \in Role : Put(n, r) /\ Writes(n, r)
<1>0. role[n] \in Role /\ crole[n] \in Role /\ job[n] \in Job /\ job \in [Names -> Job]
  BY DEF TypeOK
<1>1. CASE Start(n)
  <2>1. /\ UNCHANGED <<role, events, crole, tuples>>
        /\ \A m \in Names : m # n => job'[m] = job[m]
    BY <1>0, <1>1 DEF Start, rest
  <2>2. FirstStep(crole[n]) \in {"idle", "add", "finalize", "list"}
    BY <1>0, RoleFields DEF FirstStep
  <2>3. CASE FirstStep(crole[n]) = "idle"
    <3>1. job'[n] = NoJob
      BY <1>0, <1>1, <2>3 DEF Start
    <3> QED BY <2>1, <3>1
  <2>4. CASE FirstStep(crole[n]) # "idle"
    <3>1. job'[n] = [NoJob EXCEPT !.at = FirstStep(crole[n]), !.copy = crole[n],
                                  !.fresh = \A i \in DOMAIN events : events[i][1] # n]
      BY <1>0, <1>1, <2>4 DEF Start
    <3>2. job'[n].copy = crole[n] /\ job'[n].at = FirstStep(crole[n])
      BY <3>1 DEF NoJob
    <3>3. job'[n].fresh => \A i \in DOMAIN events : events[i][1] # n
      BY <3>1 DEF NoJob
    <3> QED BY <2>1, <2>2, <3>2, <3>3
  <2> QED BY <2>3, <2>4
<1>2. CASE AddFinalizer(n)
  <2>1. \E again : End(n, again)
    BY <1>2, Zenon DEF AddFinalizer
  <2>2. [role[n] EXCEPT !.fin = TRUE] \in Role
    BY <1>0 DEF Role
  <2> QED BY <1>2, <2>1, <2>2, EndJob DEF AddFinalizer, Update, Writes, rest
<1>3. CASE Finalize(n)
  <2>1. job'[n] = [job[n] EXCEPT !.at = "strip"] /\ \A m \in Names : m # n => job'[m] = job[m]
    BY <1>0, <1>3 DEF Finalize, Goto
  <2>2. job'[n].fresh = job[n].fresh /\ job'[n].copy = job[n].copy
    BY <1>0, <2>1 DEF Job
  <2> QED BY <1>3, <2>1, <2>2 DEF Finalize, rest
<1>4. CASE Strip(n)
  <2>1. \E again : End(n, again)
    BY <1>4, Zenon DEF Strip
  <2>2. [role[n] EXCEPT !.fin = FALSE] \in Role
    BY <1>0 DEF Role
  <2> QED BY <1>4, <2>1, <2>2, EndJob DEF Strip, Update, Writes, rest
<1>5. CASE ListRegistrations(n)
  <2>1. /\ job'[n] = [job[n] EXCEPT !.at = "walk", !.regs = creg, !.todo = job[n].copy.refs,
                                    !.visited = {n}, !.perms = job[n].copy.perms]
        /\ \A m \in Names : m # n => job'[m] = job[m]
    BY <1>0, <1>5 DEF ListRegistrations
  <2>2. job'[n].fresh = job[n].fresh /\ job'[n].copy = job[n].copy /\ job'[n].at = "walk"
    BY <1>0, <2>1 DEF Job
  <2> QED BY <1>5, <2>1, <2>2 DEF ListRegistrations, rest
<1>6. CASE GetInherited(n)
  <2>1. \A m \in Names : m # n => job'[m] = job[m]
    BY <1>0, <1>6 DEF GetInherited
  <2>2. job'[n].fresh = job[n].fresh /\ job'[n].copy = job[n].copy /\ job'[n].at = job[n].at
    BY <1>0, <1>6, LookUpKeeps DEF GetInherited
  <2> QED BY <1>6, <2>1, <2>2 DEF GetInherited, rest
<1>7. CASE UpdateStatus(n)
  <2>1. \E again : End(n, again)
    BY <1>7, Zenon DEF UpdateStatus
  <2>2. Computed(n) \in Status /\ Computed(n).obs = job[n].copy.gen
    BY ComputedType DEF Computed, StatusOf
  <2>3. [role[n] EXCEPT !.status = Computed(n)] \in Role
    BY <1>0, <2>2 DEF Role
  <2>4. UNCHANGED <<role, events>> \/ Update(n, [role[n] EXCEPT !.status = Computed(n)])
    BY <1>7 DEF UpdateStatus
  <2> QED BY <1>7, <2>1, <2>2, <2>3, <2>4, EndJob DEF UpdateStatus, Update, Writes, rest
<1>8. CASE ReportError(n)
  <2> DEFINE old == job[n].copy.status
             new == [old EXCEPT !.obs = job[n].copy.gen, !.ready = "Error"]
  <2>1. \E again : End(n, again)
    BY <1>8, Zenon DEF ReportError
  <2>2. old \in Status /\ job[n].copy.gen \in 0..MaxGen
    BY <1>0, JobFields, RoleFields
  <2>3. new \in Status /\ new.obs = job[n].copy.gen
    BY <2>2 DEF Status, Ready
  <2>4. UNCHANGED <<role, events>> \/ Update(n, [role[n] EXCEPT !.status = new])
    BY <1>8 DEF ReportError
  <2> HIDE DEF new
  <2>5. [role[n] EXCEPT !.status = new] \in Role
    BY <1>0, <2>3 DEF Role
  <2> QED BY <1>8, <2>1, <2>3, <2>4, <2>5, EndJob DEF ReportError, Update, Writes, rest
<1>9. CASE WalkFails(n)
  <2>1. job'[n] = [job[n] EXCEPT !.at = "error"] /\ \A m \in Names : m # n => job'[m] = job[m]
    BY <1>0, <1>9 DEF WalkFails, Goto
  <2>2. job'[n].fresh = job[n].fresh /\ job'[n].copy = job[n].copy /\ job'[n].at = "error"
    BY <1>0, <2>1 DEF Job
  <2> QED BY <1>9, <2>1, <2>2 DEF WalkFails, rest
<1>10. CASE Fail(n)
  <2>1. \E again : End(n, again)
    BY <1>10, Zenon DEF Fail
  <2> QED BY <1>10, <2>1, EndJob DEF Fail, rest
<1> QED BY <1>1, <1>2, <1>3, <1>4, <1>5, <1>6, <1>7, <1>8, <1>9, <1>10 DEF Step

(* What a user writes. *)
LEMMA UserStep ==
  ASSUME TypeOK, NEW n \in Names, Create(n) \/ Edit(n) \/ Delete(n) \/ Leave(n)
  PROVE  /\ crole' = crole /\ tuples' = tuples
         /\ \A m \in Names : m # n => job'[m] = job[m]
         /\ job'[n].fresh = FALSE /\ job'[n].at = job[n].at
         /\ \E r \in Role :
              /\ Put(n, r)
              /\ Stored(role[n]) => /\ Stored(r) => r.fin = role[n].fin /\ r.status = role[n].status
                                    /\ ~Stored(r) => ~role[n].fin
<1>0. role[n] \in Role /\ job[n] \in Job /\ job \in [Names -> Job]
  BY DEF TypeOK
<1>1. Outdated(n) /\ UNCHANGED users
  BY DEF Create, Edit, Delete, Leave
<1>2. job'[n] = [job[n] EXCEPT !.fresh = FALSE] /\ \A m \in Names : m # n => job'[m] = job[m]
  BY <1>0, <1>1 DEF Outdated
<1>3. job'[n].fresh = FALSE /\ job'[n].at = job[n].at
  BY <1>0, <1>2 DEF Job
<1>4. \E r : /\ Put(n, r)
             /\ Stored(role[n]) => /\ Stored(r) => r.fin = role[n].fin /\ r.status = role[n].status
                                   /\ ~Stored(r) => ~role[n].fin
  <2>1. CASE Create(n)
    BY <2>1 DEF Create
  <2>2. CASE Edit(n)
    <3> DEFINE r == [role[n] EXCEPT !.gen = @ + 1, !.perms = Head(plan[n]).perms, !.refs = Head(plan[n]).refs]
    <3>1. r.st = role[n].st /\ r.fin = role[n].fin /\ r.status = role[n].status
      BY <1>0 DEF Role
    <3> QED BY <2>2, <3>1 DEF Edit, Stored
  <2>3. CASE Delete(n)
    <3> DEFINE r == [role[n] EXCEPT !.st = "deleting", !.gen = @ + 1]
    <3>1. r.st = "deleting" /\ r.fin = role[n].fin /\ r.status = role[n].status
      BY <1>0 DEF Role
    <3> QED BY <2>3, <3>1 DEF Delete, Stored
  <2>4. CASE Leave(n)
    BY <2>4 DEF Leave, NoRole, Stored
  <2> QED BY <2>1, <2>2, <2>3, <2>4
<1>5. \A r : Put(n, r) => r = role'[n]
  BY DEF Put, TypeOK
<1>6. role'[n] \in Role
  BY UserTypes DEF TypeOK
<1> QED BY <1>1, <1>2, <1>3, <1>4, <1>5, <1>6 DEF users

-----------------------------------------------------------------------------
(* How far the informer is behind.                                          *)

LEMMA PutBehind ==
  ASSUME TypeOK, InformerInv, NEW n \in Names, NEW r \in Role, Put(n, r), crole' = crole
  PROVE  InformerInv!1' /\ InformerInv!2'
<1>0. events \in Seq(Names \X Role) /\ role \in [Names -> Role] /\ crole \in [Names -> Role]
  BY DEF TypeOK
<1>1. /\ role'[n] = r /\ \A m \in Names : m # n => role'[m] = role[m]
      /\ DOMAIN events' = 1..(Len(events) + 1)
      /\ events'[Len(events) + 1] = <<n, r>>
      /\ \A i \in DOMAIN events : events'[i] = events[i]
      /\ DOMAIN events = 1..Len(events) /\ Len(events) \in Nat
      /\ \A i \in DOMAIN events : events[i][1] \in Names
  BY <1>0 DEF Put
<1>2. ASSUME NEW m \in Names, \A i \in DOMAIN events' : events'[i][1] # m PROVE crole'[m] = role'[m]
  <2>1. m # n /\ \A i \in DOMAIN events : events[i][1] # m
    BY <1>1, <1>2
  <2> QED BY <1>1, <2>1 DEF InformerInv
<1>3. ASSUME NEW i \in DOMAIN events', \A j \in DOMAIN events' : j > i => events'[j][1] # events'[i][1]
      PROVE  events'[i][2] = role'[events'[i][1]]
  <2>1. CASE i = Len(events) + 1
    BY <1>1, <2>1
  <2>2. CASE i \in DOMAIN events
    <3>1. events[i][1] # n /\ events[i][1] \in Names
      BY <1>1, <1>3, <2>2
    <3>2. events[i][2] = role[events[i][1]]
      BY <1>1, <1>3, <2>2 DEF InformerInv
    <3> QED BY <1>1, <2>2, <3>1, <3>2
  <2> QED BY <1>1, <2>1, <2>2
<1> QED BY <1>2, <1>3 DEF InformerInv

LEMMA DeliverBehind ==
  ASSUME TypeOK, InformerInv, Deliver PROVE InformerInv'
<1> DEFINE n == Head(events)[1]
           new == Head(events)[2]
<1>0. /\ events \in Seq(Names \X Role) /\ events # <<>> /\ role \in [Names -> Role]
      /\ crole \in [Names -> Role] /\ crole' = [crole EXCEPT ![n] = new]
      /\ events' = Tail(events) /\ UNCHANGED <<role, job>>
  BY DEF TypeOK, Deliver
<1>1. /\ n \in Names /\ n = events[1][1] /\ new = events[1][2] /\ 1 \in DOMAIN events
      /\ DOMAIN events' = 1..(Len(events) - 1) /\ DOMAIN events = 1..Len(events) /\ Len(events) \in Nat
      /\ \A i \in DOMAIN events' : i + 1 \in DOMAIN events /\ events'[i] = events[i + 1]
  BY <1>0
<1>2. ASSUME NEW m \in Names, \A i \in DOMAIN events' : events'[i][1] # m PROVE crole'[m] = role'[m]
  <2>1. \A i \in DOMAIN events : i # 1 => events[i][1] # m
    <3>1. ASSUME NEW i \in DOMAIN events, i # 1 PROVE i - 1 \in DOMAIN events' /\ events'[i - 1] = events[i]
      BY <1>1, <3>1
    <3> QED BY <1>2, <3>1
  <2>2. CASE m = n
    <3>1. \A j \in DOMAIN events : j > 1 => events[j][1] # events[1][1]
      BY <1>1, <2>1, <2>2
    <3>2. new = role[n]
      BY <1>1, <3>1 DEF InformerInv
    <3> QED BY <1>0, <1>1, <2>2, <3>2
  <2>3. CASE m # n
    <3>1. \A i \in DOMAIN events : events[i][1] # m
      BY <1>1, <2>1, <2>3
    <3> QED BY <1>0, <2>3, <3>1 DEF InformerInv
  <2> QED BY <2>2, <2>3
<1>3. ASSUME NEW i \in DOMAIN events', \A j \in DOMAIN events' : j > i => events'[j][1] # events'[i][1]
      PROVE  events'[i][2] = role'[events'[i][1]]
  <2>1. i + 1 \in DOMAIN events /\ events'[i] = events[i + 1]
    BY <1>1
  <2>2. \A j \in DOMAIN events : j > i + 1 => events[j][1] # events[i + 1][1]
    <3>1. ASSUME NEW j \in DOMAIN events, j > i + 1 PROVE j - 1 \in DOMAIN events' /\ events'[j - 1] = events[j] /\ j - 1 > i
      BY <1>1, <3>1
    <3> QED BY <1>3, <2>1, <3>1
  <2> QED BY <1>0, <2>1, <2>2 DEF InformerInv
<1> QED BY <1>0, <1>2, <1>3 DEF InformerInv

LEMMA NoJobFields == ~NoJob.fresh /\ NoJob.at = "idle"
  BY DEF NoJob

LEMMA InformerStep == TypeOK /\ InformerInv /\ [Next]_vars => InformerInv'
<1> SUFFICES ASSUME TypeOK, InformerInv, [Next]_vars PROVE InformerInv'
  OBVIOUS
<1>1. ASSUME NEW n \in Names, Create(n) \/ Edit(n) \/ Delete(n) \/ Leave(n) PROVE InformerInv'
  <2>1. PICK r \in Role : Put(n, r)
    BY <1>1, UserStep
  <2>2. \A m \in Names : m # n => role'[m] = role[m]
    BY <2>1 DEF Put, TypeOK
  <2>3. InformerInv!3'
    BY <1>1, <2>2, UserStep DEF InformerInv
  <2> QED BY <1>1, <2>1, <2>3, UserStep, PutBehind DEF InformerInv
<1>2. ASSUME NEW n \in Names, Step(n) \/ WalkFails(n) \/ Fail(n) PROVE InformerInv'
  <2>1. crole' = crole /\ \A m \in Names : m # n => job'[m] = job[m]
    BY <1>2, ReconcileStep
  <2>2. CASE /\ UNCHANGED <<role, events>>
             /\ \/ job'[n] = NoJob
                \/ job'[n].fresh = job[n].fresh /\ job'[n].copy = job[n].copy
                \/ /\ job'[n].copy = crole[n]
                   /\ job'[n].fresh => \A i \in DOMAIN events : events[i][1] # n
    <3>1. job'[n].fresh => job'[n].copy = role[n]
      <4>1. CASE job'[n] = NoJob
        BY <4>1, NoJobFields
      <4>2. CASE job'[n].fresh = job[n].fresh /\ job'[n].copy = job[n].copy
        <5>1. job[n].fresh => job[n].copy = role[n]
          BY DEF InformerInv
        <5> QED BY <4>2, <5>1
      <4>3. CASE /\ job'[n].copy = crole[n]
                 /\ job'[n].fresh => \A i \in DOMAIN events : events[i][1] # n
        BY <4>3 DEF InformerInv
      <4> QED BY <2>2, <4>1, <4>2, <4>3
    <3> QED BY <2>1, <2>2, <3>1 DEF InformerInv
  <2>3. CASE job'[n] = NoJob /\ \E r \in Role : Put(n, r)
    <3>1. PICK r \in Role : Put(n, r)
      BY <2>3
    <3>2. \A m \in Names : m # n => role'[m] = role[m]
      BY <3>1 DEF Put, TypeOK
    <3>3. InformerInv!3'
      BY <2>1, <2>3, <3>2 DEF InformerInv, NoJob
    <3> QED BY <2>1, <3>1, <3>3, PutBehind DEF InformerInv
  <2> QED BY <1>2, <2>2, <2>3, ReconcileStep
<1>3. CASE Deliver
  BY <1>3, DeliverBehind
<1>4. CASE Restart
  BY <1>4 DEF Restart, InformerInv, NoJob
<1>5. CASE UNCHANGED <<role, events, crole, job>>
  BY <1>5 DEF InformerInv
<1>6. ASSUME EditRegistration \/ NotifyInheritors \/ SyncRegistration \/ \E p \in Perms : NotifyRegistration(p)
      PROVE  UNCHANGED <<role, events, crole, job>>
  BY <1>6 DEF EditRegistration, NotifyInheritors, SyncRegistration, NotifyRegistration
<1> QED BY <1>1, <1>2, <1>3, <1>4, <1>5, <1>6 DEF Next, vars

-----------------------------------------------------------------------------
(* Tuples go before their Role.                                             *)

LEMMA RoleStep == TypeOK /\ RoleInv /\ [Next]_vars => RoleInv'
<1> SUFFICES ASSUME TypeOK, RoleInv, [Next]_vars PROVE RoleInv'
  OBVIOUS
<1>0. InformerInv'
  BY InformerStep DEF RoleInv
<1>1. ASSUME NEW n \in Names, Create(n) \/ Edit(n) \/ Delete(n) \/ Leave(n) PROVE RoleInv'
  <2>1. PICK r \in Role :
          /\ Put(n, r)
          /\ Stored(role[n]) => /\ Stored(r) => r.fin = role[n].fin
                                /\ ~Stored(r) => ~role[n].fin
    BY <1>1, UserStep
  <2>2. role'[n] = r /\ \A m \in Names : m # n => role'[m] = role[m]
    BY <2>1 DEF Put, TypeOK
  <2>3. tuples' = tuples /\ \A m \in Names : job'[m].at = job[m].at
    BY <1>1, UserStep
  <2>4. ASSUME NEW m \in tuples PROVE Stored(role'[m]) /\ role'[m].fin
    <3>1. m \in Names /\ Stored(role[m]) /\ role[m].fin
      BY <2>4 DEF RoleInv, TypeOK
    <3> QED BY <2>1, <2>2, <3>1
  <2> QED BY <1>0, <2>3, <2>4 DEF RoleInv
<1>2. ASSUME NEW n \in Names, Step(n) \/ WalkFails(n) \/ Fail(n) PROVE RoleInv'
  <2>1. /\ tuples' \subseteq tuples /\ tuples \subseteq Names
        /\ \A m \in Names : m # n => job'[m] = job[m]
        /\ job'[n].at = "strip" => n \notin tuples'
    <3>1. tuples' \subseteq tuples /\ \A m \in Names : m # n => job'[m] = job[m]
      BY <1>2, ReconcileStep
    <3>2. tuples \subseteq Names
      BY DEF TypeOK
    <3>3. \/ job'[n] = NoJob \/ job'[n].at # "strip" \/ n \notin tuples'
      BY <1>2, ReconcileStep
    <3> QED BY <3>1, <3>2, <3>3, NoJobFields
  <2>2. ASSUME NEW m \in tuples' PROVE Stored(role'[m]) /\ role'[m].fin
    <3>1. m \in tuples /\ m \in Names /\ Stored(role[m]) /\ role[m].fin /\ role[m] \in Role
      BY <2>1, <2>2 DEF RoleInv, TypeOK
    <3>2. CASE role' = role
      BY <3>1, <3>2
    <3>3. ASSUME NEW r \in Role, Put(n, r), Writes(n, r) PROVE Stored(role'[m]) /\ role'[m].fin
      <4>1. CASE m # n
        BY <3>1, <3>3, <4>1 DEF Put, TypeOK
      <4>2. CASE m = n
        <5>1. job[n].at # "strip"
          BY <3>1, <4>2 DEF RoleInv
        <5>2. r.st = role[n].st /\ r.fin
          BY <3>1, <3>3, <4>2, <5>1 DEF Writes, Role
        <5>3. role'[m] = r
          BY <3>1, <3>3, <4>2 DEF Put, TypeOK
        <5> QED BY <3>1, <4>2, <5>2, <5>3 DEF Stored
      <4> QED BY <4>1, <4>2
    <3> QED BY <1>2, <3>2, <3>3, ReconcileStep
  <2> QED BY <1>0, <2>1, <2>2 DEF RoleInv
<1>3. CASE UNCHANGED <<role, tuples, job>>
  BY <1>0, <1>3 DEF RoleInv
<1>4. CASE Restart
  BY <1>0, <1>4 DEF Restart, RoleInv, NoJob
<1>5. ASSUME \/ Deliver \/ EditRegistration \/ NotifyInheritors \/ SyncRegistration
             \/ \E p \in Perms : NotifyRegistration(p)
      PROVE  UNCHANGED <<role, tuples, job>>
  BY <1>5 DEF Deliver, EditRegistration, NotifyInheritors, SyncRegistration, NotifyRegistration
<1> QED BY <1>1, <1>2, <1>3, <1>4, <1>5 DEF Next, vars

LEMMA InitInv == Init => RoleInv
<1> SUFFICES ASSUME Init PROVE RoleInv
  OBVIOUS
<1>1. crole = role /\ events = <<>> /\ job = [n \in Names |-> NoJob]
  BY DEF Init
<1>2. InformerInv
  BY <1>1 DEF InformerInv, NoJob
<1>3. ASSUME NEW n \in tuples PROVE Stored(role[n]) /\ role[n].fin
  <2> DEFINE Bare(c) == [m \in Names |-> IF c.from[m] = Nowhere THEN NoRole
                          ELSE [NoRole EXCEPT !.st = "live", !.gen = 1, !.fin = TRUE,
                                              !.perms = c.from[m].perms, !.refs = c.from[m].refs]]
  <2>1. PICK c \in Casts :
          /\ role = [m \in Names |-> IF ~Stored(Bare(c)[m]) THEN NoRole
                       ELSE [Bare(c)[m] EXCEPT !.status =
                               StatusOf(1, ReachablePerms(Bare(c), m), Dangling(Bare(c), m), c.reg)]]
          /\ tuples = c.legacy
    BY DEF Init
  <2>2. n \in Names /\ c.from[n] # Nowhere
    BY <1>3, <2>1, CastTypes
  <2>3. Bare(c)[n].st = "live" /\ Bare(c)[n].fin /\ DOMAIN Bare(c)[n] = {"st", "gen", "fin", "perms", "refs", "status"}
    BY <2>2 DEF NoRole
  <2> HIDE DEF Bare
  <2>4. role[n] = [Bare(c)[n] EXCEPT !.status =
                    StatusOf(1, ReachablePerms(Bare(c), n), Dangling(Bare(c), n), c.reg)]
    BY <2>1, <2>2, <2>3 DEF Stored
  <2> QED BY <2>3, <2>4 DEF Stored
<1> QED BY <1>1, <1>2, <1>3 DEF RoleInv, NoJob

-----------------------------------------------------------------------------
(* Iterating to an end.                                                     *)

(* Of some subsets of a finite set one is minimal, and of some numbers one is  *)
(* the least.                                                                  *)
LEMMA MinSet ==
  ASSUME NEW S, IsFiniteSet(S), NEW T, T \subseteq SUBSET S, T # {}
  PROVE  \E x \in T : \A y \in T : y \subseteq x => y = x
<1>1. IsWellFoundedOn(StrictSubsetOrdering(S), SUBSET S)
  BY FS_StrictSubsetOrderingWellFounded, FS_FiniteSubsetsOfFinite
<1>2. PICK x \in T : \A y \in T : <<y, x>> \notin StrictSubsetOrdering(S)
  BY <1>1, WFMin
<1> QED BY <1>2 DEF StrictSubsetOrdering

LEMMA LeastNat ==
  ASSUME NEW T \in SUBSET Nat, T # {}
  PROVE  \E n \in T : \A m \in T : n <= m
<1> DEFINE Up(n) == 1..n
           F == {Up(n) : n \in T}
<1>1. F \subseteq FiniteSubsetsOf(Nat) /\ F # {}
  <2>1. \A n \in Nat : IsFiniteSet(1..n)
    BY FS_Interval
  <2>2. \A n \in Nat : 1..n \in SUBSET Nat
    OBVIOUS
  <2>3. \A n \in Nat : Up(n) \in FiniteSubsetsOf(Nat)
    BY <2>1, <2>2 DEF FiniteSubsetsOf
  <2> HIDE DEF Up
  <2> QED BY <2>3
<1>2. PICK x \in F : \A y \in F : <<y, x>> \notin StrictSubsetOrdering(Nat)
  <2> HIDE DEF F
  <2> QED BY <1>1, WFMin, FS_StrictSubsetOrderingWellFounded
<1>3. PICK n \in T : x = 1..n
  OBVIOUS
<1>4. ASSUME NEW m \in T, m < n PROVE FALSE
  <2>1. 1..m \in F /\ 1..m \subseteq 1..n /\ n \in 1..n /\ n \notin 1..m /\ 1..m \in SUBSET Nat /\ 1..n \in SUBSET Nat
    BY <1>4
  <2>2. <<1..m, 1..n>> \in StrictSubsetOrdering(Nat)
    BY <2>1 DEF StrictSubsetOrdering
  <2> QED BY <1>2, <1>3, <2>1, <2>2
<1> QED BY <1>4

(* An iteration to its end is well defined, also when it may have none.        *)
IsIteration(f, D, last, g) == f = [x \in D |-> IF x \in last THEN x ELSE f[g[x]]]

LEMMA IterationDefined ==
  ASSUME NEW D, NEW last, NEW g, \A x \in D \ last : g[x] \in D
  PROVE  \E f : IsIteration(f, D, last, g)
<1> DEFINE Closed(S) == \A z \in S \ last : g[z] \in S
           Orbit(x) == {y \in D : \A S \in SUBSET D : x \in S /\ Closed(S) => y \in S}
           Ends(x) == Orbit(x) \cap last
           f == [x \in D |-> CHOOSE e : e \in Ends(x)]
<1>1. ASSUME NEW x \in D, x \in last PROVE Ends(x) = {x}
  <2>1. {x} \in SUBSET D /\ Closed({x}) /\ x \in {x}
    BY <1>1
  <2>2. Orbit(x) \subseteq {x}
    <3> HIDE DEF Closed
    <3> QED BY <2>1
  <2>3. x \in Orbit(x)
    OBVIOUS
  <2> QED BY <1>1, <2>2, <2>3
<1>2. ASSUME NEW x \in D, x \notin last PROVE Ends(x) = Ends(g[x])
  <2>1. Orbit(g[x]) \subseteq Orbit(x)
    <3> SUFFICES ASSUME NEW y \in Orbit(g[x]), NEW S \in SUBSET D, x \in S, Closed(S) PROVE y \in S
      OBVIOUS
    <3>1. g[x] \in S
      BY <1>2
    <3> HIDE DEF Closed
    <3> QED BY <3>1
  <2>2. ASSUME NEW y \in Ends(x) PROVE y \in Orbit(g[x])
    <3> SUFFICES ASSUME NEW S \in SUBSET D, g[x] \in S, Closed(S) PROVE y \in S
      OBVIOUS
    <3>1. S \cup {x} \in SUBSET D /\ Closed(S \cup {x}) /\ x \in S \cup {x}
      BY <1>2
    <3>2. y \in S \cup {x}
      <4> HIDE DEF Closed
      <4> QED BY <2>2, <3>1
    <3> QED BY <1>2, <2>2, <3>2
  <2> HIDE DEF Orbit
  <2> QED BY <2>1, <2>2
<1>3. \A x \in D : f[x] = CHOOSE e : e \in Ends(x)
  OBVIOUS
<1> HIDE DEF Ends
<1>4. \A x \in D : x \in last => f[x] = x
  BY <1>1, <1>3
<1>5. \A x \in D : x \notin last => f[x] = f[g[x]]
  BY <1>2, <1>3
<1>6. f = [x \in D |-> f[x]]
  OBVIOUS
<1> HIDE DEF f
<1>7. IsIteration(f, D, last, g)
  BY <1>4, <1>5, <1>6 DEF IsIteration
<1> QED BY <1>7

(* Nothing goes on for ever while a set shrinks, or else a number.             *)
Descends(S, last, g, N, a, b) ==
    \A x \in S \ last :
        /\ g[x] \in S
        /\ a[x] \in SUBSET N /\ b[x] \in Nat
        /\ a[g[x]] \subseteq a[x] /\ (a[g[x]] = a[x] => b[g[x]] < b[x])

LEMMA NoDescent ==
  ASSUME NEW S, NEW g, NEW N, IsFiniteSet(N), NEW a, NEW b, Descends(S, {}, g, N, a, b)
  PROVE  S = {}
<1> SUFFICES ASSUME S # {} PROVE FALSE
  OBVIOUS
<1>1. \A x \in S : /\ g[x] \in S
                   /\ a[x] \in SUBSET N /\ b[x] \in Nat
                   /\ a[g[x]] \subseteq a[x] /\ (a[g[x]] = a[x] => b[g[x]] < b[x])
  BY DEF Descends
<1> DEFINE T == {a[x] : x \in S}
<1>2. PICK t \in T : \A y \in T : y \subseteq t => y = t
  <2>1. T \subseteq SUBSET N /\ T # {}
    BY <1>1
  <2> HIDE DEF T
  <2> QED BY <2>1, MinSet
<1> DEFINE R == {x \in S : a[x] = t}
           B == {b[x] : x \in R}
<1>3. PICK n \in B : \A m \in B : n <= m
  <2>1. B \in SUBSET Nat /\ B # {}
    BY <1>1
  <2> HIDE DEF B
  <2> QED BY <2>1, LeastNat
<1>4. PICK x \in R : n = b[x]
  OBVIOUS
<1>5. g[x] \in S /\ a[g[x]] \in T
  BY <1>1
<1>6. g[x] \in R
  BY <1>1, <1>2, <1>5
<1>7. b[g[x]] < b[x] /\ b[g[x]] \in B /\ b[g[x]] \in Nat /\ b[x] \in Nat
  BY <1>1, <1>6
<1> HIDE DEF B
<1> QED BY <1>3, <1>4, <1>7

LEMMA IterationEnds ==
  ASSUME NEW D, NEW last, NEW g, NEW f, IsIteration(f, D, last, g), NEW S \in SUBSET D,
         NEW N, IsFiniteSet(N), NEW a, NEW b, Descends(S, last, g, N, a, b)
  PROVE  \A x \in S : f[x] \in S \cap last
<1> DEFINE Bad == {x \in S : f[x] \notin S \cap last}
<1>1. \A x \in D : f[x] = IF x \in last THEN x ELSE f[g[x]]
  BY DEF IsIteration
<1>2. \A x \in Bad : x \notin last
  BY <1>1
<1>3. \A x \in Bad : g[x] \in Bad
  BY <1>1, <1>2 DEF Descends
<1>4. Descends(Bad, {}, g, N, a, b)
  BY <1>2, <1>3 DEF Descends
<1> HIDE DEF Bad
<1>5. Bad = {}
  BY <1>4, NoDescent
<1> QED BY <1>5 DEF Bad

-----------------------------------------------------------------------------
(* Reachability.                                                            *)

LEMMA ReachableIsLeast ==
  ASSUME NEW of, NEW n, NEW S \in SUBSET Names, n \in S, \A x \in S : Inherits(of, x) \subseteq S
  PROVE  Reachable(of, n) \subseteq S
BY DEF Reachable

LEMMA InheritsTypes ==
  ASSUME NEW of \in [Names -> Role], NEW n \in Names
  PROVE  Inherits(of, n) \in SUBSET Names
<1>1. of[n].refs \in Seq(Names)
  BY RoleFields
<1> QED BY <1>1 DEF Inherits, ToSet

LEMMA ReachableIsClosed ==
  ASSUME NEW of \in [Names -> Role], NEW n \in Names
  PROVE  /\ n \in Reachable(of, n) /\ Reachable(of, n) \in SUBSET Names
         /\ \A x \in Reachable(of, n) : Inherits(of, x) \subseteq Reachable(of, n)
<1>1. n \in Reachable(of, n) /\ Reachable(of, n) \in SUBSET Names
  BY DEF Reachable
<1>2. ASSUME NEW x \in Reachable(of, n), NEW y \in Inherits(of, x) PROVE y \in Reachable(of, n)
  BY <1>1, InheritsTypes DEF Reachable
<1> QED BY <1>1, <1>2

(* What an inherited Role reaches is reached. *)
LEMMA ReachableNested ==
  ASSUME NEW of \in [Names -> Role], NEW n \in Names, NEW x \in Reachable(of, n)
  PROVE  Reachable(of, x) \subseteq Reachable(of, n)
BY ReachableIsClosed, ReachableIsLeast

-----------------------------------------------------------------------------
(* The walk. What it has visited, missed and has to look up can be reached,   *)
(* and has all that the visited Roles inherit.                                *)

WalkFrom(of, n, w) ==
    /\ n \in w.visited /\ w.visited \subseteq Reachable(of, n) /\ w.missing \subseteq Reachable(of, n)
    /\ ToSet(w.todo) \subseteq Reachable(of, n)
    /\ \A v \in w.visited : Stored(of[v]) /\ Inherits(of, v) \subseteq w.visited \cup w.missing \cup ToSet(w.todo)
    /\ \A v \in w.missing : ~Stored(of[v])
    /\ w.perms = UNION {of[v].perms : v \in w.visited}

LEMMA ToSetOf ==
  ASSUME NEW S, NEW s \in Seq(S)
  PROVE  /\ s # <<>> => /\ Head(s) \in S /\ Tail(s) \in Seq(S) /\ ToSet(s) = {Head(s)} \cup ToSet(Tail(s))
                        /\ Len(Tail(s)) = Len(s) - 1
         /\ ToSet(<<>>) = {} /\ Len(s) \in Nat
         /\ \A t \in Seq(S) : ToSet(s \o t) = ToSet(s) \cup ToSet(t)
<1>1. ASSUME s # <<>>
      PROVE  /\ Head(s) \in S /\ Tail(s) \in Seq(S) /\ ToSet(s) = {Head(s)} \cup ToSet(Tail(s))
             /\ Len(Tail(s)) = Len(s) - 1
  <2>1. /\ Head(s) = s[1] /\ Len(Tail(s)) = Len(s) - 1 /\ Len(s) \in Nat \ {0} /\ Head(s) \in S
        /\ Tail(s) \in Seq(S) /\ \A i \in 1..(Len(s) - 1) : Tail(s)[i] = s[i + 1]
    BY <1>1
  <2>2. \A i \in 1..Len(s) : i = 1 \/ (i - 1 \in 1..(Len(s) - 1) /\ s[i] = Tail(s)[i - 1])
    BY <2>1
  <2>3. \A i \in 1..(Len(s) - 1) : i + 1 \in 1..Len(s)
    BY <2>1
  <2>4. DOMAIN s = 1..Len(s) /\ DOMAIN Tail(s) = 1..(Len(s) - 1) /\ 1 \in 1..Len(s)
    BY <2>1
  <2>5. \A x \in ToSet(s) : x = Head(s) \/ x \in ToSet(Tail(s))
    <3>1. \A x \in ToSet(s) : \E i \in 1..Len(s) : x = s[i]
      BY <2>4 DEF ToSet
    <3>2. \A i \in 1..(Len(s) - 1) : Tail(s)[i] \in ToSet(Tail(s))
      BY <2>4 DEF ToSet
    <3>3. ASSUME NEW x \in ToSet(s) PROVE x = Head(s) \/ x \in ToSet(Tail(s))
      <4>1. PICK i \in 1..Len(s) : x = s[i]
        BY <3>1
      <4>2. CASE i = 1
        BY <2>1, <4>1, <4>2
      <4>3. CASE i - 1 \in 1..(Len(s) - 1) /\ s[i] = Tail(s)[i - 1]
        <5> DEFINE j == i - 1
        <5>1. j \in 1..(Len(s) - 1) /\ x = Tail(s)[j]
          BY <4>1, <4>3
        <5> HIDE DEF j
        <5> QED BY <3>2, <5>1
      <4> QED BY <2>2, <4>2, <4>3
    <3> QED BY <3>3
  <2>6. \A x \in ToSet(Tail(s)) : x \in ToSet(s)
    BY <2>1, <2>3, <2>4 DEF ToSet
  <2>7. Head(s) \in ToSet(s)
    BY <2>1, <2>4 DEF ToSet
  <2> QED BY <2>1, <2>5, <2>6, <2>7
<1>2. ToSet(<<>>) = {} /\ Len(s) \in Nat
  BY DEF ToSet
<1>3. ASSUME NEW t \in Seq(S) PROVE ToSet(s \o t) = ToSet(s) \cup ToSet(t)
  <2>1. /\ DOMAIN s = 1..Len(s) /\ DOMAIN t = 1..Len(t) /\ DOMAIN (s \o t) = 1..(Len(s) + Len(t))
        /\ Len(s) \in Nat /\ Len(t) \in Nat
    OBVIOUS
  <2>2. \A i \in 1..(Len(s) + Len(t)) : (s \o t)[i] = IF i <= Len(s) THEN s[i] ELSE t[i - Len(s)]
    OBVIOUS
  <2>3. ASSUME NEW i \in 1..(Len(s) + Len(t)) PROVE (s \o t)[i] \in ToSet(s) \cup ToSet(t)
    <3>1. CASE i <= Len(s)
      BY <2>1, <2>2, <3>1 DEF ToSet
    <3>2. CASE ~(i <= Len(s))
      <4>1. i - Len(s) \in 1..Len(t)
        BY <2>1, <3>2
      <4> QED BY <2>1, <2>2, <3>2, <4>1 DEF ToSet
    <3> QED BY <3>1, <3>2
  <2>4. ASSUME NEW i \in 1..Len(s) PROVE s[i] \in ToSet(s \o t)
    <3>1. i \in 1..(Len(s) + Len(t)) /\ i <= Len(s)
      BY <2>1
    <3>2. (s \o t)[i] = s[i]
      BY <2>2, <3>1
    <3> QED BY <2>1, <3>1, <3>2 DEF ToSet
  <2>5. ASSUME NEW i \in 1..Len(t) PROVE t[i] \in ToSet(s \o t)
    <3>1. i + Len(s) \in 1..(Len(s) + Len(t)) /\ ~(i + Len(s) <= Len(s)) /\ (i + Len(s)) - Len(s) = i
      BY <2>1
    <3>2. (s \o t)[i + Len(s)] = t[i]
      BY <2>2, <3>1
    <3> QED BY <2>1, <3>1, <3>2 DEF ToSet
  <2>6. ToSet(s \o t) \subseteq ToSet(s) \cup ToSet(t)
    BY <2>1, <2>3 DEF ToSet
  <2>7. ToSet(s) \subseteq ToSet(s \o t) /\ ToSet(t) \subseteq ToSet(s \o t)
    <3>1. \A x \in ToSet(s) : \E i \in 1..Len(s) : x = s[i]
      BY <2>1 DEF ToSet
    <3>2. \A x \in ToSet(t) : \E i \in 1..Len(t) : x = t[i]
      BY <2>1 DEF ToSet
    <3> QED BY <2>4, <2>5, <3>1, <3>2
  <2> QED BY <2>6, <2>7
<1> QED BY <1>1, <1>2, <1>3

(* The fields of a walk after a Get, of a walk by itself and of a reconcile's. *)
LEMMA LookUpFields ==
  ASSUME NEW of, NEW w, w \in Walking \/ w \in Job
  PROVE  LET m == Head(w.todo)
             next == LookUp(of, w)
         IN  /\ ~Stored(of[m]) => /\ next.todo = Tail(w.todo) /\ next.missing = w.missing \cup {m}
                                  /\ next.visited = w.visited /\ next.perms = w.perms
             /\ Stored(of[m]) /\ m \in w.visited =>
                    /\ next.todo = Tail(w.todo) /\ next.missing = w.missing
                    /\ next.visited = w.visited /\ next.perms = w.perms
             /\ Stored(of[m]) /\ m \notin w.visited =>
                    /\ next.todo = of[m].refs \o Tail(w.todo) /\ next.missing = w.missing
                    /\ next.visited = w.visited \cup {m} /\ next.perms = w.perms \cup of[m].perms
<1>1. /\ Skips(of, w).todo = Tail(w.todo) /\ Skips(of, w).missing = w.missing \cup {Head(w.todo)}
      /\ Skips(of, w).visited = w.visited /\ Skips(of, w).perms = w.perms
  BY DEF Skips, Walking, Job
<1>2. /\ PassesBy(of, w).todo = Tail(w.todo) /\ PassesBy(of, w).missing = w.missing
      /\ PassesBy(of, w).visited = w.visited /\ PassesBy(of, w).perms = w.perms
  BY DEF PassesBy, Walking, Job
<1>3. /\ Enters(of, w).todo = of[Head(w.todo)].refs \o Tail(w.todo) /\ Enters(of, w).missing = w.missing
      /\ Enters(of, w).visited = w.visited \cup {Head(w.todo)}
      /\ Enters(of, w).perms = w.perms \cup of[Head(w.todo)].perms
  BY DEF Enters, Walking, Job
<1> QED BY <1>1, <1>2, <1>3, LookUpCases

LEMMA LookUpWalking ==
  ASSUME NEW of \in [Names -> Role], NEW w \in Walking, w.todo # <<>>
  PROVE  LookUp(of, w) \in Walking
<1>0. w.todo \in Seq(Names) /\ w.visited \in SUBSET Names /\ w.perms \in SUBSET Perms /\ w.missing \in SUBSET Names
  BY DEF Walking
<1>1. Head(w.todo) \in Names /\ Tail(w.todo) \in Seq(Names)
  BY <1>0
<1>2. of[Head(w.todo)].refs \o Tail(w.todo) \in Seq(Names) /\ of[Head(w.todo)].perms \in SUBSET Perms
  BY <1>1, RoleFields
<1>3. Skips(of, w) \in Walking /\ PassesBy(of, w) \in Walking
  BY <1>1 DEF Skips, PassesBy, Walking
<1>4. Enters(of, w) \in Walking
  <2> DEFINE todo == of[Head(w.todo)].refs \o Tail(w.todo)
             ps == of[Head(w.todo)].perms
             m == Head(w.todo)
  <2> HIDE DEF todo, ps, m
  <2>1. [w EXCEPT !.todo = todo, !.visited = w.visited \cup {m}, !.perms = w.perms \cup ps] \in Walking
    BY <1>1, <1>2 DEF todo, ps, m, Walking
  <2> QED BY <2>1 DEF Enters, todo, ps, m
<1> QED BY <1>3, <1>4, LookUpCases

LEMMA LookUpKeepsWalk ==
  ASSUME NEW of \in [Names -> Role], NEW n \in Names, NEW w, w \in Walking \/ w \in Job,
         w.todo \in Seq(Names), w.todo # <<>>, WalkFrom(of, n, w)
  PROVE  WalkFrom(of, n, LookUp(of, w))
<1> DEFINE m == Head(w.todo)
           next == LookUp(of, w)
           R == Reachable(of, n)
<1>1. m \in Names /\ Tail(w.todo) \in Seq(Names) /\ ToSet(w.todo) = {m} \cup ToSet(Tail(w.todo))
  BY ToSetOf
<1>2. m \in R /\ ToSet(Tail(w.todo)) \subseteq R
  BY <1>1 DEF WalkFrom
<1> HIDE DEF R
<1>3. CASE ~Stored(of[m])
  <2>1. /\ next.todo = Tail(w.todo) /\ next.missing = w.missing \cup {m}
        /\ next.visited = w.visited /\ next.perms = w.perms
    BY <1>3, LookUpFields
  <2> HIDE DEF next, m
  <2> QED BY <1>1, <1>2, <1>3, <2>1 DEF WalkFrom, R, next
<1>4. CASE Stored(of[m]) /\ m \in w.visited
  <2>1. /\ next.todo = Tail(w.todo) /\ next.missing = w.missing
        /\ next.visited = w.visited /\ next.perms = w.perms
    BY <1>4, LookUpFields
  <2> HIDE DEF next, m
  <2> QED BY <1>1, <1>2, <1>4, <2>1 DEF WalkFrom, R, next
<1>5. CASE Stored(of[m]) /\ m \notin w.visited
  <2>1. /\ next.todo = of[m].refs \o Tail(w.todo) /\ next.missing = w.missing
        /\ next.visited = w.visited \cup {m} /\ next.perms = w.perms \cup of[m].perms
    BY <1>5, LookUpFields
  <2>2. of[m].refs \in Seq(Names) /\ Inherits(of, m) = ToSet(of[m].refs)
    BY <1>1, <1>5, RoleFields DEF Inherits
  <2>3. ToSet(next.todo) = Inherits(of, m) \cup ToSet(Tail(w.todo))
    <3> DEFINE s == of[m].refs
               t == Tail(w.todo)
    <3>1. s \in Seq(Names) /\ t \in Seq(Names) /\ next.todo = s \o t /\ Inherits(of, m) = ToSet(s)
      BY <1>1, <2>1, <2>2
    <3> HIDE DEF s, t, next, m
    <3>2. ToSet(s \o t) = ToSet(s) \cup ToSet(t)
      BY <3>1, ToSetOf
    <3>3. ToSet(next.todo) = Inherits(of, m) \cup ToSet(t)
      BY <3>1, <3>2
    <3> QED BY <3>3 DEF t
  <2>4. Inherits(of, m) \subseteq R
    BY <1>2, ReachableIsClosed DEF R
  <2> HIDE DEF next, m
  <2>5. next.perms = UNION {of[v].perms : v \in next.visited}
    BY <2>1 DEF WalkFrom
  <2>6. /\ n \in next.visited /\ next.visited \subseteq R /\ next.missing \subseteq R
        /\ ToSet(next.todo) \subseteq R /\ \A v \in next.missing : ~Stored(of[v])
    BY <1>2, <2>1, <2>3, <2>4 DEF WalkFrom, R
  <2>7. ASSUME NEW v \in next.visited
        PROVE  Stored(of[v]) /\ Inherits(of, v) \subseteq next.visited \cup next.missing \cup ToSet(next.todo)
    BY <1>1, <1>5, <2>1, <2>3 DEF WalkFrom
  <2> QED BY <2>5, <2>6, <2>7 DEF WalkFrom, R, next
<1> QED BY <1>3, <1>4, <1>5

LEMMA SetOutWalks ==
  ASSUME NEW of \in [Names -> Role], NEW n \in Names, Stored(of[n])
  PROVE  SetOut(of[n], n) \in Walking /\ WalkFrom(of, n, SetOut(of[n], n))
<1> DEFINE w == SetOut(of[n], n)
<1>1. w.todo = of[n].refs /\ w.visited = {n} /\ w.perms = of[n].perms /\ w.missing = {}
  BY DEF SetOut
<1>2. of[n].refs \in Seq(Names) /\ of[n].perms \in SUBSET Perms
  BY RoleFields
<1>3. w \in Walking
  BY <1>2 DEF SetOut, Walking
<1>4. Inherits(of, n) = ToSet(w.todo)
  BY <1>1 DEF Inherits
<1> HIDE DEF w
<1>5. WalkFrom(of, n, w)
  BY <1>1, <1>4, ReachableIsClosed DEF WalkFrom
<1> QED BY <1>3, <1>5 DEF w

(* A walk that has nothing left to look up has the Roles that can be reached.  *)
LEMMA WalkEnds ==
  ASSUME NEW of \in [Names -> Role], NEW n \in Names, NEW w, WalkFrom(of, n, w), w.todo = <<>>
  PROVE  w.perms = ReachablePerms(of, n) /\ w.missing = Dangling(of, n)
<1>1. ToSet(w.todo) = {}
  BY DEF ToSet
<1>2. \A x \in w.missing : Inherits(of, x) = {}
  BY DEF WalkFrom, Inherits
<1>3. w.visited \cup w.missing \in SUBSET Names
  BY ReachableIsClosed DEF WalkFrom
<1>4. \A x \in w.visited \cup w.missing : Inherits(of, x) \subseteq w.visited \cup w.missing
  BY <1>1, <1>2 DEF WalkFrom
<1>5. Reachable(of, n) = w.visited \cup w.missing
  <2>1. n \in w.visited \cup w.missing /\ w.visited \cup w.missing \subseteq Reachable(of, n)
    BY DEF WalkFrom
  <2>2. Reachable(of, n) \subseteq w.visited \cup w.missing
    <3> DEFINE V == w.visited \cup w.missing
    <3>1. V \in SUBSET Names /\ n \in V /\ \A x \in V : Inherits(of, x) \subseteq V
      BY <1>3, <1>4, <2>1
    <3> HIDE DEF V
    <3>2. Reachable(of, n) \subseteq V
      BY <3>1, ReachableIsLeast
    <3> QED BY <3>2 DEF V
  <2> QED BY <2>1, <2>2
<1>6. {x \in Reachable(of, n) : Stored(of[x])} = w.visited /\ {x \in Reachable(of, n) : ~Stored(of[x])} = w.missing
  BY <1>5 DEF WalkFrom
<1> QED BY <1>6 DEF WalkFrom, ReachablePerms, Dangling

LEMMA WalkReaches ==
  ASSUME NEW of \in [Names -> Role], NEW n \in Names, Stored(of[n])
  PROVE  Walk(of, n).perms = ReachablePerms(of, n) /\ Walk(of, n).missing = Dangling(of, n)
<1> DEFINE last == {w \in Walking : w.todo = <<>>}
           g == [w \in Walking |-> LookUp(of, w)]
           a == [w \in Walking |-> Names \ w.visited]
           b == [w \in Walking |-> Len(w.todo)]
           S == {w \in Walking : WalkFrom(of, n, w)}
           f == CHOOSE h : h = [w \in Walking |-> IF w.todo = <<>> THEN w ELSE h[LookUp(of, w)]]
<1>1. \A w \in Walking : g[w] = LookUp(of, w) /\ a[w] = Names \ w.visited /\ b[w] = Len(w.todo)
  OBVIOUS
<1> HIDE DEF g, a, b
<1>2. \A w \in Walking \ last : g[w] \in Walking
  BY <1>1, LookUpWalking
<1>3. IsIteration(f, Walking, last, g)
  <2>1. PICK h : IsIteration(h, Walking, last, g)
    <3> HIDE DEF last
    <3> QED BY <1>2, IterationDefined
  <2>2. h = [w \in Walking |-> IF w.todo = <<>> THEN w ELSE h[LookUp(of, w)]]
    BY <1>1, <2>1 DEF IsIteration
  <2>3. f = [w \in Walking |-> IF w.todo = <<>> THEN w ELSE f[LookUp(of, w)]]
    BY <2>2
  <2> HIDE DEF f
  <2> QED BY <1>1, <2>3 DEF IsIteration
<1>4. Walk(of, n) = f[SetOut(of[n], n)]
  BY DEF Walk
<1> HIDE DEF f
<1>5. Descends(S, last, g, Names, a, b)
  <2> SUFFICES ASSUME NEW w \in S \ last
               PROVE  /\ g[w] \in S
                      /\ a[w] \in SUBSET Names /\ b[w] \in Nat
                      /\ a[g[w]] \subseteq a[w] /\ (a[g[w]] = a[w] => b[g[w]] < b[w])
    BY DEF Descends
  <2>1. w \in Walking /\ w.todo # <<>> /\ WalkFrom(of, n, w) /\ w.todo \in Seq(Names)
    BY DEF Walking
  <2>2. g[w] = LookUp(of, w) /\ g[w] \in Walking
    BY <1>1, <2>1, LookUpWalking
  <2>3. WalkFrom(of, n, g[w])
    BY <2>1, <2>2, LookUpKeepsWalk
  <2>4. /\ a[w] = Names \ w.visited /\ a[g[w]] = Names \ g[w].visited
        /\ b[w] = Len(w.todo) /\ b[g[w]] = Len(g[w].todo)
    BY <1>1, <2>1, <2>2
  <2>5. Head(w.todo) \in Names /\ Len(Tail(w.todo)) = Len(w.todo) - 1 /\ Len(w.todo) \in Nat
    BY <2>1, ToSetOf
  <2>6. \/ g[w].visited = w.visited /\ g[w].todo = Tail(w.todo)
        \/ g[w].visited = w.visited \cup {Head(w.todo)} /\ Head(w.todo) \notin w.visited
    <3> DEFINE m == Head(w.todo)
               next == LookUp(of, w)
    <3>1. /\ ~Stored(of[m]) => next.todo = Tail(w.todo) /\ next.visited = w.visited
          /\ Stored(of[m]) /\ m \in w.visited => next.todo = Tail(w.todo) /\ next.visited = w.visited
          /\ Stored(of[m]) /\ m \notin w.visited => next.visited = w.visited \cup {m}
      BY <2>1, LookUpFields
    <3> HIDE DEF m, next
    <3>2. \/ next.visited = w.visited /\ next.todo = Tail(w.todo)
          \/ next.visited = w.visited \cup {m} /\ m \notin w.visited
      BY <3>1
    <3> QED BY <2>2, <3>2 DEF m, next
  <2>7. g[w] \in S /\ a[w] \in SUBSET Names /\ b[w] \in Nat
    BY <2>2, <2>3, <2>4, <2>5
  <2>8. CASE g[w].visited = w.visited /\ g[w].todo = Tail(w.todo)
    <3>1. a[g[w]] = a[w]
      BY <2>4, <2>8
    <3>2. b[g[w]] < b[w]
      BY <2>4, <2>5, <2>8
    <3> QED BY <2>7, <3>1, <3>2
  <2>9. CASE g[w].visited = w.visited \cup {Head(w.todo)} /\ Head(w.todo) \notin w.visited
    <3>1. a[g[w]] \subseteq a[w]
      BY <2>4, <2>9
    <3>2. a[g[w]] # a[w]
      BY <2>4, <2>5, <2>9
    <3> QED BY <2>7, <3>1, <3>2
  <2> QED BY <2>6, <2>8, <2>9
<1>6. SetOut(of[n], n) \in S
  BY SetOutWalks
<1>7. f[SetOut(of[n], n)] \in S \cap last
  <2>1. S \in SUBSET Walking
    OBVIOUS
  <2> HIDE DEF S, last
  <2> QED BY <1>3, <1>5, <1>6, <2>1, NamesFinite, IterationEnds
<1> QED BY <1>4, <1>7, WalkEnds

(* Along reversed references a Role is found by exactly the Roles that reach it. *)
LEMMA DependentsReach ==
  ASSUME NEW of \in [Names -> Role], NEW name \in Names
  PROVE  Dependents(of, name) = {m \in Names : name \in Reachable(of, m)}
<1> DEFINE D == SUBSET Names
           More(F) == F \cup {n \in Names : Inherits(of, n) \cap F # {}}
           last == {F \in D : More(F) = F}
           g == [F \in D |-> More(F)]
           a == [F \in D |-> Names \ F]
           b == [F \in D |-> 0]
           S == {F \in D : name \in F /\ \A m \in F : name \in Reachable(of, m)}
           f == CHOOSE h : h = [F \in D |-> IF More(F) = F THEN F ELSE h[More(F)]]
<1>1. \A F \in D : g[F] = More(F) /\ a[F] = Names \ F /\ b[F] = 0
  OBVIOUS
<1> HIDE DEF g, a, b
<1>2. \A F \in D : More(F) \in D /\ F \subseteq More(F)
  OBVIOUS
<1>3. IsIteration(f, D, last, g)
  <2>1. PICK h : IsIteration(h, D, last, g)
    <3>1. \A F \in D \ last : g[F] \in D
      <4> HIDE DEF D, More
      <4> QED BY <1>1, <1>2
    <3> HIDE DEF last, D, More
    <3> QED BY <3>1, IterationDefined
  <2> HIDE DEF More, D
  <2>2. h = [F \in D |-> IF More(F) = F THEN F ELSE h[More(F)]]
    BY <1>1, <2>1 DEF IsIteration
  <2>3. f = [F \in D |-> IF More(F) = F THEN F ELSE f[More(F)]]
    BY <2>2
  <2> HIDE DEF f
  <2> QED BY <1>1, <2>3 DEF IsIteration
<1>4. Dependents(of, name) = f[{name}]
  BY DEF Dependents
<1> HIDE DEF f
<1>5. \A F \in S : More(F) \in S
  <2> SUFFICES ASSUME NEW F \in S, NEW m \in More(F), m \notin F PROVE name \in Reachable(of, m)
    BY <1>2
  <2>1. PICK x \in Inherits(of, m) : x \in F
    OBVIOUS
  <2>2. m \in Names /\ x \in Reachable(of, m) /\ name \in Reachable(of, x)
    BY <2>1, ReachableIsClosed
  <2> QED BY <2>2, ReachableNested
<1>6. Descends(S, last, g, Names, a, b)
  <2> SUFFICES ASSUME NEW F \in S \ last
               PROVE  /\ g[F] \in S
                      /\ a[F] \in SUBSET Names /\ b[F] \in Nat
                      /\ a[g[F]] \subseteq a[F] /\ (a[g[F]] = a[F] => b[g[F]] < b[F])
    BY DEF Descends
  <2>1. F \in D /\ F \in S /\ g[F] = More(F) /\ More(F) # F /\ More(F) \in D /\ F \subseteq More(F)
    BY <1>1, <1>2
  <2>2. g[F] \in S
    BY <1>5, <2>1
  <2>3. a[F] = Names \ F /\ b[F] = 0 /\ a[g[F]] = Names \ More(F)
    BY <1>1, <2>1
  <2> HIDE DEF More, S
  <2>4. Names \ More(F) \subseteq Names \ F /\ Names \ More(F) # Names \ F
    BY <2>1
  <2> QED BY <2>2, <2>3, <2>4
<1>7. {name} \in S
  BY ReachableIsClosed
<1>8. f[{name}] \in S \cap last
  <2>1. S \in SUBSET D
    OBVIOUS
  <2> HIDE DEF S, last, D
  <2> QED BY <1>3, <1>6, <1>7, <2>1, NamesFinite, IterationEnds
<1> DEFINE found == f[{name}]
<1>9. found \in SUBSET Names /\ name \in found /\ More(found) = found /\ \A m \in found : name \in Reachable(of, m)
  BY <1>8
<1> HIDE DEF found
<1>10. ASSUME NEW m \in Names, m \notin found PROVE name \notin Reachable(of, m)
  <2> DEFINE others == Names \ found
  <2>1. ASSUME NEW x \in others PROVE Inherits(of, x) \subseteq others
    <3>1. Inherits(of, x) \cap found = {}
      BY <1>9
    <3> QED BY <3>1, InheritsTypes
  <2>2. others \in SUBSET Names /\ m \in others
    BY <1>10
  <2> HIDE DEF others
  <2>3. Reachable(of, m) \subseteq others
    BY <2>1, <2>2, ReachableIsLeast
  <2> QED BY <1>9, <2>3 DEF others
<1>11. found = {m \in Names : name \in Reachable(of, m)}
  BY <1>9, <1>10
<1> QED BY <1>4, <1>11 DEF found

-----------------------------------------------------------------------------
(* The walk of a reconcile, Get by Get, in a cache that stays as it is.       *)

Steady(of, n) ==
    /\ job[n].at \in {"list", "walk"} => job[n].copy = of[n] /\ Stored(of[n])
    /\ job[n].at = "list" => job[n].missing = {}
    /\ job[n].at = "walk" => WalkFrom(of, n, job[n])

LEMMA SameWalk ==
  ASSUME NEW of, NEW n, Steady(of, n),
         job'[n].at = job[n].at, job'[n].copy = job[n].copy, job'[n].todo = job[n].todo,
         job'[n].visited = job[n].visited, job'[n].perms = job[n].perms, job'[n].missing = job[n].missing
  PROVE  Steady(of, n)'
  BY DEF Steady, WalkFrom

LEMMA SteadyStep ==
  ASSUME NEW CONSTANT of, NEW CONSTANT n \in Names, TypeOK, crole = of, Steady(of, n), [Next]_vars
  PROVE  Steady(of, n)'
<1>0. job[n] \in Job /\ job \in [Names -> Job] /\ of \in [Names -> Role] /\ of[n] \in Role
  BY DEF TypeOK
<1>1. CASE job'[n] = job[n]
  BY <1>1, SameWalk
<1>2. CASE job'[n] = NoJob
  BY <1>2 DEF Steady, NoJob
<1>3. CASE Create(n) \/ Edit(n) \/ Delete(n) \/ Leave(n)
  <2>1. job'[n] = [job[n] EXCEPT !.fresh = FALSE]
    BY <1>0, <1>3 DEF Create, Edit, Delete, Leave, Outdated
  <2>2. /\ job'[n].at = job[n].at /\ job'[n].copy = job[n].copy /\ job'[n].todo = job[n].todo
        /\ job'[n].visited = job[n].visited /\ job'[n].perms = job[n].perms /\ job'[n].missing = job[n].missing
    BY <1>0, <2>1 DEF Job
  <2> QED BY <2>2, SameWalk
<1>4. CASE Start(n)
  <2>1. CASE FirstStep(crole[n]) = "idle"
    BY <1>0, <1>2, <1>4, <2>1 DEF Start
  <2>2. CASE FirstStep(crole[n]) # "idle"
    <3>1. job'[n] = [NoJob EXCEPT !.at = FirstStep(crole[n]), !.copy = crole[n],
                                  !.fresh = \A i \in DOMAIN events : events[i][1] # n]
      BY <1>0, <1>4, <2>2 DEF Start
    <3>2. job'[n].copy = of[n] /\ job'[n].at = FirstStep(of[n]) /\ job'[n].missing = {}
      BY <3>1 DEF NoJob
    <3>3. FirstStep(of[n]) # "walk" /\ (FirstStep(of[n]) = "list" => Stored(of[n]))
      BY <1>0, RoleFields DEF FirstStep, Stored
    <3> QED BY <3>2, <3>3 DEF Steady
  <2> QED BY <2>1, <2>2
<1>5. CASE Finalize(n) \/ WalkFails(n)
  <2>1. job'[n].at \in {"strip", "error"}
    BY <1>0, <1>5 DEF Finalize, WalkFails, Goto, Job
  <2> QED BY <2>1 DEF Steady
<1>6. CASE ListRegistrations(n)
  <2>1. job'[n] = [job[n] EXCEPT !.at = "walk", !.regs = creg, !.todo = job[n].copy.refs,
                                 !.visited = {n}, !.perms = job[n].copy.perms]
    BY <1>0, <1>6 DEF ListRegistrations
  <2>2. job[n].copy = of[n] /\ Stored(of[n]) /\ job[n].missing = {}
    BY <1>6 DEF ListRegistrations, Steady
  <2>3. /\ job'[n].at = "walk" /\ job'[n].copy = of[n] /\ job'[n].todo = of[n].refs
        /\ job'[n].visited = {n} /\ job'[n].perms = of[n].perms /\ job'[n].missing = {}
    BY <1>0, <2>1, <2>2 DEF Job
  <2> DEFINE w == SetOut(of[n], n)
  <2>4. w.todo = of[n].refs /\ w.visited = {n} /\ w.perms = of[n].perms /\ w.missing = {}
    BY DEF SetOut
  <2>5. WalkFrom(of, n, w)
    BY <1>0, <2>2, SetOutWalks
  <2> HIDE DEF w
  <2>6. WalkFrom(of, n, job'[n])
    BY <2>3, <2>4, <2>5 DEF WalkFrom
  <2> QED BY <2>2, <2>3, <2>6 DEF Steady
<1>7. CASE GetInherited(n)
  <2>1. /\ job'[n] = LookUp(of, job[n]) /\ job[n].at = "walk" /\ job[n].todo # <<>>
        /\ job[n].copy = of[n] /\ Stored(of[n]) /\ WalkFrom(of, n, job[n])
    BY <1>0, <1>7 DEF GetInherited, Steady
  <2>2. job'[n].copy = job[n].copy /\ job'[n].at = job[n].at
    BY <1>0, <2>1, LookUpKeeps
  <2>3. WalkFrom(of, n, job'[n])
    BY <1>0, <2>1, JobFields, LookUpKeepsWalk
  <2> QED BY <2>1, <2>2, <2>3 DEF Steady
<1>8. CASE AddFinalizer(n) \/ Strip(n) \/ UpdateStatus(n) \/ ReportError(n) \/ Fail(n)
  <2>1. \E again : End(n, again)
    BY <1>8, Zenon DEF AddFinalizer, Strip, UpdateStatus, ReportError, Fail
  <2> QED BY <1>2, <2>1, EndJob
<1>9. ASSUME NEW m \in Names, m # n,
             \/ Create(m) \/ Edit(m) \/ Delete(m) \/ Leave(m)
             \/ Step(m) \/ WalkFails(m) \/ Fail(m)
      PROVE  job'[n] = job[n]
  <2>1. CASE Create(m) \/ Edit(m) \/ Delete(m) \/ Leave(m)
    BY <1>9, <2>1, UserStep
  <2>2. CASE Step(m) \/ WalkFails(m) \/ Fail(m)
    BY <1>9, <2>2, ReconcileStep
  <2> QED BY <1>9, <2>1, <2>2
<1>10. CASE Restart
  BY <1>0, <1>2, <1>10 DEF Restart
<1>11. CASE \/ Deliver \/ EditRegistration \/ NotifyInheritors \/ SyncRegistration
            \/ (\E p \in Perms : NotifyRegistration(p)) \/ UNCHANGED vars
  <2>1. job' = job
    BY <1>11 DEF Deliver, EditRegistration, NotifyInheritors, SyncRegistration, NotifyRegistration, vars
  <2> QED BY <1>1, <2>1
<1>12. ASSUME NEW m \in Names,
             \/ Create(m) \/ Edit(m) \/ Delete(m) \/ Leave(m)
             \/ Step(m) \/ WalkFails(m) \/ Fail(m)
      PROVE  Steady(of, n)'
  <2>1. CASE m # n
    BY <1>1, <1>9, <1>12, <2>1
  <2>2. CASE m = n
    <3>1. Create(n) \/ Edit(n) \/ Delete(n) \/ Leave(n) \/ Step(n) \/ WalkFails(n) \/ Fail(n)
      BY <1>12, <2>2
    <3>2. CASE Step(n)
      BY <1>4, <1>5, <1>6, <1>7, <1>8, <3>2, Zenon DEF Step
    <3> QED BY <1>3, <1>5, <1>8, <3>1, <3>2, Zenon
  <2> QED BY <2>1, <2>2
<1> QED BY <1>10, <1>11, <1>12 DEF Next

-----------------------------------------------------------------------------
(* Theorems.                                                                *)

(* Every variable keeps the type the code gives it, whatever users plan and   *)
(* whatever the references look like. *)
THEOREM TypeCorrect == Spec => []TypeOK
  BY InitType, TypeStep, PTL DEF Spec

(* The inductive invariant: an informer is behind by undelivered writes only,  *)
(* what a reconcile takes for current is what is stored, and the finalizer is *)
(* on every Role with tuples (DeleteRole, OpenFGARoleFinalizer). *)
THEOREM RoleInvariant == Spec => []RoleInv
<1>1. TypeOK /\ RoleInv /\ [Next]_vars => TypeOK' /\ RoleInv'
  BY TypeStep, RoleStep
<1> QED BY <1>1, InitType, InitInv, PTL DEF Spec

(* A Role leaves storage only after the tuples that earlier versions wrote    *)
(* for it, through conflicts, failures and restarts                           *)
(* (OpenFGARoleFinalizer.Finalize). *)
THEOREM TuplesGoFirst == Spec => []RoleTuplesGoFirst
<1>1. TypeOK /\ RoleInv => RoleTuplesGoFirst
  BY DEF RoleInv, RoleTuplesGoFirst
<1> QED BY <1>1, RoleInvariant, TypeCorrect, PTL

(* A status that is written names the spec that is stored at that moment,     *)
(* however many edits came while the reconcile walked (updateRoleStatus). *)
THEOREM StatusIsObserved == Spec => ObservedIsStored
<1> DEFINE Named(n) == Stored(role[n]) /\ role'[n].status # role[n].status =>
                         ~Stored(role'[n]) \/ role'[n].status.obs = role'[n].gen
<1>1. ASSUME TypeOK, RoleInv, [Next]_vars, NEW m \in Names PROVE Named(m)
  <2>0. role[m] \in Role
    BY <1>1 DEF TypeOK
  <2>1. ASSUME NEW n \in Names, Create(n) \/ Edit(n) \/ Delete(n) \/ Leave(n) PROVE Named(m)
    <3>1. PICK r \in Role :
            /\ Put(n, r)
            /\ Stored(role[n]) /\ Stored(r) => r.status = role[n].status
      BY <1>1, <2>1, UserStep
    <3>2. role'[n] = r /\ \A k \in Names : k # n => role'[k] = role[k]
      BY <1>1, <3>1 DEF Put, TypeOK
    <3> QED BY <1>1, <3>1, <3>2
  <2>2. ASSUME NEW n \in Names, Step(n) \/ WalkFails(n) \/ Fail(n) PROVE Named(m)
    <3>1. role' = role \/ (job[n].fresh /\ \E r \in Role : Put(n, r) /\ Writes(n, r))
      BY <1>1, <2>2, ReconcileStep
    <3>2. ASSUME NEW r \in Role, job[n].fresh, Put(n, r), Writes(n, r) PROVE Named(m)
      <4>1. role'[n] = r /\ \A k \in Names : k # n => role'[k] = role[k]
        BY <1>1, <3>2 DEF Put, TypeOK
      <4>2. job[n].copy = role[n]
        BY <1>1, <3>2 DEF RoleInv, InformerInv
      <4>3. role[n] \in Role
        BY <1>1 DEF TypeOK
      <4>4. r.status = role[n].status \/ r.status.obs = r.gen
        BY <3>2, <4>2, <4>3 DEF Writes, Role
      <4> QED BY <1>1, <4>1, <4>4
    <3> QED BY <3>1, <3>2
  <2>3. ASSUME \/ Deliver \/ EditRegistration \/ NotifyInheritors \/ SyncRegistration
               \/ \E p \in Perms : NotifyRegistration(p)
               \/ Restart
        PROVE  role' = role
    BY <2>3 DEF Deliver, EditRegistration, NotifyInheritors, SyncRegistration, NotifyRegistration, Restart
  <2> QED BY <1>1, <2>1, <2>2, <2>3 DEF Next, vars
<1>2. TypeOK /\ RoleInv /\ [Next]_vars => [\A n \in Names : Named(n)]_vars
  BY <1>1
<1> QED BY <1>2, TypeCorrect, RoleInvariant, PTL DEF Spec, ObservedIsStored

(* Whatever the references look like - cycles, diamonds, Roles that are not   *)
(* there - a walk ends with the permissions of exactly the Roles that can be  *)
(* reached and reports exactly those that are missing                         *)
(* (getAllEffectivePermissions), and a change of a Role is announced to       *)
(* exactly the Roles that reach it (rolesDependentOnRole). *)
THEOREM WalksReach == Spec => []WalkIsReachability
<1>1. TypeOK => WalkIsReachability
  <2> SUFFICES ASSUME TypeOK PROVE WalkIsReachability
    OBVIOUS
  <2>1. crole \in [Names -> Role]
    BY DEF TypeOK
  <2> QED BY <2>1, WalkReaches, DependentsReach DEF WalkIsReachability
<1> QED BY <1>1, TypeCorrect, PTL

(* The reconcile's own walk, Get by Get among the steps of everybody else: when *)
(* the cache of Roles stays as it is from before a reconcile starts, the status *)
(* it ends with is that of what can be reached (Reconcile, updateRoleStatus).  *)
(* Without fairness a behaviour may stop at any point, so this says the same of *)
(* a cache that changes only once the status is computed. *)
THEOREM SteadyWalk ==
  ASSUME NEW CONSTANT of, NEW CONSTANT n \in Names
  PROVE  Init /\ [][Next]_vars =>
           [](job[n].at = "idle" /\ [](crole = of) =>
                [](job[n].at = "walk" /\ job[n].todo = <<>> =>
                     Computed(n) = StatusOf(of[n].gen, ReachablePerms(of, n), Dangling(of, n), job[n].regs)))
<1> DEFINE Right == job[n].at = "walk" /\ job[n].todo = <<>> =>
                     Computed(n) = StatusOf(of[n].gen, ReachablePerms(of, n), Dangling(of, n), job[n].regs)
<1>1. TypeOK /\ crole = of /\ Steady(of, n) /\ [Next]_vars => Steady(of, n)'
  BY SteadyStep
<1>2. job[n].at = "idle" => Steady(of, n)
  BY DEF Steady
<1>3. TypeOK /\ crole = of /\ Steady(of, n) => Right
  <2> SUFFICES ASSUME TypeOK, crole = of, Steady(of, n), job[n].at = "walk", job[n].todo = <<>>
               PROVE  Computed(n) = StatusOf(of[n].gen, ReachablePerms(of, n), Dangling(of, n), job[n].regs)
    OBVIOUS
  <2>1. of \in [Names -> Role] /\ job[n].copy = of[n] /\ WalkFrom(of, n, job[n])
    BY DEF TypeOK, Steady
  <2>2. job[n].perms = ReachablePerms(of, n) /\ job[n].missing = Dangling(of, n)
    BY <2>1, WalkEnds
  <2> QED BY <2>1, <2>2 DEF Computed
<1> HIDE DEF Right
<1>4. Init /\ [][Next]_vars => [](job[n].at = "idle" /\ [](crole = of) => []Right)
  BY <1>1, <1>2, <1>3, InitType, TypeStep, PTL
<1> QED BY <1>4 DEF Right

=============================================================================
