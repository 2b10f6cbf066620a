-------------------------- MODULE AuthorizerProofs --------------------------
(***************************************************************************)
(* TLAPS proofs about Authorizer, for every registration, model, grant and  *)
(* review: types, that no review is allowed without a grant behind it, that *)
(* lasting grants are honoured, and that the model is the closure of what   *)
(* is registered.                                                           *)
(***************************************************************************)
EXTENDS Authorizer, SequenceTheorems, FiniteSetTheorems, TLAPS

-----------------------------------------------------------------------------
(* OpenFGA's check follows parent tuples.                                   *)

(* The objects Check asks about, and what makes it say yes to one of them when *)
(* it says yes to those of S.                                                  *)
Asked(object) == {object} \cup {e[2] : e \in cast.parents}
Yes(model, user, relation, S, o) ==
    /\ o[1] \in DOMAIN model /\ relation \in model[o[1]].relations
    /\ \/ <<user, relation, o>> \in grants
       \/ \E e \in cast.parents : e[1] = o /\ e[2][1] \in model[o[1]].parents /\ e[2] \in S

(* The least set of objects that Check can say yes to is a fixed point. *)
LEMMA YesFixpoint ==
  ASSUME NEW model, NEW user, NEW relation, NEW D
  PROVE  \E W \in SUBSET D : \A o \in D : o \in W <=> Yes(model, user, relation, W, o)
<1> DEFINE Y(S, o) == Yes(model, user, relation, S, o)
           Closed(S) == \A o \in D : Y(S, o) => o \in S
           W == {o \in D : \A S \in SUBSET D : Closed(S) => o \in S}
           T == {o \in D : Y(W, o)}
<1>1. ASSUME NEW S, NEW R, S \subseteq R, NEW o, Y(S, o) PROVE Y(R, o)
  BY <1>1 DEF Yes
<1> HIDE DEF Y
<1>2. ASSUME NEW o \in D, Y(W, o) PROVE o \in W
  <2>1. SUFFICES ASSUME NEW S \in SUBSET D, Closed(S) PROVE o \in S
    OBVIOUS
  <2>2. W \subseteq S
    BY <2>1
  <2>3. Y(S, o)
    BY <1>1, <1>2, <2>2
  <2> QED BY <2>1, <2>3
<1>3. Closed(T)
  <2>1. T \subseteq W
    BY <1>2
  <2> SUFFICES ASSUME NEW o \in D, Y(T, o) PROVE o \in T
    OBVIOUS
  <2>2. Y(W, o)
    BY <1>1, <2>1
  <2> QED BY <2>2
<1>4. W \subseteq T
  BY <1>3
<1>5. \A o \in D : o \in W <=> Y(W, o)
  BY <1>2, <1>4
<1> QED BY <1>5 DEF Y

(* So the recursion of Check has a solution. *)
LEMMA CheckUnfolds ==
  ASSUME NEW model, NEW user, NEW relation, NEW object
  PROVE  \E h :
    /\ Check(model, user, relation, object) <=> h[object]
    /\ \A o \in Asked(object) : h[o] <=>
            /\ o[1] \in DOMAIN model /\ relation \in model[o[1]].relations
            /\ \/ <<user, relation, o>> \in grants
               \/ \E e \in cast.parents : e[1] = o /\ e[2][1] \in model[o[1]].parents /\ h[e[2]]
<1> DEFINE D == {object} \cup {e[2] : e \in cast.parents}
           Body(h, o) ==
            /\ o[1] \in DOMAIN model /\ relation \in model[o[1]].relations
            /\ \/ <<user, relation, o>> \in grants
               \/ \E e \in cast.parents : e[1] = o /\ e[2][1] \in model[o[1]].parents /\ h[e[2]]
<1>1. PICK W \in SUBSET D : \A o \in D : o \in W <=> Yes(model, user, relation, W, o)
  <2> HIDE DEF D
  <2> QED BY YesFixpoint
<1> DEFINE w == [o \in D |-> o \in W]
<1>2. \A e \in cast.parents : e[2] \in D /\ (w[e[2]] <=> e[2] \in W)
  OBVIOUS
<1>3. \A o \in D : Body(w, o) <=> o \in W
  <2> SUFFICES ASSUME NEW o \in D PROVE Body(w, o) <=> o \in W
    OBVIOUS
  <2>1. o \in W <=> Yes(model, user, relation, W, o)
    BY <1>1
  <2> HIDE DEF D, w
  <2>2. Body(w, o) <=> Yes(model, user, relation, W, o)
    BY <1>2, Zenon DEF Yes
  <2> QED BY <2>1, <2>2
<1>4. \A o \in D : Body(w, o) = (o \in W)
  <2> SUFFICES ASSUME NEW o \in D PROVE Body(w, o) = (o \in W)
    OBVIOUS
  <2>1. Body(w, o) <=> o \in W
    BY <1>3
  <2>2. Body(w, o) \in BOOLEAN /\ (o \in W) \in BOOLEAN
    OBVIOUS
  <2> HIDE DEF Body
  <2> QED BY <2>1, <2>2
<1>5. w = [o \in D |-> Body(w, o)]
  BY <1>4
<1> DEFINE holds == CHOOSE g : g = [o \in D |-> Body(g, o)]
<1>6. holds = [o \in D |-> Body(holds, o)]
  BY <1>5
<1>7. Check(model, user, relation, object) = holds[object]
  BY DEF Check
<1>8. \A o \in D : holds[o] = Body(holds, o)
  <2> HIDE DEF holds, D, Body
  <2> QED BY <1>6
<1> QED BY <1>7, <1>8 DEF Asked

(* What Check says yes to has a grant on the object or on one of its owners:   *)
(* the yes came along parent tuples, and those lead back to no object.         *)
LEMMA CheckIsGranted ==
  ASSUME cast \in Casts, NEW model, NEW user, NEW relation, NEW object,
         Check(model, user, relation, object)
  PROVE  \E a \in Owners(object) : <<user, relation, a>> \in grants
<1> SUFFICES ASSUME \A a \in Owners(object) : <<user, relation, a>> \notin grants
             PROVE  FALSE
  OBVIOUS
<1>h. PICK h :
        /\ Check(model, user, relation, object) <=> h[object]
        /\ \A o \in Asked(object) : h[o] <=>
              /\ o[1] \in DOMAIN model /\ relation \in model[o[1]].relations
              /\ \/ <<user, relation, o>> \in grants
                 \/ \E e \in cast.parents : e[1] = o /\ e[2][1] \in model[o[1]].parents /\ h[e[2]]
  <2> HIDE DEF Asked
  <2> QED BY CheckUnfolds
<1>1. /\ h[object]
      /\ \A o \in Asked(object) : h[o] =>
              \/ <<user, relation, o>> \in grants
              \/ \E e \in cast.parents : e[1] = o /\ h[e[2]]
  BY <1>h, Zenon
<1>2. object \in Owners(object) /\ Owners(object) \subseteq Asked(object)
  BY DEF Owners, Asked
<1>3. \A e \in cast.parents : e[1] \in Owners(object) => e[2] \in Owners(object)
  BY DEF Owners
<1> DEFINE S == {o \in Owners(object) : h[o]}
<1>4. \A o \in S : \E e \in cast.parents : e[1] = o /\ e[2] \in S
  <2> SUFFICES ASSUME NEW o \in S PROVE \E e \in cast.parents : e[1] = o /\ e[2] \in S
    OBVIOUS
  <2>1. o \in Owners(object) /\ h[o] /\ o \in Asked(object)
    BY <1>2
  <2>2. PICK e \in cast.parents : e[1] = o /\ h[e[2]]
    BY <1>1, <2>1
  <2>3. e[2] \in Owners(object)
    BY <1>3, <2>1, <2>2
  <2> QED BY <2>2, <2>3
<1>5. S \in (SUBSET {e[1] : e \in cast.parents}) \ {{}}
  <2>1. object \in S
    BY <1>1, <1>2
  <2> QED BY <1>4, <2>1
<1>6. \E o \in S : \A e \in cast.parents : e[1] = o => e[2] \notin S
  BY <1>5, OwnersAbove
<1> QED BY <1>4, <1>6

-----------------------------------------------------------------------------
(* Registrations, wherever they are kept.                                   *)

(* A version that someone registers in this behaviour, or what is left of it   *)
(* while it is being deleted; or nothing.                                      *)
Stems ==
    {v \in Registration : \E w \in Others(-1) : w.type = v.type /\ w.key = v.key} \cup {Absent}

(* A model is made from registrations. *)
Models == {ModelOf(reg) : reg \in UNION {[S -> Registration] : S \in SUBSET Names}}

(* A review at work: what was read for it is about its own resource. *)
Targets(r) == UNION {Grounds(t, r, cast.subresources) : t \in TypesAt(r.key)}
Request ==
    [pc : {"idle", "namespace", "permission", "object", "root", "check", "answered"},
     review : cast.reviews \cup {None},
     object : (UNION {Targets(r) : r \in cast.reviews}) \cup {None},
     root : {<<Root, t>> : t \in Types} \cup {None},
     pin : Nat, answer : {"", "allowed", "denied", "errored"},
     due : BOOLEAN, failed : BOOLEAN]

(* Every copy of a registration, in the API server, under way to the webhook,  *)
(* with its handlers or in the index, stems from one that was registered; the  *)
(* index has it under its own key.                                             *)
CopiesInv ==
    /\ cast \in Casts
    /\ stored \in [Names -> Stems] /\ known \in [Names -> Stems]
    /\ sent \in [Names -> Seq(Stems)] /\ plan \in [Names -> Seq(Version \cap Stems)]
    /\ index \in [Keys -> Stems]
    /\ \A k \in Keys : index[k] # Absent => index[k].key = k

BoundsInv ==
    /\ models \in Seq(Models) /\ modelID \in 0..Len(models) /\ req.pin \in 0..Len(models)
    /\ ready \in BOOLEAN /\ faults \in 0..MaxFaults

(* How far a review has come says what holds of it. *)
ReviewInv ==
    /\ req \in Request
    /\ req.pc # "idle" => req.review \in cast.reviews
    /\ req.pc \in {"permission", "object", "root", "check"} => OwnNamespace(req.review)
    /\ req.pc \in {"root", "check"} => req.object \in Targets(req.review)
    /\ req.pc = "check" => \E t \in TypesAt(req.review.key) : req.root = <<Root, t>>

AuthorizerInv == CopiesInv /\ BoundsInv /\ ReviewInv

LEMMA InvImpliesType == AuthorizerInv => TypeOK
<1> SUFFICES ASSUME AuthorizerInv PROVE TypeOK
  OBVIOUS
<1> USE DEF AuthorizerInv, CopiesInv, BoundsInv, ReviewInv
<1>1. Stems \subseteq Registration \cup {Absent}
  BY DEF Stems
<1>2. Seq(Stems) \subseteq Seq(Registration \cup {Absent})
  BY <1>1
<1>3. Seq(Version \cap Stems) \subseteq Seq(Version)
  OBVIOUS
<1>4. /\ stored \in [Names -> Registration \cup {Absent}]
      /\ known \in [Names -> Registration \cup {Absent}]
      /\ index \in [Keys -> Registration \cup {Absent}]
  BY <1>1
<1>5. sent \in [Names -> Seq(Registration \cup {Absent})]
  BY <1>2
<1>6. plan \in [Names -> Seq(Version)]
  BY <1>3
<1>7. /\ req.pc \in {"idle", "namespace", "permission", "object", "root", "check", "answered"}
      /\ req.answer \in {"", "allowed", "denied", "errored"}
  BY DEF Request
<1> QED BY <1>4, <1>5, <1>6, <1>7 DEF TypeOK

-----------------------------------------------------------------------------
(* The start.                                                               *)

LEMMA IdleIsRequest == Idle \in Request
<1> DEFINE A == cast.reviews \cup {None}
           B == (UNION {Targets(r) : r \in cast.reviews}) \cup {None}
           C == {<<Root, t>> : t \in Types} \cup {None}
<1>1. None \in A /\ None \in B /\ None \in C
  OBVIOUS
<1> HIDE DEF A, B, C
<1>2. Idle \in [pc : {"idle", "namespace", "permission", "object", "root", "check", "answered"},
                review : A, object : B, root : C,
                pin : Nat, answer : {"", "allowed", "denied", "errored"},
                due : BOOLEAN, failed : BOOLEAN]
  BY <1>1 DEF Idle
<1> QED BY <1>2 DEF Request, A, B, C

LEMMA IdleReview == req = Idle => ReviewInv
<1> SUFFICES ASSUME req = Idle PROVE ReviewInv
  OBVIOUS
<1>1. req.pc = "idle"
  BY DEF Idle
<1>2. req \in Request
  BY IdleIsRequest
<1> QED BY <1>1, <1>2 DEF ReviewInv

LEMMA AtStart == Init => AuthorizerInv
<1> SUFFICES ASSUME Init PROVE AuthorizerInv
  OBVIOUS
<1>1. PICK c \in Casts :
        /\ cast = c /\ stored = c.from /\ plan = c.plan
        /\ models = <<>> /\ grants = c.grants /\ grantPlan = c.grantPlan
        /\ sent = [n \in Names |-> <<>>] /\ known = stored
        /\ index = [k \in Keys |->
                LET of == {n \in Names : c.from[n] # Absent /\ c.from[n].key = k}
                IN  IF of = {} THEN Absent ELSE c.from[Max(of)]]
        /\ modelID = 0 /\ ready = TRUE /\ req = Idle /\ faults = c.faults
  BY DEF Init
<1>2. /\ c.from \in [Names -> Version] /\ c.plan \in [Names -> Seq(Version)]
      /\ c.faults \in 0..MaxFaults
  BY CastTypes
<1>3. \A n \in Names : n # -1
  BY BoundTypes
<1>4. \A n \in Names : c.from[n] \in Stems
  <2> SUFFICES ASSUME NEW n \in Names, c.from[n] # Absent PROVE c.from[n] \in Stems
    BY DEF Stems
  <2>1. c.from[n] \in Registration
    BY <1>2 DEF Version
  <2>2. c.from[n] \in Others(-1)
    BY <1>1, <1>3 DEF Others
  <2> QED BY <2>1, <2>2 DEF Stems
<1>5. \A n \in Names : c.plan[n] \in Seq(Version \cap Stems)
  <2> SUFFICES ASSUME NEW n \in Names PROVE c.plan[n] \in Seq(Version \cap Stems)
    OBVIOUS
  <2>1. c.plan[n] \in Seq(Version)
    BY <1>2
  <2>2. ASSUME NEW i \in DOMAIN c.plan[n] PROVE c.plan[n][i] \in Version \cap Stems
    <3>1. c.plan[n][i] \in Version
      BY <2>1
    <3>2. CASE c.plan[n][i] = Absent
      BY <3>1, <3>2 DEF Stems
    <3>3. CASE c.plan[n][i] # Absent
      <4>1. c.plan[n][i] \in Others(-1)
        BY <1>1, <1>3, <3>3 DEF Others
      <4>2. c.plan[n][i] \in Registration
        BY <3>1, <3>3 DEF Version
      <4> QED BY <3>1, <4>1, <4>2 DEF Stems
    <3> QED BY <3>2, <3>3
  <2> QED BY <2>1, <2>2
<1>6. ASSUME NEW k \in Keys PROVE index[k] \in Stems /\ (index[k] # Absent => index[k].key = k)
  <2> DEFINE of == {n \in Names : c.from[n] # Absent /\ c.from[n].key = k}
  <2>1. index[k] = IF of = {} THEN Absent ELSE c.from[Max(of)]
    BY <1>1
  <2>2. CASE of = {}
    BY <2>1, <2>2 DEF Stems
  <2>3. CASE of # {}
    <3>1. \E x \in of : \A y \in of : y <= x
      BY <2>3, NamesFinite
    <3>2. of \subseteq Nat
      BY BoundTypes
    <3>3. \E x \in of : \A y \in of : x >= y
      BY <3>1, <3>2
    <3> HIDE DEF of
    <3>4. Max(of) \in of
      BY <3>3 DEF Max
    <3> USE DEF of
    <3> QED BY <1>4, <2>1, <2>3, <3>4
  <2> QED BY <2>2, <2>3
<1>7. CopiesInv
  <2>1. cast \in Casts /\ stored \in [Names -> Stems] /\ known \in [Names -> Stems]
    BY <1>1, <1>2, <1>4
  <2>2. sent \in [Names -> Seq(Stems)]
    BY <1>1
  <2>3. plan \in [Names -> Seq(Version \cap Stems)]
    BY <1>1, <1>2, <1>5
  <2>4. index \in [Keys -> Stems]
    BY <1>1, <1>6
  <2> QED BY <2>1, <2>2, <2>3, <2>4, <1>6 DEF CopiesInv
<1>8. BoundsInv
  <2>1. models \in Seq(Models) /\ Len(models) = 0
    BY <1>1
  <2>2. req.pin = 0
    BY <1>1 DEF Idle
  <2> QED BY <1>1, <1>2, <2>1, <2>2, BoundTypes DEF BoundsInv
<1>9. ReviewInv
  BY <1>1, IdleReview
<1> QED BY <1>7, <1>8, <1>9 DEF AuthorizerInv

-----------------------------------------------------------------------------
(* Steps that change registrations, models and copies.                      *)

(* The choice stays, and so does what is defined from it. *)
LEMMA CastStays ==
  ASSUME cast' = cast
  PROVE  /\ Stems' = Stems /\ Models' = Models /\ Request' = Request
         /\ \A r : Targets(r)' = Targets(r)
         /\ \A k : TypesAt(k)' = TypesAt(k)
<1>1. Others(-1)' = Others(-1)
  BY DEF Others
<1>2. Stems' = Stems /\ \A k : TypesAt(k)' = TypesAt(k)
  BY <1>1 DEF Stems, TypesAt
<1>3. Models' = Models
  BY DEF Models, ModelOf
<1>4. \A r : Targets(r)' = Targets(r)
  BY <1>2 DEF Targets
<1>5. Request' = Request
  <2>1. {Targets(r) : r \in cast.reviews}' = {Targets(r) : r \in cast.reviews}
    BY <1>4
  <2> QED BY <2>1 DEF Request
<1> QED BY <1>2, <1>3, <1>4, <1>5

LEMMA CopiesFrame ==
  ASSUME CopiesInv, UNCHANGED <<cast, stored, plan, sent, known, index>>
  PROVE  CopiesInv'
BY CastStays DEF CopiesInv

LEMMA ReviewFrame ==
  ASSUME ReviewInv, UNCHANGED <<cast, req>>
  PROVE  ReviewInv'
BY CastStays DEF ReviewInv

LEMMA BoundsFrame ==
  ASSUME BoundsInv, UNCHANGED <<cast, models, modelID, ready>>,
         faults' \in 0..MaxFaults, req'.pin \in {0, req.pin, modelID}
  PROVE  BoundsInv'
<1>1. models' \in Seq(Models') /\ modelID' \in 0..Len(models') /\ ready' \in BOOLEAN
  BY CastStays DEF BoundsInv
<1>2. Len(models) \in Nat /\ modelID \in 0..Len(models) /\ req.pin \in 0..Len(models)
  BY DEF BoundsInv
<1>3. req'.pin \in 0..Len(models')
  BY <1>2
<1> QED BY <1>1, <1>3 DEF BoundsInv

LEMMA FaultsLeft ==
  ASSUME BoundsInv, faults > 0, faults' = faults - 1
  PROVE  faults' \in 0..MaxFaults
BY BoundTypes DEF BoundsInv

(* What is written to the API server is on its way to the webhook. *)
LEMMA StoreCopies ==
  ASSUME CopiesInv, UNCHANGED <<cast, known, index>>,
         NEW n \in Names, NEW v \in Stems, Store(n, v),
         plan' = plan \/ (plan[n] # <<>> /\ plan' = [plan EXCEPT ![n] = Tail(@)])
  PROVE  CopiesInv'
<1> USE CastStays DEF CopiesInv
<1>1. stored' \in [Names -> Stems]
  BY DEF Store
<1>2. sent' \in [Names -> Seq(Stems)]
  <2>1. sent[n] \in Seq(Stems)
    OBVIOUS
  <2>2. Append(sent[n], v) \in Seq(Stems)
    BY <2>1
  <2>3. sent' = [sent EXCEPT ![n] = Append(sent[n], v)]
    BY DEF Store
  <2> QED BY <2>2, <2>3
<1>3. plan' \in [Names -> Seq(Version \cap Stems)]
  <2>1. CASE plan' = plan
    BY <2>1
  <2>2. CASE plan[n] # <<>> /\ plan' = [plan EXCEPT ![n] = Tail(@)]
    <3>1. plan[n] \in Seq(Version \cap Stems)
      OBVIOUS
    <3>2. Tail(plan[n]) \in Seq(Version \cap Stems)
      BY <2>2, <3>1
    <3>3. plan' = [plan EXCEPT ![n] = Tail(plan[n])]
      BY <2>2
    <3> QED BY <3>2, <3>3
  <2> QED BY <2>1, <2>2
<1> QED BY <1>1, <1>2, <1>3

(* A registry without some of its entries gives a model. *)
LEMMA ReconcileBounds ==
  ASSUME BoundsInv, UNCHANGED <<cast, modelID, ready, req, faults>>,
         NEW reg \in UNION {[S -> Registration] : S \in SUBSET Names}, ReconcileModel(reg)
  PROVE  BoundsInv'
<1>1. ModelOf(reg) \in Models
  BY DEF Models
<1>2. models \in Seq(Models)
  BY DEF BoundsInv
<1>3. models' = models \/ models' = Append(models, ModelOf(reg))
  BY DEF ReconcileModel
<1>4. models' \in Seq(Models) /\ Len(models) \in Nat /\ Len(models') \in Nat
      /\ Len(models) <= Len(models')
  BY <1>1, <1>2, <1>3
<1>5. /\ modelID' \in 0..Len(models') /\ req'.pin \in 0..Len(models')
      /\ ready' \in BOOLEAN /\ faults' \in 0..MaxFaults
  BY <1>4 DEF BoundsInv
<1> QED BY <1>4, <1>5, CastStays DEF BoundsInv

LEMMA EditStep ==
  ASSUME AuthorizerInv, NEW n \in Names, Edit(n)
  PROVE  AuthorizerInv'
<1> USE DEF AuthorizerInv
<1>1. /\ UNCHANGED <<cast, models, grants, grantPlan, known, index, modelID, ready, req, faults>>
      /\ plan[n] # <<>> /\ plan' = [plan EXCEPT ![n] = Tail(@)]
  BY DEF Edit
<1>2. PICK v : v \in Stems /\ Store(n, v)
  <2>1. CASE Head(plan[n]) # Absent /\ Store(n, Head(plan[n]))
    <3>1. plan[n] \in Seq(Version \cap Stems)
      BY DEF CopiesInv
    <3>2. Head(plan[n]) \in Stems
      BY <1>1, <3>1
    <3> QED BY <2>1, <3>2
  <2>2. CASE stored[n] # Absent /\ Store(n, [stored[n] EXCEPT !.deleting = TRUE])
    <3>1. stored[n] \in Stems
      BY DEF CopiesInv
    <3>2. PICK w \in Others(-1) : w.type = stored[n].type /\ w.key = stored[n].key
      BY <2>2, <3>1 DEF Stems
    <3>3. stored[n] \in Registration
      BY <2>2, <3>1 DEF Stems
    <3> DEFINE d == [stored[n] EXCEPT !.deleting = TRUE]
    <3>4. d \in Registration /\ d.type = stored[n].type /\ d.key = stored[n].key
      BY <3>3 DEF Registration
    <3>5. d \in Stems
      BY <3>2, <3>4 DEF Stems
    <3> QED BY <2>2, <3>5
  <2>3. CASE Store(n, Absent)
    BY <2>3 DEF Stems
  <2> QED BY <2>1, <2>2, <2>3 DEF Edit
<1>3. CopiesInv'
  BY <1>1, <1>2, StoreCopies
<1>4. BoundsInv'
  BY <1>1, BoundsFrame DEF BoundsInv
<1>5. ReviewInv'
  BY <1>1, ReviewFrame
<1> QED BY <1>3, <1>4, <1>5

LEMMA StoredRegistries ==
  ASSUME CopiesInv
  PROVE  /\ Active(stored) \in UNION {[S -> Registration] : S \in SUBSET Names}
         /\ \A n \in Names : Registry([stored EXCEPT ![n] = Absent])
                                \in UNION {[S -> Registration] : S \in SUBSET Names}
<1>1. stored \in [Names -> Registration \cup {Absent}]
  BY DEF CopiesInv, Stems
<1>2. ASSUME NEW st \in [Names -> Registration \cup {Absent}],
             NEW S \in SUBSET Names, \A m \in S : st[m] # Absent
      PROVE  [m \in S |-> st[m]] \in UNION {[R -> Registration] : R \in SUBSET Names}
  <2>1. [m \in S |-> st[m]] \in [S -> Registration]
    BY <1>2
  <2> QED BY <2>1
<1>3. Active(stored) \in UNION {[S -> Registration] : S \in SUBSET Names}
  BY <1>1, <1>2 DEF Active
<1>4. ASSUME NEW n \in Names
      PROVE  Registry([stored EXCEPT ![n] = Absent]) \in UNION {[S -> Registration] : S \in SUBSET Names}
  <2> DEFINE st == [stored EXCEPT ![n] = Absent]
             S == {m \in Names : st[m] # Absent}
  <2>1. st \in [Names -> Registration \cup {Absent}]
    BY <1>1
  <2> HIDE DEF st
  <2>2. [m \in S |-> st[m]] \in UNION {[R -> Registration] : R \in SUBSET Names}
    BY <1>2, <2>1
  <2>3. Registry(st) = [m \in S |-> st[m]]
    BY DEF Registry
  <2> QED BY <2>2, <2>3 DEF st
<1> QED BY <1>3, <1>4

LEMMA ModelSteps ==
  ASSUME AuthorizerInv, WriteModel \/ \E n \in Names : Finalize(n)
  PROVE  AuthorizerInv'
<1> USE DEF AuthorizerInv
<1>1. CASE WriteModel
  <2>1. UNCHANGED <<cast, stored, plan, sent, known, index, modelID, ready, req, faults>>
    BY <1>1 DEF WriteModel, watchVars
  <2>2. ReconcileModel(Active(stored))
    BY <1>1 DEF WriteModel
  <2>3. BoundsInv'
    BY <2>1, <2>2, StoredRegistries, ReconcileBounds
  <2> QED BY <2>1, <2>3, CopiesFrame, ReviewFrame
<1>2. ASSUME NEW n \in Names, Finalize(n) PROVE AuthorizerInv'
  <2>1. UNCHANGED <<cast, plan, known, index, modelID, ready, req, faults>>
    BY <1>2 DEF Finalize
  <2>2. ReconcileModel(Registry([stored EXCEPT ![n] = Absent])) /\ Store(n, Absent)
    BY <1>2 DEF Finalize
  <2>3. BoundsInv'
    BY <2>1, <2>2, StoredRegistries, ReconcileBounds
  <2>4. CopiesInv'
    <3>1. Absent \in Stems
      BY DEF Stems
    <3> QED BY <2>1, <2>2, <3>1, StoreCopies
  <2> QED BY <2>1, <2>3, <2>4, ReviewFrame
<1> QED BY <1>1, <1>2

-----------------------------------------------------------------------------
(* The webhook's handlers.                                                  *)

(* A version goes under its own key, or a key is emptied. *)
LEMMA IndexWritten ==
  ASSUME CopiesInv, UNCHANGED cast, NEW k \in Keys, NEW v \in Stems, v # Absent => v.key = k,
         index' = [index EXCEPT ![k] = v]
  PROVE  index' \in [Keys -> Stems] /\ \A j \in Keys : index'[j] # Absent => index'[j].key = j
BY DEF CopiesInv

LEMMA StemKeys == \A v \in Stems : v # Absent => v.key \in Keys /\ v.type \in TypesAt(v.key)
<1> SUFFICES ASSUME NEW v \in Stems, v # Absent
             PROVE  v.key \in Keys /\ v.type \in TypesAt(v.key)
  OBVIOUS
<1>1. v \in Registration
  BY DEF Stems
<1>2. PICK w \in Others(-1) : w.type = v.type /\ w.key = v.key
  BY DEF Stems
<1>3. v.type \in TypesAt(v.key)
  BY <1>2 DEF TypesAt
<1> QED BY <1>1, <1>3 DEF Registration

LEMMA HandleEventStep ==
  ASSUME AuthorizerInv, NEW n \in Names, HandleEvent(n)
  PROVE  AuthorizerInv'
<1> USE DEF AuthorizerInv
<1>1. /\ UNCHANGED <<cast, stored, plan, models, modelID, ready, req, faults>>
      /\ sent[n] # <<>> /\ sent' = [sent EXCEPT ![n] = Tail(@)]
      /\ known' = [known EXCEPT ![n] = Head(sent[n])]
  BY DEF HandleEvent, storeVars
<1>2. sent[n] \in Seq(Stems) /\ known[n] \in Stems
  BY DEF CopiesInv
<1>3. Head(sent[n]) \in Stems /\ Tail(sent[n]) \in Seq(Stems)
  BY <1>1, <1>2
<1>4. index' \in [Keys -> Stems] /\ \A j \in Keys : index'[j] # Absent => index'[j].key = j
  <2> DEFINE v == Head(sent[n])
  <2>1. CASE v # Absent /\ index' = [index EXCEPT ![v.key] = v]
    <3>1. v.key \in Keys
      BY <1>3, <2>1, StemKeys
    <3> QED BY <1>1, <1>3, <2>1, <3>1, IndexWritten
  <2>2. CASE known[n] # Absent /\ index' = [index EXCEPT ![known[n].key] = Absent]
    <3>1. known[n].key \in Keys /\ Absent \in Stems
      BY <1>2, <2>2, StemKeys DEF Stems
    <3> QED BY <1>1, <2>2, <3>1, IndexWritten
  <2> QED BY <2>1, <2>2 DEF HandleEvent, OnAdd, OnUpdate, OnDelete
<1>5. known' \in [Names -> Stems]
  BY <1>1, <1>3 DEF CopiesInv
<1>6. sent' \in [Names -> Seq(Stems)]
  <2>1. sent' = [sent EXCEPT ![n] = Tail(sent[n])]
    BY <1>1
  <2> QED BY <1>3, <2>1 DEF CopiesInv
<1>7. CopiesInv'
  BY <1>1, <1>4, <1>5, <1>6, CastStays DEF CopiesInv
<1> QED BY <1>1, <1>7, BoundsFrame, ReviewFrame DEF BoundsInv

LEMMA HandleMoveStep ==
  ASSUME AuthorizerInv, NEW n \in Names, HandleMove(n)
  PROVE  AuthorizerInv'
<1> USE DEF AuthorizerInv
<1>1. /\ UNCHANGED <<cast, stored, plan, models, sent, modelID, ready, req, faults>>
      /\ known[n] # Absent
      /\ index' = [index EXCEPT ![known[n].key] = Absent]
      /\ known' = [known EXCEPT ![n] = Absent]
  BY DEF HandleMove, storeVars
<1>2. known[n] \in Stems /\ Absent \in Stems
  BY DEF CopiesInv, Stems
<1>3. known[n].key \in Keys
  BY <1>1, <1>2, StemKeys
<1>4. index' \in [Keys -> Stems] /\ \A j \in Keys : index'[j] # Absent => index'[j].key = j
  BY <1>1, <1>2, <1>3, IndexWritten
<1>5. known' \in [Names -> Stems]
  BY <1>1, <1>2 DEF CopiesInv
<1>6. CopiesInv'
  BY <1>1, <1>4, <1>5, CastStays DEF CopiesInv
<1> QED BY <1>1, <1>6, BoundsFrame, ReviewFrame DEF BoundsInv

LEMMA RelistStep ==
  ASSUME AuthorizerInv, Relist
  PROVE  AuthorizerInv'
<1> USE DEF AuthorizerInv
<1>1. /\ UNCHANGED <<cast, stored, plan, models, known, index, modelID, ready, req>>
      /\ faults > 0 /\ faults' = faults - 1
      /\ sent' = [n \in Names |->
            IF sent[n] = <<>> \/ (known[n] = Absent /\ stored[n] = Absent) THEN <<>>
            ELSE <<stored[n]>>]
  BY DEF Relist, storeVars
<1>2. \A n \in Names : <<stored[n]>> \in Seq(Stems)
  BY DEF CopiesInv
<1>3. sent' \in [Names -> Seq(Stems)]
  BY <1>1, <1>2
<1>4. CopiesInv'
  BY <1>1, <1>3, CastStays DEF CopiesInv
<1> QED BY <1>1, <1>4, FaultsLeft, BoundsFrame, ReviewFrame

LEMMA RestartStep ==
  ASSUME AuthorizerInv, Restart
  PROVE  AuthorizerInv'
<1> USE DEF AuthorizerInv
<1>1. /\ UNCHANGED <<cast, stored, plan, models>>
      /\ faults > 0 /\ faults' = faults - 1
      /\ sent' = [n \in Names |-> IF stored[n] = Absent THEN <<>> ELSE <<stored[n]>>]
      /\ known' = [n \in Names |-> Absent] /\ index' = [k \in Keys |-> Absent]
      /\ modelID' = 0 /\ ready' = FALSE /\ req' = Idle
  BY DEF Restart, storeVars
<1>2. \A n \in Names : <<stored[n]>> \in Seq(Stems)
  BY DEF CopiesInv
<1>3. sent' \in [Names -> Seq(Stems)]
  BY <1>1, <1>2
<1>4. Absent \in Stems
  BY DEF Stems
<1>5. CopiesInv'
  <2>1. known' \in [Names -> Stems] /\ index' \in [Keys -> Stems]
    BY <1>1, <1>4
  <2>2. \A k \in Keys : index'[k] = Absent
    BY <1>1
  <2> QED BY <1>1, <1>3, <2>1, <2>2, CastStays DEF CopiesInv
<1>6. BoundsInv'
  <2>1. models \in Seq(Models) /\ Len(models) \in Nat
    BY DEF BoundsInv
  <2>2. req'.pin = 0
    BY <1>1 DEF Idle
  <2>3. faults' \in 0..MaxFaults
    BY <1>1, FaultsLeft
  <2>4. models' \in Seq(Models') /\ modelID' \in 0..Len(models') /\ req'.pin \in 0..Len(models')
    BY <1>1, <2>1, <2>2, CastStays
  <2>5. ready' \in BOOLEAN
    BY <1>1
  <2> QED BY <2>3, <2>4, <2>5 DEF BoundsInv
<1>7. ReviewInv'
  <2>1. (req = Idle)'
    BY <1>1 DEF Idle
  <2> QED BY <2>1, IdleReview, PTL
<1> QED BY <1>5, <1>6, <1>7

(* What changes neither a copy nor the review. *)
LEMMA WatchSteps ==
  ASSUME AuthorizerInv, ChangeGrants \/ CacheSynced \/ WatchModel
  PROVE  AuthorizerInv'
<1> USE DEF AuthorizerInv
<1>1. CASE ChangeGrants
  <2>1. UNCHANGED <<cast, stored, plan, models, sent, known, index, modelID, ready, req, faults>>
    BY <1>1 DEF ChangeGrants, watchVars
  <2> QED BY <2>1, CopiesFrame, BoundsFrame, ReviewFrame DEF BoundsInv
<1>2. CASE CacheSynced
  <2>1. /\ UNCHANGED <<cast, stored, plan, models, sent, known, index, modelID, req, faults>>
        /\ ready' = TRUE
    BY <1>2 DEF CacheSynced, storeVars
  <2>2. BoundsInv'
    BY <2>1, CastStays DEF BoundsInv
  <2> QED BY <2>1, <2>2, CopiesFrame, ReviewFrame
<1>3. CASE WatchModel
  <2>1. /\ UNCHANGED <<cast, stored, plan, models, sent, known, index, ready, req, faults>>
        /\ \E id \in modelID + 1 .. Len(models) : modelID' = id
    BY <1>3 DEF WatchModel, storeVars
  <2>2. BoundsInv'
    BY <2>1, CastStays DEF BoundsInv
  <2> QED BY <2>1, <2>2, CopiesFrame, ReviewFrame
<1> QED BY <1>1, <1>2, <1>3

-----------------------------------------------------------------------------
(* The review.                                                              *)

(* A lookup that finds something finds it under the key it was asked for. *)
LEMMA Found ==
  ASSUME CopiesInv, NEW r \in cast.reviews, Lookup(r) # Absent
  PROVE  Lookup(r).type \in TypesAt(r.key) /\ Lookup(r).type \in Types
<1>1. r.key \in Keys
  BY CastTypes DEF CopiesInv, IsReview
<1>2. index[r.key] \in Stems /\ index[r.key] # Absent /\ index[r.key].key = r.key
  BY <1>1 DEF CopiesInv, Lookup
<1>3. index[r.key].type \in TypesAt(r.key)
  BY <1>2, StemKeys
<1>4. index[r.key] \in Registration
  BY <1>2 DEF Stems
<1> QED BY <1>2, <1>3, <1>4 DEF Lookup, Registration

(* The object that is built is one a grant may be on. *)
LEMMA ObjectIsTarget ==
  ASSUME NEW r, NEW pr, pr.type \in TypesAt(r.key)
  PROVE  ResourceObject(pr, r) \in Targets(r)
<1>1. ResourceObject(pr, r) \in Grounds(pr.type, r, cast.subresources)
  BY DEF ResourceObject, Grounds, IsNamedSubresource, IsCollectionOp
<1> QED BY <1>1 DEF Targets

(* A step of a review at work that ends it, or takes it on. *)
LEMMA AnswerStep ==
  ASSUME ReviewInv, UNCHANGED cast, req.pc # "idle",
         NEW a \in {"allowed", "denied", "errored"}, NEW f \in BOOLEAN,
         req' = [req EXCEPT !.pc = "answered", !.answer = a, !.failed = f]
  PROVE  ReviewInv' /\ req'.pin = req.pin
<1>1. req \in Request
  BY DEF ReviewInv
<1>2. req' \in Request
  BY <1>1 DEF Request
<1>3. req'.pc = "answered" /\ req'.review = req.review /\ req'.pin = req.pin
  BY <1>1 DEF Request
<1>4. req.review \in cast.reviews
  BY DEF ReviewInv
<1> QED BY <1>2, <1>3, <1>4, CastStays DEF ReviewInv

LEMMA AnswerSame ==
  ASSUME ReviewInv, NEW a, Answer(a)
  PROVE  req' = [req EXCEPT !.pc = "answered", !.answer = a, !.failed = req.failed]
BY DEF Answer, ReviewInv, Request

LEMMA GoStep ==
  ASSUME ReviewInv, UNCHANGED cast, req.pc # "idle",
         NEW pc \in {"permission", "object"}, Go(pc), OwnNamespace(req.review)
  PROVE  ReviewInv' /\ req'.pin = req.pin
<1>1. req \in Request /\ req.review \in cast.reviews
  BY DEF ReviewInv
<1>2. req' \in Request
  BY <1>1 DEF Request, Go
<1>3. req'.pc = pc /\ req'.review = req.review /\ req'.pin = req.pin
  BY <1>1 DEF Request, Go
<1> QED BY <1>1, <1>2, <1>3, CastStays DEF ReviewInv, OwnNamespace

LEMMA BeginStep ==
  ASSUME AuthorizerInv, NEW r \in cast.reviews, Begin(r)
  PROVE  AuthorizerInv'
<1> USE DEF AuthorizerInv
<1>1. UNCHANGED <<cast, stored, plan, models, sent, known, index, modelID, ready, faults>>
  BY DEF Begin, storeVars, watchVars
<1> DEFINE new == [Idle EXCEPT !.review = r, !.due = Due(r)]
<1>2. Idle \in Request
  BY IdleIsRequest
<1>3. Due(r) \in BOOLEAN
  BY Zenon DEF Due
<1>4. new \in Request /\ new.review = r /\ new.pin = 0
  <2> HIDE DEF Due
  <2> QED BY <1>2, <1>3 DEF Request, Idle
<1> HIDE DEF new
<1>5. PICK pc \in {"answered", "namespace"}, a \in {"", "denied", "errored"} :
        req' = [new EXCEPT !.pc = pc, !.answer = a]
  BY DEF Begin, new, Idle
<1>6. req' \in Request /\ req'.review = r /\ req'.pin = 0 /\ req'.pc = pc
  BY <1>4, <1>5 DEF Request
<1>7. ReviewInv'
  BY <1>1, <1>6, CastStays DEF ReviewInv
<1> QED BY <1>1, <1>6, <1>7, CopiesFrame, BoundsFrame DEF BoundsInv

LEMMA ReviewSteps ==
  ASSUME AuthorizerInv, UNCHANGED <<cast, faults>>,
         ValidateNamespace \/ ValidatePermission \/ BuildCheckRequest \/ BuildRootResource \/ BatchCheck
  PROVE  ReviewInv' /\ req'.pin \in {req.pin, modelID}
<1> USE DEF AuthorizerInv
<1>r. req \in Request /\ req.failed \in BOOLEAN
  BY DEF ReviewInv, Request
<1>a. ASSUME NEW a \in {"allowed", "denied", "errored"}, Answer(a), req.pc # "idle"
      PROVE  ReviewInv' /\ req'.pin = req.pin
  BY <1>a, <1>r, AnswerSame, AnswerStep
<1>1. CASE ValidateNamespace
  <2>1. req.pc = "namespace" /\ req.review \in cast.reviews
    BY <1>1 DEF ValidateNamespace, ReviewInv
  <2>2. CASE Answer("errored")
    BY <1>a, <2>1, <2>2
  <2>3. CASE Go("permission") /\ (IsOrganizationScope(req.review) =>
                \/ req.review.ns = "own"
                \/ req.review.ns = "" /\ req.review.key \notin Namespaced)
    <3>1. OwnNamespace(req.review)
      BY <2>3 DEF OwnNamespace, IsOrganizationScope
    <3> QED BY <2>1, <2>3, <3>1, GoStep
  <2> QED BY <1>1, <2>2, <2>3 DEF ValidateNamespace
<1>2. CASE ValidatePermission
  <2>1. req.pc = "permission" /\ OwnNamespace(req.review)
    BY <1>2 DEF ValidatePermission, ReviewInv
  <2>2. CASE Go("object")
    BY <2>1, <2>2, GoStep
  <2>3. CASE Answer("denied") \/ Answer("errored")
    BY <1>a, <2>1, <2>3
  <2> QED BY <1>2, <2>2, <2>3 DEF ValidatePermission
<1>3. CASE BuildCheckRequest
  <2>1. req.pc = "object" /\ OwnNamespace(req.review) /\ req.review \in cast.reviews
    BY <1>3 DEF BuildCheckRequest, ReviewInv
  <2>2. CASE Answer("errored")
    BY <1>a, <2>1, <2>2
  <2> DEFINE o == ResourceObject(Lookup(req.review), req.review)
  <2>3. CASE /\ Lookup(req.review) # Absent
             /\ req' = [req EXCEPT !.pc = "root", !.object = o, !.pin = modelID]
    <3>1. o \in Targets(req.review)
      BY <2>1, <2>3, Found, ObjectIsTarget
    <3>2. modelID \in Nat
      BY DEF BoundsInv
    <3> HIDE DEF o
    <3>3. o \in (UNION {Targets(r) : r \in cast.reviews}) \cup {None}
      BY <2>1, <3>1
    <3>4. req' \in Request
      BY <1>r, <2>3, <3>2, <3>3 DEF Request
    <3>5. req'.pc = "root" /\ req'.object = o /\ req'.pin = modelID /\ req'.review = req.review
      BY <1>r, <2>3 DEF Request
    <3>6. (req.object \in Targets(req.review))' /\ OwnNamespace(req.review)'
      BY <2>1, <3>1, <3>5, CastStays
    <3> QED BY <2>1, <3>4, <3>5, <3>6, CastStays DEF ReviewInv
  <2> QED BY <1>3, <2>2, <2>3 DEF BuildCheckRequest
<1>4. CASE BuildRootResource
  <2>1. /\ req.pc = "root" /\ OwnNamespace(req.review) /\ req.review \in cast.reviews
        /\ req.object \in Targets(req.review)
    BY <1>4 DEF BuildRootResource, ReviewInv
  <2>2. CASE Answer("errored")
    BY <1>a, <2>1, <2>2
  <2> DEFINE t == Lookup(req.review).type
  <2>3. CASE /\ Lookup(req.review) # Absent
             /\ req' = [req EXCEPT !.pc = "check", !.root = <<Root, t>>]
    <3>1. t \in TypesAt(req.review.key) /\ t \in Types
      BY <2>1, <2>3, Found
    <3> HIDE DEF t
    <3>2. <<Root, t>> \in {<<Root, s>> : s \in Types} \cup {None}
      BY <3>1
    <3>3. req' \in Request
      BY <1>r, <2>3, <3>2 DEF Request
    <3>4. /\ req'.pc = "check" /\ req'.root = <<Root, t>> /\ req'.pin = req.pin
          /\ req'.object = req.object /\ req'.review = req.review
      BY <1>r, <2>3 DEF Request
    <3>5. (req.object \in Targets(req.review))' /\ OwnNamespace(req.review)'
      BY <2>1, <3>4, CastStays
    <3>6. (\E u \in TypesAt(req.review.key) : req.root = <<Root, u>>)'
      BY <3>1, <3>4, CastStays
    <3> QED BY <2>1, <3>3, <3>4, <3>5, <3>6, CastStays DEF ReviewInv
  <2> QED BY <1>4, <2>2, <2>3 DEF BuildRootResource
<1>5. CASE BatchCheck
  <2>1. req.pc = "check"
    BY <1>5 DEF BatchCheck
  <2>2. \E a \in {"allowed", "denied", "errored"} : Answer(a)
    BY <1>5 DEF BatchCheck
  <2> QED BY <1>a, <2>1, <2>2
<1> QED BY <1>1, <1>2, <1>3, <1>4, <1>5

LEMMA StepStep ==
  ASSUME AuthorizerInv, Step
  PROVE  AuthorizerInv'
<1> USE DEF AuthorizerInv
<1>1. CASE Reply
  <2>1. UNCHANGED <<cast, stored, plan, models, sent, known, index, modelID, ready, faults>> /\ req' = Idle
    BY <1>1 DEF Reply, storeVars, watchVars
  <2>2. req'.pin = 0
    BY <2>1 DEF Idle
  <2>3. ReviewInv'
    <3>1. (req = Idle)'
      BY <2>1 DEF Idle
    <3> QED BY <3>1, IdleReview, PTL
  <2> QED BY <2>1, <2>2, <2>3, CopiesFrame, BoundsFrame DEF BoundsInv
<1>2. CASE ~Reply
  <2>1. UNCHANGED <<cast, stored, plan, models, sent, known, index, modelID, ready, faults>>
    BY <1>2 DEF Step, ValidateNamespace, ValidatePermission, BuildCheckRequest, BuildRootResource,
                BatchCheck, storeVars, watchVars
  <2>2. ReviewInv' /\ req'.pin \in {req.pin, modelID}
    BY <1>2, <2>1, ReviewSteps DEF Step
  <2> QED BY <2>1, <2>2, CopiesFrame, BoundsFrame DEF BoundsInv
<1> QED BY <1>1, <1>2

LEMMA FailSteps ==
  ASSUME AuthorizerInv, DiscoveryFails \/ BatchCheckFails
  PROVE  AuthorizerInv'
<1> USE DEF AuthorizerInv
<1>1. /\ UNCHANGED <<cast, stored, plan, models, sent, known, index, modelID, ready>>
      /\ faults > 0 /\ faults' = faults - 1 /\ req.pc # "idle"
      /\ req' = [req EXCEPT !.pc = "answered", !.answer = "errored", !.failed = TRUE]
  BY DEF DiscoveryFails, BatchCheckFails, Fails, storeVars, watchVars
<1>2. ReviewInv' /\ req'.pin = req.pin
  BY <1>1, AnswerStep
<1> QED BY <1>1, <1>2, FaultsLeft, CopiesFrame, BoundsFrame

LEMMA AuthorizerInductive ==
  ASSUME AuthorizerInv, [Next]_vars
  PROVE  AuthorizerInv'
<1>1. CASE UNCHANGED vars
  BY <1>1, CopiesFrame, BoundsFrame, ReviewFrame DEF vars, AuthorizerInv, BoundsInv
<1>2. CASE Next
  BY <1>2, EditStep, ModelSteps, HandleEventStep, HandleMoveStep, WatchSteps, BeginStep, StepStep,
     FailSteps, RelistStep, RestartStep DEF Next
<1> QED BY <1>1, <1>2

-----------------------------------------------------------------------------
(* The hierarchy: what a walk collects at a node, it hands to the parents.  *)

Registries == UNION {[S -> Registration] : S \in SUBSET Names}

(* A walk that collects at each node its own and what its children collect is *)
(* well defined on every graph, with cycles or without.                       *)
IsWalk(g, D, own, kids) == g = [u \in D |-> own[u] \cup UNION {g[c] : c \in kids[u]}]
Collects(W, D, P, own, kids) ==
    /\ W \subseteq D \X P
    /\ \A u \in D, p \in P : <<u, p>> \in W <=> (p \in own[u] \/ \E c \in kids[u] : <<c, p>> \in W)

LEMMA WalkRelation ==
  ASSUME NEW D, NEW P, NEW own, NEW kids
  PROVE  \E W : Collects(W, D, P, own, kids)
<1> DEFINE Y(S, u, p) == p \in own[u] \/ \E c \in kids[u] : <<c, p>> \in S
           Closed(S) == \A u \in D, p \in P : Y(S, u, p) => <<u, p>> \in S
           W == {x \in D \X P : \A S \in SUBSET (D \X P) : Closed(S) => x \in S}
           T == {x \in D \X P : Y(W, x[1], x[2])}
<1>1. ASSUME NEW S, NEW R, S \subseteq R, NEW u, NEW p, Y(S, u, p) PROVE Y(R, u, p)
  BY <1>1
<1> HIDE DEF Y
<1>2. ASSUME NEW u \in D, NEW p \in P, Y(W, u, p) PROVE <<u, p>> \in W
  <2>1. SUFFICES ASSUME NEW S \in SUBSET (D \X P), Closed(S) PROVE <<u, p>> \in S
    OBVIOUS
  <2>2. W \subseteq S
    BY <2>1
  <2>3. Y(S, u, p)
    BY <1>1, <1>2, <2>2
  <2> QED BY <2>1, <2>3
<1>3. Closed(T)
  <2>1. T \subseteq W
    <3> SUFFICES ASSUME NEW x \in T PROVE x \in W
      OBVIOUS
    <3>1. x[1] \in D /\ x[2] \in P /\ x = <<x[1], x[2]>> /\ Y(W, x[1], x[2])
      OBVIOUS
    <3> HIDE DEF W, T
    <3> QED BY <1>2, <3>1
  <2> SUFFICES ASSUME NEW u \in D, NEW p \in P, Y(T, u, p) PROVE <<u, p>> \in T
    OBVIOUS
  <2>2. Y(W, u, p)
    BY <1>1, <2>1
  <2> QED BY <2>2
<1>4. W \subseteq T
  BY <1>3
<1>5. \A u \in D, p \in P : <<u, p>> \in W <=> Y(W, u, p)
  BY <1>2, <1>4
<1>6. Collects(W, D, P, own, kids)
  BY <1>5 DEF Y, Collects
<1> QED BY <1>6

LEMMA WalkDefined ==
  ASSUME NEW D, NEW own, NEW kids, \A u \in D : kids[u] \subseteq D
  PROVE  \E g : IsWalk(g, D, own, kids)
<1> DEFINE P == UNION {own[u] : u \in D}
<1>w. PICK W : Collects(W, D, P, own, kids)
  <2> HIDE DEF P
  <2> QED BY WalkRelation
<1>1. \A u \in D, p \in P : <<u, p>> \in W <=> (p \in own[u] \/ \E c \in kids[u] : <<c, p>> \in W)
  BY <1>w DEF Collects
<1> DEFINE g == [u \in D |-> {p \in P : <<u, p>> \in W}]
<1>2. \A u \in D : g[u] = {p \in P : <<u, p>> \in W}
  OBVIOUS
<1>3. \A u \in D : own[u] \subseteq P
  OBVIOUS
<1> HIDE DEF g, P
<1>4. ASSUME NEW u \in D PROVE g[u] = own[u] \cup UNION {g[c] : c \in kids[u]}
  <2>1. ASSUME NEW p \in g[u] PROVE p \in own[u] \cup UNION {g[c] : c \in kids[u]}
    <3>1. p \in P /\ (p \in own[u] \/ \E c \in kids[u] : <<c, p>> \in W)
      BY <1>1, <1>2, <2>1
    <3>2. \A c \in kids[u] : <<c, p>> \in W => p \in g[c]
      BY <1>2, <3>1
    <3> QED BY <3>1, <3>2
  <2>2. ASSUME NEW p \in own[u] PROVE p \in g[u]
    BY <1>1, <1>2, <1>3, <2>2
  <2>3. ASSUME NEW c \in kids[u], NEW p \in g[c] PROVE p \in g[u]
    <3>1. p \in P /\ <<c, p>> \in W
      BY <1>2, <2>3
    <3> QED BY <1>1, <1>2, <3>1
  <2> QED BY <2>1, <2>2, <2>3
<1>5. g = [u \in D |-> g[u]]
  BY DEF g
<1>6. IsWalk(g, D, own, kids)
  BY <1>4, <1>5 DEF IsWalk
<1> QED BY <1>6

LEMMA RegistryTypes ==
  ASSUME NEW reg \in Registries
  PROVE  /\ \A n \in DOMAIN reg : n \in Names /\ reg[n] \in Registration
         /\ Live(reg) \subseteq DOMAIN reg
         /\ RootTypes(reg) \subseteq Types /\ RegisteredTypes(reg) \subseteq Types
         /\ \A t : Children(reg, t) \subseteq Types
<1>1. PICK S \in SUBSET Names : reg \in [S -> Registration]
  BY DEF Registries
<1>2. \A n \in DOMAIN reg : n \in Names /\ reg[n] \in Registration
  BY <1>1
<1>3. Live(reg) \subseteq DOMAIN reg
  BY DEF Live
<1>4. \A n \in Live(reg) : reg[n].type \in Types
  BY <1>2, <1>3 DEF Registration
<1> QED BY <1>2, <1>3, <1>4 DEF RootTypes, RegisteredTypes, Children

(* calculatePermissionsForNode *)
LEMMA PermissionsUnfold ==
  ASSUME NEW reg \in Registries, NEW flag, NEW u \in Types
  PROVE  HierarchicalPermissions(reg, flag, u) =
            Enumerate(SpecOf(reg, u), flag)
            \cup UNION {HierarchicalPermissions(reg, flag, c) : c \in Children(reg, u)}
<1> DEFINE own == [t \in Types |-> Enumerate(SpecOf(reg, t), flag)]
           kids == [t \in Types |-> Children(reg, t)]
           perms == CHOOSE g : g = [t \in Types |->
                        Enumerate(SpecOf(reg, t), flag) \cup UNION {g[c] : c \in Children(reg, t)}]
<1>1. \A t \in Types : kids[t] = Children(reg, t) /\ own[t] = Enumerate(SpecOf(reg, t), flag)
  OBVIOUS
<1>2. \A t \in Types : kids[t] \subseteq Types
  BY <1>1, RegistryTypes
<1>3. PICK g : IsWalk(g, Types, own, kids)
  <2> HIDE DEF own, kids
  <2> QED BY <1>2, WalkDefined
<1>4. g = [t \in Types |-> Enumerate(SpecOf(reg, t), flag) \cup UNION {g[c] : c \in Children(reg, t)}]
  <2> HIDE DEF own, kids
  <2> QED BY <1>1, <1>3 DEF IsWalk
<1>5. perms = [t \in Types |->
                Enumerate(SpecOf(reg, t), flag) \cup UNION {perms[c] : c \in Children(reg, t)}]
  BY <1>4
<1>6. \A t : HierarchicalPermissions(reg, flag, t) = perms[t]
  BY DEF HierarchicalPermissions
<1> HIDE DEF perms
<1>7. perms[u] = Enumerate(SpecOf(reg, u), flag) \cup UNION {perms[c] : c \in Children(reg, u)}
  BY <1>5
<1> QED BY <1>6, <1>7

LEMMA PermissionsPassedOn ==
  ASSUME NEW reg \in Registries, NEW flag, NEW u \in Types
  PROVE  /\ Enumerate(SpecOf(reg, u), flag) \subseteq HierarchicalPermissions(reg, flag, u)
         /\ \A c \in Children(reg, u) :
                HierarchicalPermissions(reg, flag, c) \subseteq HierarchicalPermissions(reg, flag, u)
BY PermissionsUnfold

(* The types Below has are in every set that has what it starts from and is    *)
(* closed under children.                                                      *)
LEMMA BelowIsLeast ==
  ASSUME NEW reg, NEW from, NEW S \in SUBSET Types, from \subseteq S,
         \A u \in S : Children(reg, u) \subseteq S
  PROVE  Below(reg, from) \subseteq S
BY DEF Below

LEMMA BelowIsClosed ==
  ASSUME NEW reg, NEW from \in SUBSET Types
  PROVE  /\ from \subseteq Below(reg, from) /\ Below(reg, from) \subseteq Types
         /\ \A u \in Below(reg, from) : Children(reg, u) \cap Types \subseteq Below(reg, from)
BY DEF Below

(* The graph that getResourceGraphNode builds, each node with its children. *)
IsTree(tree, reg) ==
    /\ GraphTypes(reg) = UNION {tree[t] : t \in RootTypes(reg)}
    /\ \A t \in Types : tree[t] = {t} \cup UNION {tree[c] : c \in Children(reg, t)}

LEMMA GraphUnfolds ==
  ASSUME NEW reg \in Registries
  PROVE  \E tree : IsTree(tree, reg)
<1> DEFINE own == [t \in Types |-> {t}]
           kids == [t \in Types |-> Children(reg, t)]
           tree == CHOOSE g : g = [t \in Types |-> {t} \cup UNION {g[c] : c \in Children(reg, t)}]
<1>1. \A t \in Types : kids[t] = Children(reg, t) /\ own[t] = {t}
  OBVIOUS
<1>2. \A t \in Types : kids[t] \subseteq Types
  BY <1>1, RegistryTypes
<1>3. PICK g : IsWalk(g, Types, own, kids)
  <2> HIDE DEF own, kids
  <2> QED BY <1>2, WalkDefined
<1>4. g = [t \in Types |-> {t} \cup UNION {g[c] : c \in Children(reg, t)}]
  <2> HIDE DEF own, kids
  <2> QED BY <1>1, <1>3 DEF IsWalk
<1>5. tree = [t \in Types |-> {t} \cup UNION {tree[c] : c \in Children(reg, t)}]
  BY <1>4
<1>6. GraphTypes(reg) = UNION {tree[t] : t \in RootTypes(reg)}
  BY DEF GraphTypes
<1> HIDE DEF tree
<1>7. \A t \in Types : tree[t] = {t} \cup UNION {tree[c] : c \in Children(reg, t)}
  BY <1>5
<1>8. IsTree(tree, reg)
  BY <1>6, <1>7 DEF IsTree
<1> QED BY <1>8

(* The graph has every type that hangs from a root. *)
LEMMA GraphCovers ==
  ASSUME NEW reg \in Registries
  PROVE  Below(reg, RootTypes(reg)) \subseteq GraphTypes(reg)
<1>1. PICK tree : IsTree(tree, reg)
  BY GraphUnfolds
<1>2. GraphTypes(reg) = UNION {tree[t] : t \in RootTypes(reg)}
  BY <1>1 DEF IsTree
<1>3. \A t \in Types : tree[t] = {t} \cup UNION {tree[c] : c \in Children(reg, t)}
  BY <1>1 DEF IsTree
<1> DEFINE S == {t \in Types : tree[t] \subseteq GraphTypes(reg)}
<1>4. RootTypes(reg) \subseteq S
  BY <1>2, RegistryTypes
<1>5. \A u \in S : Children(reg, u) \subseteq S
  <2> SUFFICES ASSUME NEW u \in S, NEW c \in Children(reg, u) PROVE c \in S
    OBVIOUS
  <2>1. c \in Types
    BY RegistryTypes
  <2>2. tree[c] \subseteq tree[u]
    BY <1>3
  <2> QED BY <2>1, <2>2
<1>6. Below(reg, RootTypes(reg)) \subseteq S
  <2> HIDE DEF S
  <2>1. S \in SUBSET Types
    BY DEF S
  <2> QED BY <1>4, <1>5, <2>1, BelowIsLeast
<1> QED BY <1>3, <1>6

(* calculateHierarchicalPermissions: a type has the permissions of what lies   *)
(* below it.                                                                   *)
LEMMA PermissionsCover ==
  ASSUME NEW reg \in Registries, NEW flag, NEW t \in Types, NEW u \in Below(reg, {t})
  PROVE  Enumerate(SpecOf(reg, u), flag) \subseteq HierarchicalPermissions(reg, flag, t)
<1> DEFINE S == {v \in Types : HierarchicalPermissions(reg, flag, v)
                                \subseteq HierarchicalPermissions(reg, flag, t)}
<1>1. {t} \subseteq S
  OBVIOUS
<1>2. ASSUME NEW v \in S, NEW c \in Children(reg, v) PROVE c \in S
  <2>1. c \in Types
    BY RegistryTypes
  <2>2. HierarchicalPermissions(reg, flag, c) \subseteq HierarchicalPermissions(reg, flag, v)
    BY PermissionsPassedOn
  <2> QED BY <2>1, <2>2
<1>3. S \in SUBSET Types
  OBVIOUS
<1> HIDE DEF S
<1>4. Below(reg, {t}) \subseteq S
  BY <1>1, <1>2, <1>3, BelowIsLeast
<1>5. u \in S
  BY <1>4
<1> QED BY <1>5, PermissionsPassedOn DEF S

-----------------------------------------------------------------------------
(* The hierarchy is the closure of the registrations. Registrations are      *)
(* finitely many, and where there is no cycle a walk meets nothing but what   *)
(* lies below its start.                                                      *)

(* Of some subsets of a finite set, one is minimal. *)
LEMMA MinSet ==
  ASSUME NEW S, IsFiniteSet(S), NEW T, T \subseteq SUBSET S, T # {}
  PROVE  \E x \in T : \A y \in T : y \subseteq x => y = x
<1>1. IsWellFoundedOn(StrictSubsetOrdering(S), SUBSET S)
  BY FS_StrictSubsetOrderingWellFounded, FS_FiniteSubsetsOfFinite
<1>2. PICK x \in T : \A y \in T : <<y, x>> \notin StrictSubsetOrdering(S)
  BY <1>1, WFMin
<1> QED BY <1>2 DEF StrictSubsetOrdering

(* There are finitely many registrations, and so of registered types. *)
LEMMA RegisteredFinite ==
  ASSUME NEW reg \in Registries
  PROVE  IsFiniteSet(RegisteredTypes(reg))
<1>1. IsFiniteSet(Names)
  <2>1. CASE Names = {}
    BY <2>1, FS_EmptySet
  <2>2. CASE Names # {}
    <3>1. PICK n \in Names : \A m \in Names : m <= n
      BY <2>2, NamesFinite
    <3> QED BY <3>1, BoundTypes, FS_BoundedSetOfNaturals
  <2> QED BY <2>1, <2>2
<1>2. Live(reg) \in SUBSET Names
  BY RegistryTypes
<1>3. IsFiniteSet(Live(reg))
  BY <1>1, <1>2, FS_Subset
<1> DEFINE f == [n \in Live(reg) |-> reg[n].type]
<1>4. f \in Surjection(Live(reg), RegisteredTypes(reg))
  BY DEF Surjection, RegisteredTypes
<1> QED BY <1>3, <1>4, FS_Surjection

LEMMA BelowNested ==
  ASSUME NEW reg \in Registries, NEW more \in SUBSET Types, NEW from, from \subseteq Below(reg, more)
  PROVE  Below(reg, from) \subseteq Below(reg, more)
<1>1. Below(reg, more) \in SUBSET Types
  BY BelowIsClosed
<1>2. \A u \in Below(reg, more) : Children(reg, u) \subseteq Below(reg, more)
  BY BelowIsClosed, RegistryTypes
<1> QED BY <1>1, <1>2, BelowIsLeast

LEMMA ChildIsBelow ==
  ASSUME NEW reg \in Registries, NEW from \in SUBSET Types, NEW u \in Below(reg, from),
         NEW c \in Children(reg, u)
  PROVE  c \in Below(reg, from)
BY BelowIsClosed, RegistryTypes

(* A type lies below others when it lies below one of them. *)
LEMMA BelowOne ==
  ASSUME NEW reg \in Registries, NEW from \in SUBSET Types
  PROVE  /\ \A t \in from : Below(reg, {t}) \subseteq Below(reg, from)
         /\ \A x \in Below(reg, from) : \E t \in from : x \in Below(reg, {t})
<1>1. ASSUME NEW t \in from PROVE Below(reg, {t}) \subseteq Below(reg, from)
  BY BelowNested, BelowIsClosed
<1> DEFINE S == {x \in Types : \E t \in from : x \in Below(reg, {t})}
<1>2. from \subseteq S
  <2> SUFFICES ASSUME NEW t \in from PROVE t \in S
    OBVIOUS
  <2>1. {t} \in SUBSET Types
    OBVIOUS
  <2>2. t \in Below(reg, {t})
    BY <2>1, BelowIsClosed
  <2> QED BY <2>2
<1>3. \A u \in S : Children(reg, u) \subseteq S
  <2> SUFFICES ASSUME NEW u \in S, NEW c \in Children(reg, u) PROVE c \in S
    OBVIOUS
  <2>1. PICK t \in from : u \in Below(reg, {t})
    OBVIOUS
  <2>2. {t} \in SUBSET Types
    OBVIOUS
  <2>3. c \in Below(reg, {t}) /\ c \in Types
    BY <2>1, <2>2, ChildIsBelow, RegistryTypes
  <2> QED BY <2>3
<1>4. Below(reg, from) \subseteq S
  <2>1. S \in SUBSET Types
    OBVIOUS
  <2> HIDE DEF S
  <2> QED BY <1>2, <1>3, <2>1, BelowIsLeast
<1> QED BY <1>1, <1>4

(* Below a type lie the type itself and what lies below its children. *)
LEMMA BelowUnfolds ==
  ASSUME NEW reg \in Registries, NEW t \in Types
  PROVE  /\ t \in Below(reg, {t}) /\ Below(reg, Children(reg, t)) \subseteq Below(reg, {t})
         /\ \A x \in Below(reg, {t}) : x = t \/ x \in Below(reg, Children(reg, t))
<1>1. {t} \in SUBSET Types /\ Children(reg, t) \in SUBSET Types
  BY RegistryTypes
<1>2. t \in Below(reg, {t})
  BY <1>1, BelowIsClosed
<1>3. Below(reg, Children(reg, t)) \subseteq Below(reg, {t})
  BY <1>1, <1>2, BelowNested, ChildIsBelow
<1> DEFINE S == {t} \cup Below(reg, Children(reg, t))
<1>4. S \in SUBSET Types
  BY <1>1, BelowIsClosed
<1>5. \A u \in S : Children(reg, u) \subseteq S
  BY <1>1, ChildIsBelow, BelowIsClosed
<1>6. Below(reg, {t}) \subseteq S
  <2>1. {t} \subseteq S
    OBVIOUS
  <2> HIDE DEF S
  <2> QED BY <1>4, <1>5, <2>1, BelowIsLeast
<1> QED BY <1>2, <1>3, <1>6

(* What lies below registered types is registered. *)
LEMMA BelowIsRegistered ==
  ASSUME NEW reg \in Registries, NEW from \in SUBSET RegisteredTypes(reg)
  PROVE  Below(reg, from) \subseteq RegisteredTypes(reg)
<1>1. \A u : Children(reg, u) \subseteq RegisteredTypes(reg)
  BY DEF Children, RegisteredTypes
<1>2. RegisteredTypes(reg) \in SUBSET Types
  BY RegistryTypes
<1> QED BY <1>1, <1>2, BelowIsLeast

LEMMA RootsRegistered ==
  ASSUME NEW reg
  PROVE  /\ RootTypes(reg) \subseteq RegisteredTypes(reg)
         /\ \A t : Children(reg, t) \subseteq RegisteredTypes(reg)
BY DEF RootTypes, RegisteredTypes, Children

OnCycle(reg, t) == t \in Below(reg, Children(reg, t))

(* Where every type has a child, there is a cycle: of the types that have the  *)
(* least below them, a child has as much below it, itself included.            *)
LEMMA EndlessHasCycle ==
  ASSUME NEW reg \in Registries, NEW S \in SUBSET Types, S # {},
         \A u \in S : \E c \in Children(reg, u) : c \in S
  PROVE  \E x \in S : OnCycle(reg, x)
<1> DEFINE B(u) == Below(reg, Children(reg, u))
           T == {B(u) : u \in S}
<1>1. T \subseteq SUBSET RegisteredTypes(reg) /\ T # {}
  BY BelowIsRegistered, RootsRegistered
<1>2. PICK b \in T : \A y \in T : y \subseteq b => y = b
  <2> HIDE DEF T
  <2> QED BY <1>1, MinSet, RegisteredFinite
<1>3. PICK u \in S : b = B(u)
  OBVIOUS
<1>4. PICK c \in Children(reg, u) : c \in S
  OBVIOUS
<1>5. c \in B(u) /\ Children(reg, u) \in SUBSET Types
  BY <1>4, BelowIsClosed, RegistryTypes
<1>6. B(c) \subseteq B(u)
  BY <1>5, ChildIsBelow, BelowNested
<1>7. B(c) = B(u)
  BY <1>2, <1>3, <1>4, <1>6
<1> QED BY <1>4, <1>5, <1>7 DEF OnCycle

(* A walk collects nothing but what types at or below its start have: where    *)
(* there is no cycle, something else would have to come from ever further down.*)
LEMMA WalkIsExact ==
  ASSUME NEW reg \in Registries, NEW t \in Types, NEW g, NEW own, NEW p \in g[t],
         \A u \in Below(reg, {t}) :
            ~OnCycle(reg, u) /\ g[u] = own[u] \cup UNION {g[c] : c \in Children(reg, u)}
  PROVE  \E u \in Below(reg, {t}) : p \in own[u]
<1> SUFFICES ASSUME \A u \in Below(reg, {t}) : p \notin own[u] PROVE FALSE
  OBVIOUS
<1>1. {t} \in SUBSET Types
  OBVIOUS
<1> DEFINE S == {u \in Below(reg, {t}) : p \in g[u]}
<1>2. S \in SUBSET Types /\ S # {}
  BY <1>1, BelowIsClosed
<1>3. ASSUME NEW u \in S PROVE \E c \in Children(reg, u) : c \in S
  <2>1. p \in UNION {g[c] : c \in Children(reg, u)}
    OBVIOUS
  <2>2. PICK c \in Children(reg, u) : p \in g[c]
    BY <2>1
  <2>3. c \in Below(reg, {t})
    BY <1>1, ChildIsBelow
  <2> QED BY <2>2, <2>3
<1>4. \E x \in S : OnCycle(reg, x)
  <2> HIDE DEF S
  <2> QED BY <1>2, <1>3, EndlessHasCycle
<1> QED BY <1>4

Hung(reg) == Below(reg, RootTypes(reg))

LEMMA HungTypes ==
  ASSUME NEW reg \in Registries
  PROVE  /\ Hung(reg) \subseteq Types /\ Hung(reg) \subseteq RegisteredTypes(reg)
         /\ RootTypes(reg) \subseteq Hung(reg)
         /\ \A t \in Hung(reg) : Below(reg, {t}) \subseteq Hung(reg)
<1>1. RootTypes(reg) \in SUBSET Types
  BY RegistryTypes
<1>2. RootTypes(reg) \in SUBSET RegisteredTypes(reg)
  BY RootsRegistered
<1> QED BY <1>1, <1>2, BelowIsClosed, BelowIsRegistered, BelowNested DEF Hung

LEMMA GraphIsHung ==
  ASSUME NEW reg \in Registries, \A t \in Hung(reg) : ~OnCycle(reg, t)
  PROVE  GraphTypes(reg) = Hung(reg)
<1>1. PICK tree : IsTree(tree, reg)
  BY GraphUnfolds
<1> DEFINE own == [t \in Types |-> {t}]
<1>2. ASSUME NEW t \in RootTypes(reg), NEW p \in tree[t] PROVE p \in Hung(reg)
  <2>1. t \in Types /\ Below(reg, {t}) \subseteq Hung(reg)
    BY HungTypes
  <2>2. \A u \in Below(reg, {t}) :
            ~OnCycle(reg, u) /\ tree[u] = own[u] \cup UNION {tree[c] : c \in Children(reg, u)}
    BY <1>1, <2>1, HungTypes DEF IsTree
  <2>3. \E u \in Below(reg, {t}) : p \in own[u]
    <3> HIDE DEF own
    <3> QED BY <1>2, <2>1, <2>2, WalkIsExact
  <2> QED BY <2>1, <2>3, HungTypes
<1>3. GraphTypes(reg) \subseteq Hung(reg)
  BY <1>1, <1>2 DEF IsTree
<1> QED BY <1>3, GraphCovers DEF Hung

(* A type of the graph has the permissions of the types at or below it.        *)
LEMMA PermissionsAreBelow ==
  ASSUME NEW reg \in Registries, NEW flag, NEW t \in Hung(reg), \A u \in Hung(reg) : ~OnCycle(reg, u)
  PROVE  HierarchicalPermissions(reg, flag, t) =
            UNION {Enumerate(SpecOf(reg, u), flag) : u \in Below(reg, {t})}
<1> DEFINE own == [u \in Types |-> Enumerate(SpecOf(reg, u), flag)]
           g == [u \in Types |-> HierarchicalPermissions(reg, flag, u)]
<1>1. t \in Types /\ Below(reg, {t}) \subseteq Types /\ Below(reg, {t}) \subseteq Hung(reg)
  BY HungTypes
<1>2. \A u \in Types : own[u] = Enumerate(SpecOf(reg, u), flag) /\ g[u] = HierarchicalPermissions(reg, flag, u)
  OBVIOUS
<1> HIDE DEF own, g
<1>3. ASSUME NEW u \in Types PROVE g[u] = own[u] \cup UNION {g[c] : c \in Children(reg, u)}
  <2>1. \A c \in Children(reg, u) : g[c] = HierarchicalPermissions(reg, flag, c)
    BY <1>2, RegistryTypes
  <2> QED BY <1>2, <2>1, PermissionsUnfold
<1>4. \A p \in g[t] : \E u \in Below(reg, {t}) : p \in own[u]
  BY <1>1, <1>3, WalkIsExact
<1>5. \A u \in Below(reg, {t}) : own[u] \subseteq g[t]
  BY <1>1, <1>2, PermissionsCover
<1>6. g[t] = UNION {own[u] : u \in Below(reg, {t})}
  BY <1>4, <1>5
<1> QED BY <1>1, <1>2, <1>6

(* getResourceGraphNode finds a cycle just when there is one below its start,  *)
(* or it meets a type that it was told it had visited.                         *)
Meets(reg, u, visited) == \E x \in Below(reg, {u}) : x \in visited \/ OnCycle(reg, x)

LEMMA MeetsUnfolds ==
  ASSUME NEW reg \in Registries, NEW u \in Types, NEW V
  PROVE  Meets(reg, u, V) <=> (u \in V \/ \E c \in Children(reg, u) : Meets(reg, c, V \cup {u}))
<1>0. Children(reg, u) \in SUBSET Types
  BY RegistryTypes
<1>1. ASSUME Meets(reg, u, V), u \notin V PROVE \E c \in Children(reg, u) : Meets(reg, c, V \cup {u})
  <2>1. PICK x \in Below(reg, {u}) : x \in V \/ OnCycle(reg, x)
    BY <1>1 DEF Meets
  <2>2. x \in Below(reg, Children(reg, u))
    BY <1>1, <2>1, BelowUnfolds DEF OnCycle
  <2>3. PICK c \in Children(reg, u) : x \in Below(reg, {c})
    BY <1>0, <2>2, BelowOne
  <2> QED BY <2>1, <2>3 DEF Meets
<1>2. ASSUME u \in V PROVE Meets(reg, u, V)
  BY <1>2, BelowUnfolds DEF Meets
<1>3. ASSUME NEW c \in Children(reg, u), Meets(reg, c, V \cup {u}) PROVE Meets(reg, u, V)
  <2>1. PICK x \in Below(reg, {c}) : x \in V \cup {u} \/ OnCycle(reg, x)
    BY <1>3 DEF Meets
  <2>2. x \in Below(reg, Children(reg, u))
    BY <1>0, BelowOne
  <2>3. x \in Below(reg, {u})
    BY <2>2, BelowUnfolds
  <2> QED BY <2>1, <2>2, <2>3 DEF Meets, OnCycle
<1> QED BY <1>1, <1>2, <1>3

IsCheck(f, reg) ==
    f = [at \in Types \X SUBSET Types |->
            at[1] \in at[2] \/ \E c \in Children(reg, at[1]) : f[<<c, at[2] \cup {at[1]}>>]]

LEMMA CheckDefined ==
  ASSUME NEW reg \in Registries
  PROVE  \E f : IsCheck(f, reg)
<1> DEFINE D == Types \X SUBSET Types
           f == [at \in D |-> Meets(reg, at[1], at[2])]
<1>1. \A at \in D : f[at] <=> Meets(reg, at[1], at[2])
  OBVIOUS
<1> HIDE DEF f
<1>2. ASSUME NEW at \in D
      PROVE  f[at] <=> (at[1] \in at[2] \/ \E c \in Children(reg, at[1]) : f[<<c, at[2] \cup {at[1]}>>])
  <2>1. at[1] \in Types /\ at[2] \in SUBSET Types
    OBVIOUS
  <2>2. ASSUME NEW c \in Children(reg, at[1])
        PROVE  f[<<c, at[2] \cup {at[1]}>>] <=> Meets(reg, c, at[2] \cup {at[1]})
    <3>1. <<c, at[2] \cup {at[1]}>> \in D
      BY <2>1, RegistryTypes
    <3> QED BY <1>1, <3>1
  <2> QED BY <1>1, <2>1, <2>2, MeetsUnfolds
<1>3. f = [at \in D |->
            at[1] \in at[2] \/ \E c \in Children(reg, at[1]) : f[<<c, at[2] \cup {at[1]}>>]]
  <2>1. f = [at \in D |-> f[at]] /\ \A at \in D : f[at] \in BOOLEAN
    BY DEF f, Meets
  <2> QED BY <1>2, <2>1, Zenon
<1>4. IsCheck(f, reg)
  BY <1>3 DEF IsCheck
<1> QED BY <1>4

LEMMA CycleBelowMeets ==
  ASSUME NEW reg \in Registries, NEW t \in RegisteredTypes(reg)
  PROVE  CycleBelow(reg, t) <=> Meets(reg, t, {})
<1> DEFINE R == RegisteredTypes(reg)
           D == Types \X SUBSET Types
           f == CHOOSE g : IsCheck(g, reg)
<1>1. IsCheck(f, reg)
  BY CheckDefined
<1>2. CycleBelow(reg, t) = f[<<t, {}>>]
  BY Zenon DEF CycleBelow, IsCheck
<1> HIDE DEF f
<1>3. \A u \in Types, V \in SUBSET Types :
        f[<<u, V>>] <=> (u \in V \/ \E c \in Children(reg, u) : f[<<c, V \cup {u}>>])
  <2> SUFFICES ASSUME NEW u \in Types, NEW V \in SUBSET Types
               PROVE  f[<<u, V>>] <=> (u \in V \/ \E c \in Children(reg, u) : f[<<c, V \cup {u}>>])
    OBVIOUS
  <2>1. <<u, V>> \in D /\ <<u, V>>[1] = u /\ <<u, V>>[2] = V
    OBVIOUS
  <2> QED BY <1>1, <2>1 DEF IsCheck
<1>4. R \subseteq Types /\ \A u : Children(reg, u) \subseteq R
  BY RegistryTypes, RootsRegistered
<1> DEFINE Wrong(V) == \E u \in R : ~(f[<<u, V>>] <=> Meets(reg, u, V))
           T == {R \ V : V \in {W \in SUBSET Types : Wrong(W)}}
<1>5. SUFFICES ASSUME T # {} PROVE FALSE
  <2>1. ~Wrong({})
    BY <1>5
  <2> QED BY <1>2, <2>1
<1>6. PICK b \in T : \A y \in T : y \subseteq b => y = b
  <2>1. T \subseteq SUBSET R
    OBVIOUS
  <2> HIDE DEF T
  <2> QED BY <1>5, <2>1, MinSet, RegisteredFinite
<1>7. PICK V \in SUBSET Types : b = R \ V /\ Wrong(V)
  OBVIOUS
<1>8. PICK u \in R : ~(f[<<u, V>>] <=> Meets(reg, u, V))
  BY <1>7
<1>9. u \in Types /\ u \notin V
  BY <1>3, <1>4, <1>8, MeetsUnfolds
<1>10. ~Wrong(V \cup {u})
  <2>1. R \ (V \cup {u}) # b /\ R \ (V \cup {u}) \subseteq b
    BY <1>7, <1>9
  <2>2. R \ (V \cup {u}) \notin T
    BY <1>6, <2>1
  <2>3. V \cup {u} \in SUBSET Types
    BY <1>9
  <2> HIDE DEF Wrong
  <2> QED BY <2>2, <2>3
<1>11. \A c \in Children(reg, u) : f[<<c, V \cup {u}>>] <=> Meets(reg, c, V \cup {u})
  BY <1>4, <1>10
<1> QED BY <1>3, <1>8, <1>9, <1>11, MeetsUnfolds

LEMMA BuildsWithoutCycle ==
  ASSUME NEW reg \in Registries
  PROVE  Builds(reg) <=> \A t \in Hung(reg) : ~OnCycle(reg, t)
<1>1. \A t \in RootTypes(reg) : CycleBelow(reg, t) <=> \E x \in Below(reg, {t}) : OnCycle(reg, x)
  BY CycleBelowMeets, RootsRegistered DEF Meets
<1>2. RootTypes(reg) \in SUBSET Types
  BY RegistryTypes
<1>3. /\ \A t \in RootTypes(reg) : Below(reg, {t}) \subseteq Hung(reg)
      /\ \A x \in Hung(reg) : \E t \in RootTypes(reg) : x \in Below(reg, {t})
  BY <1>2, BelowOne DEF Hung
<1> QED BY <1>1, <1>3 DEF Builds

(* What a type of the graph carries, and Root. *)
LEMMA CarriedByType ==
  ASSUME NEW reg \in Registries, NEW flag, NEW t \in Hung(reg)
  PROVE  Carried(reg, flag, t) = UNION {Enumerate(SpecOf(reg, u), flag) : u \in Below(reg, {t})}
<1>1. t # Root /\ {t} \cap Hung(reg) = {t}
  BY HungTypes, RootIsNoResource
<1>2. Below(reg, {t}) \cap RegisteredTypes(reg) = Below(reg, {t})
  BY HungTypes
<1> QED BY <1>1, <1>2 DEF Carried, Hung

LEMMA CarriedByRoot ==
  ASSUME NEW reg \in Registries, NEW flag
  PROVE  Carried(reg, flag, Root) = UNION {Carried(reg, flag, t) : t \in Hung(reg)}
<1> DEFINE E(u) == Enumerate(SpecOf(reg, u), flag)
<1>1. Below(reg, Hung(reg)) = Hung(reg)
  <2>1. Hung(reg) \in SUBSET Types /\ RootTypes(reg) \in SUBSET Types
    BY HungTypes, RegistryTypes
  <2>2. Below(reg, Hung(reg)) \subseteq Hung(reg)
    BY <2>1, BelowNested DEF Hung
  <2> QED BY <2>1, <2>2, BelowIsClosed
<1>2. Hung(reg) \cap RegisteredTypes(reg) = Hung(reg)
  BY HungTypes
<1>3. Carried(reg, flag, Root) = UNION {E(u) : u \in Hung(reg)}
  BY <1>1, <1>2 DEF Carried, Hung
<1>4. \A t \in Hung(reg) : Carried(reg, flag, t) = UNION {E(u) : u \in Below(reg, {t})}
  BY CarriedByType
<1>5. \A t \in Hung(reg) : t \in Below(reg, {t}) /\ Below(reg, {t}) \subseteq Hung(reg)
  BY HungTypes, BelowUnfolds
<1>6. ASSUME NEW t \in Hung(reg) PROVE Carried(reg, flag, t) \subseteq Carried(reg, flag, Root)
  <2> SUFFICES ASSUME NEW p \in Carried(reg, flag, t) PROVE p \in Carried(reg, flag, Root)
    OBVIOUS
  <2>1. PICK u \in Below(reg, {t}) : p \in E(u)
    BY <1>4
  <2>2. u \in Hung(reg)
    BY <1>5
  <2> HIDE DEF E
  <2> QED BY <1>3, <2>1, <2>2
<1>7. ASSUME NEW t \in Hung(reg) PROVE E(t) \subseteq Carried(reg, flag, t)
  <2> HIDE DEF E
  <2> QED BY <1>4, <1>5
<1> HIDE DEF E
<1> QED BY <1>3, <1>6, <1>7

(* SpecOf is a registration of the type, the last one. *)
LEMMA SpecIsRegistered ==
  ASSUME NEW reg \in Registries, NEW t \in RegisteredTypes(reg)
  PROVE  \E n \in Live(reg) : SpecOf(reg, t) = reg[n] /\ reg[n].type = t
<1> DEFINE N == {n \in Live(reg) : reg[n].type = t}
<1>1. N \in (SUBSET Names) \ {{}} /\ N \subseteq Int
  <2>1. N \subseteq Names
    BY RegistryTypes
  <2>2. N # {}
    BY DEF RegisteredTypes
  <2> HIDE DEF N
  <2>3. N \subseteq Int
    BY <2>1, BoundTypes
  <2> QED BY <2>1, <2>2, <2>3
<1>2. \E n \in N : \A m \in N : n >= m
  BY <1>1, NamesFinite
<1>3. Max(N) \in N
  <2> HIDE DEF N
  <2> QED BY <1>2 DEF Max
<1> QED BY <1>3 DEF SpecOf

LEMMA ModelIsClosure ==
  ASSUME NEW reg \in Registries, Builds(reg), DOMAIN reg # {}
  PROVE  /\ DOMAIN ModelOf(reg) = Hung(reg) \cup {Root}
         /\ \A t \in DOMAIN ModelOf(reg) :
              /\ ModelOf(reg)[t].relations = {HashPermission(p) : p \in Carried(reg, cast.subresources, t)}
              /\ \A u \in (ModelOf(reg)[t].parents \cap DOMAIN ModelOf(reg)) \ {Root} :
                    ModelOf(reg)[t].relations \subseteq ModelOf(reg)[u].relations
<1> DEFINE M == ModelOf(reg)
           flag == cast.subresources
           P(t) == HierarchicalPermissions(reg, flag, t)
           C(t) == Carried(reg, flag, t)
           defs == [t \in Hung(reg) |-> TypeDefinition(reg, flag, t)]
<1>1. \A t \in Hung(reg) : ~OnCycle(reg, t)
  BY BuildsWithoutCycle
<1>2. GraphTypes(reg) = Hung(reg)
  BY <1>1, GraphIsHung
<1>3. M = [t \in Hung(reg) \cup {Root} |-> IF t = Root THEN RootTypeDefinition(defs) ELSE defs[t]]
  BY <1>2 DEF ModelOf, ExpectedModel
<1>4. DOMAIN M = Hung(reg) \cup {Root} /\ Root \notin Hung(reg)
  BY <1>3, HungTypes, RootIsNoResource
<1>5. \A t \in Hung(reg) : P(t) = C(t)
  BY <1>1, PermissionsAreBelow, CarriedByType
<1>6. \A t \in Hung(reg) : /\ M[t].relations = {HashPermission(p) : p \in P(t)}
                           /\ M[t].parents = ParentsOf(SpecOf(reg, t))
  BY <1>3, <1>4 DEF TypeDefinition
<1>7. M[Root].relations = UNION {{HashPermission(p) : p \in P(t)} : t \in Hung(reg)} /\ M[Root].parents = {}
  <2>1. M[Root] = RootTypeDefinition(defs)
    BY <1>3, <1>4
  <2>2. DOMAIN defs = Hung(reg) /\ \A t \in Hung(reg) : defs[t].relations = {HashPermission(p) : p \in P(t)}
    BY DEF TypeDefinition
  <2> HIDE DEF defs, P
  <2> QED BY <2>1, <2>2 DEF RootTypeDefinition
<1>8. C(Root) = UNION {C(t) : t \in Hung(reg)}
  BY CarriedByRoot
<1>9. ASSUME NEW t \in Hung(reg), NEW u \in Hung(reg), u \in ParentsOf(SpecOf(reg, t))
      PROVE  P(t) \subseteq P(u)
  <2>1. PICK n \in Live(reg) : SpecOf(reg, t) = reg[n] /\ reg[n].type = t
    BY HungTypes, SpecIsRegistered
  <2>2. u = t \/ t \in Children(reg, u)
    BY <1>9, <2>1 DEF Children
  <2>3. u \in Types
    BY HungTypes
  <2> QED BY <2>2, <2>3, PermissionsPassedOn
<1> HIDE DEF M, P, C
<1>10. ASSUME NEW t \in DOMAIN M PROVE M[t].relations = {HashPermission(p) : p \in C(t)}
  BY <1>4, <1>5, <1>6, <1>7, <1>8
<1>11. ASSUME NEW t \in DOMAIN M, NEW u \in (M[t].parents \cap DOMAIN M) \ {Root}
       PROVE  M[t].relations \subseteq M[u].relations
  BY <1>4, <1>6, <1>7, <1>9
<1> QED BY <1>4, <1>10, <1>11 DEF M, C

LEMMA StoredRegistry ==
  ASSUME NEW st \in [Names -> Registration \cup {Absent}]
  PROVE  Registry(st) \in Registries
<1> DEFINE S == {m \in Names : st[m] # Absent}
<1>1. Registry(st) \in [S -> Registration] /\ S \in SUBSET Names
  BY DEF Registry
<1> QED BY <1>1 DEF Registries

-----------------------------------------------------------------------------
(* Registrations that last: every model is made with them.                  *)

(* A registry that has them, and nobody else has their types. *)
WithLasting(reg) ==
    /\ reg \in Registries
    /\ \A n \in DOMAIN Lasting :
        /\ n \in DOMAIN reg /\ reg[n] = Lasting[n]
        /\ \A m \in DOMAIN reg \ {n} : reg[m].type # Lasting[n].type

LEMMA LastingTypes ==
  ASSUME cast \in Casts
  PROVE  /\ Lasting \in Registries
         /\ \A n \in DOMAIN Lasting :
              /\ n \in Names /\ Lasting[n] = cast.from[n] /\ Lasting[n] \in Registration
              /\ Lasting[n] # Absent /\ ~Lasting[n].deleting /\ cast.plan[n] = <<>>
              /\ \A v \in Others(n) : v.type # Lasting[n].type /\ v.key # Lasting[n].key
         /\ Live(Lasting) = DOMAIN Lasting
         /\ \A n \in DOMAIN Lasting : \A m \in DOMAIN Lasting \ {n} : Lasting[m] \in Others(n)
<1> DEFINE N == {m \in Names : /\ cast.from[m] # Absent /\ cast.plan[m] = <<>>
                               /\ \A v \in Others(m) : v.type # cast.from[m].type /\ v.key # cast.from[m].key}
<1>1. Lasting = [n \in N |-> cast.from[n]]
  BY DEF Lasting
<1>2. \A n \in N : cast.from[n] \in Registration /\ ~cast.from[n].deleting
  BY CastTypes DEF Version
<1>3. Lasting \in [N -> Registration]
  BY <1>1, <1>2
<1>4. \A n \in DOMAIN Lasting :
              /\ n \in Names /\ Lasting[n] = cast.from[n] /\ Lasting[n] \in Registration
              /\ Lasting[n] # Absent /\ ~Lasting[n].deleting /\ cast.plan[n] = <<>>
              /\ \A v \in Others(n) : v.type # Lasting[n].type /\ v.key # Lasting[n].key
  BY <1>1, <1>2
<1>5. Lasting \in Registries
  BY <1>3 DEF Registries
<1>6. Live(Lasting) = DOMAIN Lasting
  BY <1>4 DEF Live
<1>7. \A n \in DOMAIN Lasting : \A m \in DOMAIN Lasting \ {n} : Lasting[m] \in Others(n)
  BY <1>4 DEF Others
<1> QED BY <1>4, <1>5, <1>6, <1>7

(* Of one registration, the last is that one. *)
LEMMA MaxOfOne == ASSUME NEW n \in Nat PROVE Max({n}) = n
<1>1. \A x \in {n} : x = n /\ \A y \in {n} : x >= y
  OBVIOUS
<1> QED BY <1>1 DEF Max

LEMMA LastingSpecs ==
  ASSUME cast \in Casts, NEW reg, WithLasting(reg), NEW n \in DOMAIN Lasting
  PROVE  SpecOf(reg, Lasting[n].type) = Lasting[n] /\ SpecOf(Lasting, Lasting[n].type) = Lasting[n]
<1>1. n \in Nat
  BY LastingTypes, BoundTypes
<1>2. {m \in Live(reg) : reg[m].type = Lasting[n].type} = {n}
  BY LastingTypes DEF WithLasting, Live
<1>3. {m \in Live(Lasting) : Lasting[m].type = Lasting[n].type} = {n}
  BY LastingTypes
<1> QED BY <1>1, <1>2, <1>3, MaxOfOne, LastingTypes DEF SpecOf, WithLasting

LEMMA LastingGraph ==
  ASSUME cast \in Casts, NEW reg, WithLasting(reg)
  PROVE  /\ RootTypes(Lasting) \subseteq RootTypes(reg)
         /\ \A t : Children(Lasting, t) \subseteq Children(reg, t)
         /\ \A from \in SUBSET Types : \A more \in SUBSET Types :
              from \subseteq more => Below(Lasting, from) \subseteq Below(reg, more)
<1>1. \A n \in Live(Lasting) : n \in Live(reg) /\ reg[n] = Lasting[n]
  BY LastingTypes DEF WithLasting, Live
<1>2. RootTypes(Lasting) \subseteq RootTypes(reg)
  BY <1>1 DEF RootTypes
<1>3. \A t : Children(Lasting, t) \subseteq Children(reg, t)
  BY <1>1 DEF Children
<1>4. ASSUME NEW from \in SUBSET Types, NEW more \in SUBSET Types, from \subseteq more
      PROVE  Below(Lasting, from) \subseteq Below(reg, more)
  <2>1. reg \in Registries
    BY DEF WithLasting
  <2>2. \A u \in Below(reg, more) : Children(Lasting, u) \subseteq Below(reg, more)
    BY <1>3, <2>1, BelowIsClosed, RegistryTypes
  <2>3. from \subseteq Below(reg, more) /\ Below(reg, more) \in SUBSET Types
    BY <1>4, BelowIsClosed
  <2> QED BY <2>2, <2>3, BelowIsLeast
<1> QED BY <1>2, <1>3, <1>4

(* What ExpectedModel says of a type, and of Root. *)
LEMMA ModelDomain ==
  ASSUME NEW reg, DOMAIN reg # {}
  PROVE  DOMAIN ModelOf(reg) = GraphTypes(reg) \cup {Root}
BY DEF ModelOf, ExpectedModel

LEMMA ModelOfType ==
  ASSUME NEW reg, DOMAIN reg # {}, NEW t \in GraphTypes(reg), t # Root
  PROVE  /\ ModelOf(reg)[t].parents = ParentsOf(SpecOf(reg, t))
         /\ \A p \in HierarchicalPermissions(reg, cast.subresources, t) :
                HashPermission(p) \in ModelOf(reg)[t].relations
         /\ \A h \in ModelOf(reg)[t].relations :
                \E p \in HierarchicalPermissions(reg, cast.subresources, t) : h = HashPermission(p)
<1>1. ModelOf(reg)[t] = TypeDefinition(reg, cast.subresources, t)
  BY DEF ModelOf, ExpectedModel
<1> QED BY <1>1 DEF TypeDefinition

LEMMA ModelOfRoot ==
  ASSUME NEW reg, DOMAIN reg # {}, NEW t \in GraphTypes(reg),
         NEW p \in HierarchicalPermissions(reg, cast.subresources, t)
  PROVE  HashPermission(p) \in ModelOf(reg)[Root].relations
<1> DEFINE defs == [u \in GraphTypes(reg) |-> TypeDefinition(reg, cast.subresources, u)]
<1>1. ModelOf(reg)[Root] = RootTypeDefinition(defs)
  BY DEF ModelOf, ExpectedModel
<1>2. t \in DOMAIN defs /\ defs[t] = TypeDefinition(reg, cast.subresources, t)
  OBVIOUS
<1>3. HashPermission(p) \in TypeDefinition(reg, cast.subresources, t).relations
  <2> DEFINE H == HierarchicalPermissions(reg, cast.subresources, t)
  <2>1. p \in H
    OBVIOUS
  <2> HIDE DEF H
  <2> QED BY <2>1 DEF TypeDefinition, H
<1> HIDE DEF defs
<1> QED BY <1>1, <1>2, <1>3 DEF RootTypeDefinition

(* What lasting registrations carry is defined in every model. *)
LEMMA CarriedIsDefined ==
  ASSUME cast \in Casts, NEW reg, WithLasting(reg), NEW t, NEW p,
         p \in Carried(Lasting, cast.subresources, t)
  PROVE  t \in DOMAIN ModelOf(reg) /\ HashPermission(p) \in ModelOf(reg)[t].relations
<1> DEFINE hung == Below(Lasting, RootTypes(Lasting))
           from == IF t = Root THEN hung ELSE {t} \cap hung
<1>1. PICK u \in Below(Lasting, from) \cap RegisteredTypes(Lasting) :
            p \in Enumerate(SpecOf(Lasting, u), cast.subresources)
  BY DEF Carried
<1>2. Lasting \in Registries /\ reg \in Registries
  BY LastingTypes DEF WithLasting
<1>3. RootTypes(Lasting) \in SUBSET Types /\ RootTypes(reg) \in SUBSET Types
  BY <1>2, RegistryTypes
<1>4. hung \subseteq Types /\ hung \subseteq Below(reg, RootTypes(reg))
  BY <1>3, BelowIsClosed, LastingGraph
<1>5. hung \subseteq GraphTypes(reg)
  BY <1>2, <1>4, GraphCovers
<1>6. PICK n \in DOMAIN Lasting : u = Lasting[n].type
  BY LastingTypes DEF RegisteredTypes
<1>7. SpecOf(reg, u) = SpecOf(Lasting, u)
  BY <1>6, LastingSpecs
<1>8. DOMAIN reg # {}
  BY <1>6 DEF WithLasting
<1>9. u \in Types
  BY <1>2, RegistryTypes
<1>10. p \in Enumerate(SpecOf(reg, u), cast.subresources)
  BY <1>1, <1>7
<1>11. CASE t = Root
  <2>1. Below(Lasting, hung) \subseteq hung
    <3>1. \A v \in hung : Children(Lasting, v) \subseteq hung
      BY <1>2, <1>3, BelowIsClosed, RegistryTypes
    <3> QED BY <1>4, <3>1, BelowIsLeast
  <2>2. u \in GraphTypes(reg)
    BY <1>1, <1>5, <1>11, <2>1
  <2>3. p \in HierarchicalPermissions(reg, cast.subresources, u)
    BY <1>2, <1>9, <1>10, PermissionsPassedOn
  <2> QED BY <1>8, <1>11, <2>2, <2>3, ModelDomain, ModelOfRoot
<1>12. CASE t # Root
  <2>1. t \in hung
    <3> SUFFICES ASSUME t \notin hung PROVE FALSE
      OBVIOUS
    <3>1. from = {}
      BY <1>12
    <3>2. Below(Lasting, {}) \subseteq {}
      BY BelowIsLeast
    <3> QED BY <1>1, <3>1, <3>2
  <2>2. from = {t}
    BY <1>12, <2>1
  <2>3. t \in Types /\ t \in GraphTypes(reg)
    BY <1>4, <1>5, <2>1
  <2>4. u \in Below(reg, {t})
    <3>1. {t} \in SUBSET Types
      BY <2>3
    <3> HIDE DEF from
    <3>2. u \in Below(Lasting, {t})
      BY <1>1, <2>2
    <3> QED BY <3>1, <3>2, LastingGraph
  <2>5. p \in HierarchicalPermissions(reg, cast.subresources, t)
    BY <1>2, <1>10, <2>3, <2>4, PermissionsCover
  <2> QED BY <1>8, <1>12, <2>3, <2>5, ModelDomain, ModelOfType
<1> QED BY <1>11, <1>12

(* A parent that OpenFGA accepts has the relations of its children. *)
LEMMA ParentHasRelations ==
  ASSUME cast \in Casts, NEW reg, WithLasting(reg), Accepts(ModelOf(reg)),
         NEW n \in DOMAIN Lasting, NEW y \in ParentsOf(Lasting[n]), NEW h,
         Lasting[n].type \in DOMAIN ModelOf(reg), h \in ModelOf(reg)[Lasting[n].type].relations
  PROVE  /\ y \in ModelOf(reg)[Lasting[n].type].parents
         /\ y \in DOMAIN ModelOf(reg) /\ h \in ModelOf(reg)[y].relations
<1> DEFINE x == Lasting[n].type
           M == ModelOf(reg)
<1>1. Lasting[n] \in Registration /\ x \in Types /\ x # Root
  BY LastingTypes, RootIsNoResource DEF Registration
<1>2. y \in Types \cup {Root}
  BY <1>1 DEF ParentsOf, Registration
<1>3. DOMAIN reg # {} /\ reg \in Registries
  BY DEF WithLasting
<1>d. DOMAIN M = GraphTypes(reg) \cup {Root}
  BY <1>3, ModelDomain
<1>4. x \in GraphTypes(reg)
  BY <1>1, <1>d
<1>5. M[x].parents = ParentsOf(Lasting[n])
  <2>1. M[x].parents = ParentsOf(SpecOf(reg, x))
    BY <1>1, <1>3, <1>4, ModelOfType
  <2>2. SpecOf(reg, x) = Lasting[n]
    BY LastingSpecs
  <2> QED BY <2>1, <2>2
<1>6. y \in DOMAIN M
  <2> HIDE DEF M
  <2>1. Accepts(M) /\ x \in DOMAIN M
    BY DEF M
  <2> HIDE DEF x
  <2> QED BY <1>5, <2>1 DEF Accepts
<1>7. PICK p \in HierarchicalPermissions(reg, cast.subresources, x) : h = HashPermission(p)
  BY <1>1, <1>3, <1>4, ModelOfType
<1>8. CASE y = Root
  <2>1. h \in M[Root].relations
    BY <1>3, <1>4, <1>7, ModelOfRoot
  <2> QED BY <1>5, <1>6, <1>8, <2>1
<1>9. CASE y = x
  BY <1>5, <1>6, <1>9
<1>10. CASE y # Root /\ y # x
  <2>1. y \in Types /\ y \in GraphTypes(reg)
    BY <1>2, <1>6, <1>10, <1>d
  <2>2. n \in Live(reg) /\ reg[n] = Lasting[n]
    BY LastingTypes DEF WithLasting, Live
  <2>3. x \in Children(reg, y)
    BY <1>10, <2>2 DEF Children
  <2>4. p \in HierarchicalPermissions(reg, cast.subresources, y)
    BY <1>3, <1>7, <2>1, <2>3, PermissionsPassedOn
  <2>5. h \in M[y].relations
    BY <1>3, <1>7, <1>10, <2>1, <2>4, ModelOfType
  <2> QED BY <1>5, <1>6, <2>5
<1> QED BY <1>8, <1>9, <1>10

(* OpenFGA finds a grant above an object, if a permission is carried there. *)
LEMMA GrantIsChecked ==
  ASSUME cast \in Casts, NEW reg, WithLasting(reg), Accepts(ModelOf(reg)),
         NEW user, NEW p, NEW o, p \in Carried(Lasting, cast.subresources, o[1]),
         NEW a \in Above(Lasting, o), <<user, HashPermission(p), a>> \in grants
  PROVE  Check(ModelOf(reg), user, HashPermission(p), o)
<1> DEFINE M == ModelOf(reg)
           h == HashPermission(p)
           up == {e \in cast.parents :
                    /\ e[1][1] \in RegisteredTypes(Lasting)
                    /\ e[2][1] \in ParentsOf(SpecOf(Lasting, e[1][1]))}
           objects == {o} \cup {e[2] : e \in up}
<1>1. o[1] \in DOMAIN M /\ h \in M[o[1]].relations
  BY CarriedIsDefined
<1>2. ASSUME NEW e \in up, e[1][1] \in DOMAIN M, h \in M[e[1][1]].relations
      PROVE  /\ e[2][1] \in M[e[1][1]].parents
             /\ e[2][1] \in DOMAIN M /\ h \in M[e[2][1]].relations
  <2>1. PICK n \in DOMAIN Lasting : e[1][1] = Lasting[n].type
    BY LastingTypes DEF RegisteredTypes
  <2>2. e[2][1] \in ParentsOf(Lasting[n])
    BY <2>1, LastingSpecs
  <2> HIDE DEF h
  <2> QED BY <1>2, <2>1, <2>2, ParentHasRelations
<1>3. \A S \in SUBSET objects : o \in S /\ (\A e \in up : e[1] \in S => e[2] \in S) => a \in S
  BY DEF Above
<1>4. a \in objects
  BY DEF Above
<1> HIDE DEF M, h
<1>5. PICK w :
        /\ Check(M, user, h, o) <=> w[o]
        /\ \A x \in Asked(o) : w[x] <=>
              /\ x[1] \in DOMAIN M /\ h \in M[x[1]].relations
              /\ \/ <<user, h, x>> \in grants
                 \/ \E e \in cast.parents : e[1] = x /\ e[2][1] \in M[x[1]].parents /\ w[e[2]]
  BY CheckUnfolds
<1>6. objects \subseteq Asked(o)
  BY DEF Asked
<1> SUFFICES ASSUME ~w[o] PROVE FALSE
  BY <1>5 DEF M, h
<1> DEFINE S == {x \in objects : ~w[x] /\ x[1] \in DOMAIN M /\ h \in M[x[1]].relations}
<1>7. o \in S
  BY <1>1
<1>8. ASSUME NEW e \in up, e[1] \in S PROVE e[2] \in S
  <2>1. /\ e[2][1] \in M[e[1][1]].parents
        /\ e[2][1] \in DOMAIN M /\ h \in M[e[2][1]].relations
    BY <1>2, <1>8
  <2>2. ~w[e[1]] /\ e[1] \in Asked(o) /\ e[1][1] \in DOMAIN M /\ h \in M[e[1][1]].relations
    BY <1>6, <1>8
  <2>3. ~w[e[2]]
    BY <1>5, <2>1, <2>2
  <2> QED BY <2>1, <2>3
<1>9. a \in S
  <2>1. S \in SUBSET objects
    OBVIOUS
  <2> HIDE DEF S, objects, up
  <2> QED BY <1>3, <1>7, <1>8, <2>1
<1>10. ~w[a] /\ a[1] \in DOMAIN M /\ h \in M[a[1]].relations
  BY <1>9
<1>11. <<user, h, a>> \in grants
  BY DEF h
<1>12. a \in Asked(o)
  BY <1>4, <1>6
<1> HIDE DEF S, objects, up
<1> QED BY <1>5, <1>10, <1>11, <1>12

(* A version that has neither the type nor the key of what lasts under n; and  *)
(* what may be stored, sent and known under the name m.                        *)
Apart(n) == {v \in Registration : v.type # Lasting[n].type /\ v.key # Lasting[n].key} \cup {Absent}
Slot(n, m) == IF m = n THEN {Lasting[n]} ELSE Apart(n)

(* Nobody touches what lasts, or takes its type or key. *)
KeptInv ==
    \A n \in DOMAIN Lasting :
        /\ plan[n] = <<>>
        /\ \A m \in Names :
            /\ stored[m] \in Slot(n, m) /\ known[m] \in Slot(n, m) \cup {Absent}
            /\ sent[m] \in Seq(Slot(n, m)) /\ plan[m] \in Seq(Apart(n))

(* So every model has it, and what a grant plan keeps stays granted. *)
ModelsInv ==
    /\ \A i \in DOMAIN models : \E reg \in Registries :
            WithLasting(reg) /\ models[i] = ModelOf(reg) /\ Accepts(models[i])
    /\ grantPlan \in Seq({cast.grantPlan[i] : i \in DOMAIN cast.grantPlan})

(* A review that must be allowed is on its way to it. *)
DueInv ==
    req.pc # "idle" /\ req.due =>
        /\ Due(req.review)
        /\ \A n \in DOMAIN Lasting : Lasting[n].key = req.review.key =>
            /\ req.pc \in {"root", "check"} => req.object = ResourceObject(Lasting[n], req.review)
            /\ req.pc = "check" => req.root = <<Root, Lasting[n].type>>
        /\ req.pc = "answered" => req.answer = "allowed" \/ req.failed

LastingInv == KeptInv /\ ModelsInv /\ DueInv

LEMMA LastingAtStart == Init => LastingInv
<1> SUFFICES ASSUME Init PROVE LastingInv
  OBVIOUS
<1>1. /\ cast \in Casts /\ stored = cast.from /\ known = cast.from /\ plan = cast.plan
      /\ models = <<>> /\ grantPlan = cast.grantPlan /\ sent = [n \in Names |-> <<>>] /\ req = Idle
  BY DEF Init
<1>2. AuthorizerInv
  BY AtStart
<1>3. ASSUME NEW n \in DOMAIN Lasting, NEW m \in Names
      PROVE  /\ stored[m] \in Slot(n, m) /\ sent[m] \in Seq(Slot(n, m)) /\ plan[m] \in Seq(Apart(n))
  <2>1. sent[m] \in Seq(Slot(n, m))
    BY <1>1
  <2>2. CASE m = n
    <3>1. stored[n] = Lasting[n] /\ plan[n] = <<>>
      BY <1>1, LastingTypes
    <3>2. plan[m] \in Seq(Apart(n))
      BY <2>2, <3>1
    <3> QED BY <2>1, <2>2, <3>1, <3>2 DEF Slot
  <2>3. CASE m # n
    <3>1. ASSUME NEW v, v \in Registration \cup {Absent}, v # Absent => v \in Others(n)
          PROVE  v \in Apart(n)
      BY <1>1, <3>1, LastingTypes DEF Apart
    <3>2. stored[m] \in Apart(n)
      <4>1. stored[m] \in Registration \cup {Absent}
        BY <1>1, CastTypes DEF Version
      <4>2. stored[m] # Absent => stored[m] \in Others(n)
        BY <1>1, <2>3 DEF Others
      <4> QED BY <3>1, <4>1, <4>2
    <3>3. plan[m] \in Seq(Version)
      BY <1>1, CastTypes
    <3>4. ASSUME NEW i \in DOMAIN plan[m] PROVE plan[m][i] \in Apart(n)
      <4>1. plan[m][i] \in Registration \cup {Absent}
        BY <3>3 DEF Version
      <4>2. plan[m][i] # Absent => plan[m][i] \in Others(n)
        BY <1>1, <2>3 DEF Others
      <4> QED BY <3>1, <4>1, <4>2
    <3>5. plan[m] \in Seq(Apart(n))
      BY <3>3, <3>4
    <3> QED BY <2>1, <2>3, <3>2, <3>5 DEF Slot
  <2> QED BY <2>2, <2>3
<1>4. KeptInv
  BY <1>1, <1>3, LastingTypes DEF KeptInv
<1>5. ModelsInv
  BY <1>1, CastTypes DEF ModelsInv
<1>6. DueInv
  BY <1>1 DEF DueInv, Idle
<1> QED BY <1>4, <1>5, <1>6 DEF LastingInv

LEMMA LastingStays ==
  ASSUME cast' = cast
  PROVE  /\ Lasting' = Lasting
         /\ \A n : Apart(n)' = Apart(n) /\ \A m : Slot(n, m)' = Slot(n, m)
         /\ \A reg : WithLasting(reg)' <=> WithLasting(reg)
         /\ \A reg : ModelOf(reg)' = ModelOf(reg)
<1>1. Lasting' = Lasting
  BY DEF Lasting, Others
<1>2. \A n : Apart(n)' = Apart(n)
  BY <1>1 DEF Apart
<1>3. \A n, m : Slot(n, m)' = Slot(n, m)
  BY <1>1, <1>2 DEF Slot
<1>4. \A reg : WithLasting(reg)' <=> WithLasting(reg)
  BY <1>1 DEF WithLasting, Registries
<1>5. \A reg : ModelOf(reg)' = ModelOf(reg)
  BY DEF ModelOf
<1> QED BY <1>1, <1>2, <1>3, <1>4, <1>5

-----------------------------------------------------------------------------
(* Steps, and what lasts.                                                   *)

(* One name's copies change, to what may be there. *)
LEMMA KeptByStore ==
  ASSUME CopiesInv, KeptInv, UNCHANGED <<cast, known>>, NEW m \in Names, NEW v, Store(m, v),
         \A n \in DOMAIN Lasting : v \in Slot(n, m),
         plan' = plan \/ (plan[m] # <<>> /\ plan' = [plan EXCEPT ![m] = Tail(@)])
  PROVE  KeptInv'
<1>1. SUFFICES ASSUME NEW n \in DOMAIN Lasting
               PROVE  /\ plan'[n] = <<>>
                      /\ \A k \in Names :
                          /\ stored'[k] \in Slot(n, k) /\ known'[k] \in Slot(n, k) \cup {Absent}
                          /\ sent'[k] \in Seq(Slot(n, k)) /\ plan'[k] \in Seq(Apart(n))
  BY LastingStays DEF KeptInv
<1>2. n \in Names
  BY LastingTypes DEF CopiesInv
<1>3. \A k \in Names : stored'[k] \in Slot(n, k) /\ known'[k] \in Slot(n, k) \cup {Absent}
  BY DEF KeptInv, CopiesInv, Store
<1>4. \A k \in Names : sent'[k] \in Seq(Slot(n, k))
  <2>1. sent[m] \in Seq(Slot(n, m)) /\ v \in Slot(n, m)
    BY DEF KeptInv
  <2>2. Append(sent[m], v) \in Seq(Slot(n, m))
    BY <2>1
  <2>3. \A k \in Names : sent'[k] = IF k = m THEN Append(sent[m], v) ELSE sent[k]
    BY DEF Store, CopiesInv
  <2> QED BY <2>2, <2>3 DEF KeptInv
<1>5. plan'[n] = <<>> /\ \A k \in Names : plan'[k] \in Seq(Apart(n))
  <2>1. CASE plan' = plan
    BY <2>1 DEF KeptInv
  <2>2. CASE plan[m] # <<>> /\ plan' = [plan EXCEPT ![m] = Tail(@)]
    <3>1. plan[m] \in Seq(Apart(n)) /\ plan[n] = <<>>
      BY DEF KeptInv
    <3>2. Tail(plan[m]) \in Seq(Apart(n))
      BY <2>2, <3>1
    <3>3. \A k \in Names : plan'[k] = IF k = m THEN Tail(plan[m]) ELSE plan[k]
      BY <2>2 DEF CopiesInv
    <3> QED BY <1>2, <2>2, <3>1, <3>2, <3>3 DEF KeptInv
  <2> QED BY <2>1, <2>2
<1> QED BY <1>3, <1>4, <1>5

LEMMA KeptWhenUnchanged ==
  ASSUME KeptInv, UNCHANGED <<cast, stored, plan, sent, known>>
  PROVE  KeptInv'
BY LastingStays DEF KeptInv

LEMMA EditKeeps ==
  ASSUME CopiesInv, KeptInv, NEW m \in Names, Edit(m)
  PROVE  KeptInv'
<1>1. /\ UNCHANGED <<cast, known>>
      /\ plan[m] # <<>> /\ plan' = [plan EXCEPT ![m] = Tail(@)]
  BY DEF Edit
<1>2. \A n \in DOMAIN Lasting : m # n /\ Slot(n, m) = Apart(n) /\ Absent \in Apart(n)
  BY <1>1 DEF KeptInv, Slot, Apart
<1>3. PICK v : Store(m, v) /\ \A n \in DOMAIN Lasting : v \in Slot(n, m)
  <2>1. CASE Store(m, Head(plan[m]))
    <3>1. \A n \in DOMAIN Lasting : plan[m] \in Seq(Apart(n))
      BY DEF KeptInv
    <3>2. \A n \in DOMAIN Lasting : Head(plan[m]) \in Apart(n)
      BY <1>1, <3>1
    <3> QED BY <1>2, <2>1, <3>2
  <2>2. CASE stored[m] # Absent /\ Store(m, [stored[m] EXCEPT !.deleting = TRUE])
    <3>1. stored[m] \in Registration
      BY <2>2 DEF CopiesInv, Stems
    <3> DEFINE d == [stored[m] EXCEPT !.deleting = TRUE]
    <3>2. d \in Registration /\ d.type = stored[m].type /\ d.key = stored[m].key
      BY <3>1 DEF Registration
    <3>3. \A n \in DOMAIN Lasting : stored[m] \in Apart(n)
      BY <1>2 DEF KeptInv
    <3>4. \A n \in DOMAIN Lasting : d \in Apart(n)
      BY <2>2, <3>2, <3>3 DEF Apart
    <3> QED BY <1>2, <2>2, <3>4
  <2>3. CASE Store(m, Absent)
    BY <1>2, <2>3
  <2> QED BY <2>1, <2>2, <2>3 DEF Edit
<1> QED BY <1>1, <1>3, KeptByStore

LEMMA FinalizeKeeps ==
  ASSUME CopiesInv, KeptInv, NEW m \in Names, Finalize(m)
  PROVE  KeptInv' /\ \A n \in DOMAIN Lasting : m # n
<1>1. UNCHANGED <<cast, plan, known>> /\ Store(m, Absent) /\ stored[m] # Absent /\ stored[m].deleting
  BY DEF Finalize
<1>2. \A n \in DOMAIN Lasting : m # n
  BY <1>1, LastingTypes DEF KeptInv, Slot, CopiesInv
<1>3. \A n \in DOMAIN Lasting : Absent \in Slot(n, m)
  BY <1>2 DEF Slot, Apart
<1> QED BY <1>1, <1>2, <1>3, KeptByStore

(* The handlers change the index under what lasts to what it is. *)
LEMMA HandlersKeep ==
  ASSUME CopiesInv, KeptInv, NEW m \in Names, HandleEvent(m) \/ HandleMove(m)
  PROVE  /\ KeptInv'
         /\ \A n \in DOMAIN Lasting :
                index'[Lasting[n].key] \in {index[Lasting[n].key], Lasting[n]}
<1>1. UNCHANGED <<cast, stored, plan>> /\ sent[m] # <<>>
  BY DEF HandleEvent, HandleMove, storeVars
<1>2. \A n \in DOMAIN Lasting : /\ Head(sent[m]) \in Slot(n, m) /\ Tail(sent[m]) \in Seq(Slot(n, m))
                                /\ known[m] \in Slot(n, m) \cup {Absent}
  <2>1. \A n \in DOMAIN Lasting : sent[m] \in Seq(Slot(n, m)) /\ known[m] \in Slot(n, m) \cup {Absent}
    BY DEF KeptInv
  <2> QED BY <1>1, <2>1
<1>3. \A n \in DOMAIN Lasting : n \in Names /\ Lasting[n] # Absent /\ Lasting[n].key \in Keys
  BY LastingTypes DEF CopiesInv, Registration
<1>4. CASE HandleEvent(m)
  <2>1. sent' = [sent EXCEPT ![m] = Tail(sent[m])] /\ known' = [known EXCEPT ![m] = Head(sent[m])]
    BY <1>4 DEF HandleEvent
  <2>2. \A k \in Names : /\ sent'[k] = IF k = m THEN Tail(sent[m]) ELSE sent[k]
                         /\ known'[k] = IF k = m THEN Head(sent[m]) ELSE known[k]
    BY <2>1 DEF CopiesInv
  <2>3. KeptInv'
    <3>1. \A n \in DOMAIN Lasting : \A k \in Names :
            sent'[k] \in Seq(Slot(n, k)) /\ known'[k] \in Slot(n, k) \cup {Absent}
      BY <1>2, <2>2 DEF KeptInv
    <3> QED BY <1>1, <3>1, LastingStays DEF KeptInv
  <2>4. ASSUME NEW n \in DOMAIN Lasting
        PROVE  index'[Lasting[n].key] \in {index[Lasting[n].key], Lasting[n]}
    <3> DEFINE v == Head(sent[m])
    <3>1. v \in Slot(n, m) /\ known[m] \in Slot(n, m) \cup {Absent}
      BY <1>2
    <3>2. CASE v # Absent /\ index' = [index EXCEPT ![v.key] = v]
      <4>1. v = Lasting[n] \/ v.key # Lasting[n].key
        BY <3>1, <3>2 DEF Slot, Apart
      <4> QED BY <1>3, <3>2, <4>1 DEF CopiesInv
    <3>3. CASE v = Absent /\ known[m] # Absent /\ index' = [index EXCEPT ![known[m].key] = Absent]
      <4>1. m # n
        BY <1>3, <3>1, <3>3 DEF Slot
      <4>2. known[m].key # Lasting[n].key
        BY <3>1, <3>3, <4>1 DEF Slot, Apart
      <4> QED BY <1>3, <3>3, <4>2 DEF CopiesInv
    <3> QED BY <1>4, <3>2, <3>3 DEF HandleEvent, OnAdd, OnUpdate, OnDelete
  <2> QED BY <2>3, <2>4
<1>5. CASE HandleMove(m)
  <2>1. /\ UNCHANGED sent /\ known' = [known EXCEPT ![m] = Absent]
        /\ known[m] # Absent /\ Head(sent[m]).key # known[m].key
        /\ index' = [index EXCEPT ![known[m].key] = Absent]
    BY <1>5 DEF HandleMove
  <2>2. \A k \in Names : known'[k] = IF k = m THEN Absent ELSE known[k]
    BY <2>1 DEF CopiesInv
  <2>3. KeptInv'
    BY <1>1, <2>1, <2>2, LastingStays DEF KeptInv
  <2>4. ASSUME NEW n \in DOMAIN Lasting
        PROVE  index'[Lasting[n].key] \in {index[Lasting[n].key], Lasting[n]}
    <3>1. m # n
      BY <1>2, <2>1 DEF Slot
    <3>2. known[m].key # Lasting[n].key
      BY <1>2, <2>1, <3>1 DEF Slot, Apart
    <3> QED BY <1>3, <2>1, <3>2 DEF CopiesInv
  <2> QED BY <2>3, <2>4
<1> QED BY <1>4, <1>5

(* A new list shows what is stored. *)
LEMMA RelistKeeps ==
  ASSUME KeptInv, UNCHANGED <<cast, stored, plan>>,
         known' = known \/ known' = [n \in Names |-> Absent],
         \A m \in Names : sent'[m] \in {<<>>, <<stored[m]>>}
  PROVE  KeptInv'
<1>1. \A n \in DOMAIN Lasting : \A m \in Names : <<>> \in Seq(Slot(n, m)) /\ <<stored[m]>> \in Seq(Slot(n, m))
  BY DEF KeptInv
<1>2. \A n \in DOMAIN Lasting : \A m \in Names :
        sent'[m] \in Seq(Slot(n, m)) /\ known'[m] \in Slot(n, m) \cup {Absent}
  BY <1>1 DEF KeptInv
<1> QED BY <1>2, LastingStays DEF KeptInv

LEMMA KeptStep ==
  ASSUME CopiesInv, KeptInv, [Next]_vars
  PROVE  KeptInv'
<1>1. CASE Relist
  BY <1>1, RelistKeeps DEF Relist, storeVars
<1>2. CASE Restart
  BY <1>2, RelistKeeps DEF Restart, storeVars
<1>3. CASE ChangeGrants \/ WriteModel \/ WatchModel \/ CacheSynced \/ UNCHANGED vars
           \/ (\E r \in cast.reviews : Begin(r)) \/ Step \/ DiscoveryFails \/ BatchCheckFails
  <2>1. UNCHANGED <<cast, stored, plan, sent, known>>
    BY <1>3 DEF ChangeGrants, WriteModel, WatchModel, CacheSynced, Begin, Step, DiscoveryFails, BatchCheckFails,
                ValidateNamespace, ValidatePermission, BuildCheckRequest, BuildRootResource, BatchCheck, Reply,
                vars, storeVars, watchVars
  <2> QED BY <2>1, KeptWhenUnchanged
<1>4. CASE \E m \in Names : Edit(m) \/ Finalize(m) \/ HandleEvent(m) \/ HandleMove(m)
  BY <1>4, EditKeeps, FinalizeKeeps, HandlersKeep
<1> QED BY <1>1, <1>2, <1>3, <1>4 DEF Next

(* The registries that models are made from have what lasts. *)
LEMMA StoredHasLasting ==
  ASSUME CopiesInv, KeptInv
  PROVE  /\ WithLasting(Active(stored))
         /\ \A m \in Names : (\A n \in DOMAIN Lasting : m # n) =>
                WithLasting(Registry([stored EXCEPT ![m] = Absent]))
<1>1. /\ \A n \in DOMAIN Lasting : /\ n \in Names /\ stored[n] = Lasting[n]
                                   /\ Lasting[n] # Absent /\ ~Lasting[n].deleting
      /\ \A n \in DOMAIN Lasting : \A m \in Names \ {n} :
            stored[m] # Absent => stored[m].type # Lasting[n].type
  <2>1. \A n \in DOMAIN Lasting : n \in Names /\ Lasting[n] # Absent /\ ~Lasting[n].deleting
    BY LastingTypes DEF CopiesInv
  <2>2. \A n \in DOMAIN Lasting : \A m \in Names : stored[m] \in Slot(n, m)
    BY DEF KeptInv
  <2>3. \A n \in DOMAIN Lasting : stored[n] = Lasting[n]
    BY <2>1, <2>2 DEF Slot
  <2>4. \A n \in DOMAIN Lasting : \A m \in Names \ {n} :
            stored[m] # Absent => stored[m].type # Lasting[n].type
    BY <2>2 DEF Slot, Apart
  <2> QED BY <2>1, <2>3, <2>4
<1>2. WithLasting(Active(stored))
  BY <1>1, StoredRegistries DEF WithLasting, Active, Registries
<1>3. ASSUME NEW m \in Names, \A n \in DOMAIN Lasting : m # n
      PROVE  WithLasting(Registry([stored EXCEPT ![m] = Absent]))
  <2> DEFINE st == [stored EXCEPT ![m] = Absent]
  <2>1. \A k \in Names : st[k] = IF k = m THEN Absent ELSE stored[k]
    BY DEF CopiesInv
  <2>2. Registry(st) \in Registries
    BY StoredRegistries DEF Registries
  <2> HIDE DEF st
  <2>3. /\ DOMAIN Registry(st) = {k \in Names : st[k] # Absent}
        /\ \A k \in DOMAIN Registry(st) : Registry(st)[k] = st[k]
    BY DEF Registry
  <2>4. WithLasting(Registry(st))
    BY <1>1, <1>3, <2>1, <2>2, <2>3 DEF WithLasting
  <2> QED BY <2>4 DEF st
<1> QED BY <1>2, <1>3

LEMMA ReconcileHasLasting ==
  ASSUME BoundsInv, ModelsInv, UNCHANGED <<cast, grantPlan>>, NEW reg, WithLasting(reg), ReconcileModel(reg)
  PROVE  ModelsInv' /\ (models # <<>> => models' # <<>>)
<1>1. models \in Seq(Models)
  BY DEF BoundsInv
<1>2. reg \in Registries
  BY DEF WithLasting
<1>3. Accepts(ModelOf(reg)) /\ (models' = models \/ models' = Append(models, ModelOf(reg)))
  BY DEF ReconcileModel
<1> DEFINE Made(x) == \E g \in Registries : WithLasting(g) /\ x = ModelOf(g) /\ Accepts(x)
<1>4. Made(ModelOf(reg))
  BY <1>2, <1>3
<1>5. \A x : Made(x)' <=> Made(x)
  BY LastingStays DEF Registries
<1>6. \A i \in DOMAIN models : Made(models[i])
  BY DEF ModelsInv
<1> HIDE DEF Made
<1>7. \A i \in DOMAIN models' : Made(models'[i])
  <2>1. CASE models' = models
    BY <1>6, <2>1
  <2>2. CASE models' = Append(models, ModelOf(reg))
    <3> DEFINE x == ModelOf(reg)
    <3>1. Made(x) /\ models' = Append(models, x)
      BY <1>4, <2>2
    <3> HIDE DEF x
    <3>2. /\ DOMAIN models' = 1..Len(models) + 1 /\ DOMAIN models = 1..Len(models) /\ Len(models) \in Nat
          /\ models'[Len(models) + 1] = x /\ \A i \in 1..Len(models) : models'[i] = models[i]
      BY <1>1, <3>1
    <3> QED BY <1>6, <3>1, <3>2
  <2> QED BY <1>3, <2>1, <2>2
<1>8. models # <<>> => models' # <<>>
  BY <1>1, <1>3
<1>9. (grantPlan \in Seq({cast.grantPlan[i] : i \in DOMAIN cast.grantPlan}))'
  BY DEF ModelsInv
<1>10. (\A i \in DOMAIN models : Made(models[i]))'
  BY <1>5, <1>7
<1> QED BY <1>8, <1>9, <1>10 DEF ModelsInv, Made

LEMMA GrantsLast ==
  ASSUME ModelsInv, UNCHANGED cast, ChangeGrants \/ UNCHANGED <<grants, grantPlan>>
  PROVE  /\ LastingGrants \subseteq LastingGrants'
         /\ (grantPlan \in Seq({cast.grantPlan[i] : i \in DOMAIN cast.grantPlan}))'
<1> DEFINE G == {cast.grantPlan[i] : i \in DOMAIN cast.grantPlan}
<1>1. grantPlan \in Seq(G)
  BY DEF ModelsInv
<1>2. CASE UNCHANGED <<grants, grantPlan>>
  BY <1>1, <1>2 DEF LastingGrants
<1>3. CASE ChangeGrants
  <2>1. grantPlan # <<>> /\ grants' = Head(grantPlan) /\ grantPlan' = Tail(grantPlan)
    BY <1>3 DEF ChangeGrants
  <2> HIDE DEF G
  <2>2. /\ grantPlan' \in Seq(G) /\ grants' = grantPlan[1] /\ 1 \in DOMAIN grantPlan
        /\ \A i \in DOMAIN grantPlan' : i + 1 \in DOMAIN grantPlan /\ grantPlan'[i] = grantPlan[i + 1]
    BY <1>1, <2>1
  <2>3. LastingGrants \subseteq LastingGrants'
    BY <2>2 DEF LastingGrants
  <2> QED BY <2>2, <2>3 DEF G
<1> QED BY <1>2, <1>3

LEMMA ModelsStep ==
  ASSUME CopiesInv, BoundsInv, KeptInv, ModelsInv, [Next]_vars
  PROVE  ModelsInv' /\ LastingGrants \subseteq LastingGrants' /\ (models # <<>> => models' # <<>>)
<1>1. CASE WriteModel
  <2>1. UNCHANGED <<cast, grants, grantPlan>> /\ ReconcileModel(Active(stored))
    BY <1>1 DEF WriteModel
  <2> QED BY <2>1, StoredHasLasting, ReconcileHasLasting, GrantsLast
<1>2. ASSUME NEW m \in Names, Finalize(m)
      PROVE  ModelsInv' /\ LastingGrants \subseteq LastingGrants' /\ (models # <<>> => models' # <<>>)
  <2>1. UNCHANGED <<cast, grants, grantPlan>> /\ ReconcileModel(Registry([stored EXCEPT ![m] = Absent]))
    BY <1>2 DEF Finalize
  <2>2. WithLasting(Registry([stored EXCEPT ![m] = Absent]))
    BY <1>2, FinalizeKeeps, StoredHasLasting
  <2> QED BY <2>1, <2>2, ReconcileHasLasting, GrantsLast
<1>3. CASE ~WriteModel /\ ~\E m \in Names : Finalize(m)
  <2>1. UNCHANGED <<cast, models>> /\ (ChangeGrants \/ UNCHANGED <<grants, grantPlan>>)
    BY <1>3 DEF Next, Edit, HandleEvent, HandleMove, WatchModel, CacheSynced, Begin, Step, Relist, Restart,
                DiscoveryFails, BatchCheckFails, ValidateNamespace, ValidatePermission, BuildCheckRequest,
                BuildRootResource, BatchCheck, Reply, ChangeGrants, vars, storeVars, watchVars
  <2>2. (\A i \in DOMAIN models : \E reg \in Registries :
            WithLasting(reg) /\ models[i] = ModelOf(reg) /\ Accepts(models[i]))'
    BY <2>1, LastingStays DEF ModelsInv, Registries
  <2> QED BY <2>1, <2>2, GrantsLast DEF ModelsInv
<1> QED BY <1>1, <1>2, <1>3

-----------------------------------------------------------------------------
(* A review that must be allowed.                                           *)

LEMMA DueStays ==
  ASSUME cast' = cast, LastingGrants \subseteq LastingGrants', models # <<>> => models' # <<>>,
         \A n \in DOMAIN Lasting : index'[Lasting[n].key] \in {index[Lasting[n].key], Lasting[n]}
  PROVE  \A r : Due(r) => Due(r)'
<1>1. Lasting' = Lasting
  BY LastingStays
<1>2. \A o : Above(Lasting, o)' = Above(Lasting, o)
  BY <1>1 DEF Above
<1>3. ASSUME NEW r, Entitled(Lasting, LastingGrants, r) PROVE Entitled(Lasting, LastingGrants, r)'
  <2> DEFINE p == <<r.key, IF cast.subresources THEN r.sub ELSE Base, r.verb>>
  <2>1. /\ r.form = "resource" /\ r.user # None /\ OwnNamespace(r)
        /\ \E n \in Live(Lasting) :
              /\ p \in Enumerate(Lasting[n], cast.subresources)
              /\ \E o \in Grounds(Lasting[n].type, r, cast.subresources) :
                    /\ p \in Carried(Lasting, cast.subresources, o[1])
                    /\ \E a \in Above(Lasting, o) : <<r.user, HashPermission(p), a>> \in LastingGrants
    BY <1>3 DEF Entitled
  <2>2. p' = p
    OBVIOUS
  <2> HIDE DEF p
  <2>3. /\ r.form = "resource" /\ r.user # None /\ OwnNamespace(r)
        /\ \E n \in Live(Lasting') :
              /\ p' \in Enumerate(Lasting'[n], cast'.subresources)
              /\ \E o \in Grounds(Lasting'[n].type, r, cast'.subresources) :
                    /\ p' \in Carried(Lasting', cast'.subresources, o[1])
                    /\ \E a \in Above(Lasting, o)' : <<r.user, HashPermission(p'), a>> \in LastingGrants'
    BY <1>1, <1>2, <2>1, <2>2
  <2> QED BY <2>3 DEF Entitled, p
<1> QED BY <1>1, <1>3 DEF Due

(* It finds its registration, and the permission there. *)
LEMMA DueFinds ==
  ASSUME cast \in Casts, NEW r, Due(r)
  PROVE  /\ r.form = "resource" /\ r.user # None /\ OwnNamespace(r) /\ models # <<>>
         /\ PermissionExists(r)
         /\ \E n \in DOMAIN Lasting :
              /\ Lasting[n].key = r.key /\ Lookup(r) = Lasting[n] /\ Lasting[n] # Absent
              /\ \E o \in Grounds(Lasting[n].type, r, cast.subresources) :
                    /\ PermissionOf(r) \in Carried(Lasting, cast.subresources, o[1])
                    /\ \E a \in Above(Lasting, o) : <<r.user, HashPermission(PermissionOf(r)), a>> \in grants
<1> DEFINE p == PermissionOf(r)
<1>1. r.form = "resource" /\ r.user # None /\ OwnNamespace(r) /\ models # <<>>
  BY DEF Due, Entitled
<1>2. PICK n \in DOMAIN Lasting :
              /\ p \in Enumerate(Lasting[n], cast.subresources)
              /\ \E o \in Grounds(Lasting[n].type, r, cast.subresources) :
                    /\ p \in Carried(Lasting, cast.subresources, o[1])
                    /\ \E a \in Above(Lasting, o) : <<r.user, HashPermission(p), a>> \in LastingGrants
  <2>1. Live(Lasting) = DOMAIN Lasting
    BY LastingTypes
  <2> QED BY <2>1 DEF Due, Entitled, PermissionOf
<1>3. Lasting[n] \in Registration /\ Lasting[n] # Absent /\ ~Lasting[n].deleting
  BY LastingTypes
<1>4. PICK q \in Lasting[n].perms : (q[1] = Base \/ cast.subresources) /\ p = <<Lasting[n].key, q[1], q[2]>>
  BY <1>2 DEF Enumerate
<1>5. q = <<q[1], q[2]>>
  BY <1>3, <1>4 DEF Registration
<1>6. /\ Lasting[n].key = r.key /\ q[2] = r.verb
      /\ q[1] = IF cast.subresources THEN r.sub ELSE Base
  BY <1>4 DEF PermissionOf
<1>7. Lookup(r) = Lasting[n]
  BY <1>1, <1>6 DEF Due, Lookup
<1>8. PermissionExists(r)
  <2>1. <<IF cast.subresources THEN r.sub ELSE Base, r.verb>> \in Lasting[n].perms
    BY <1>4, <1>5, <1>6
  <2> QED BY <1>3, <1>7, <2>1 DEF PermissionExists
<1>9. LastingGrants \subseteq grants
  BY DEF LastingGrants
<1> HIDE DEF p
<1>10. \E o \in Grounds(Lasting[n].type, r, cast.subresources) :
          /\ p \in Carried(Lasting, cast.subresources, o[1])
          /\ \E a \in Above(Lasting, o) : <<r.user, HashPermission(p), a>> \in grants
  BY <1>2, <1>9
<1> QED BY <1>1, <1>3, <1>6, <1>7, <1>8, <1>10 DEF p

(* What its batch has in it is enough. *)
LEMMA DueChecks ==
  ASSUME AuthorizerInv, LastingInv, req.pc = "check", req.due
  PROVE  \E o \in CheckItems : Check(CurrentModel(req.pin), req.review.user,
                                     HashPermission(PermissionOf(req.review)), o)
<1> DEFINE r == req.review
<1>1. Due(r) /\ cast \in Casts
  BY DEF AuthorizerInv, CopiesInv, LastingInv, DueInv
<1>2. PICK n \in DOMAIN Lasting :
              /\ Lasting[n].key = r.key /\ Lookup(r) = Lasting[n]
              /\ \E o \in Grounds(Lasting[n].type, r, cast.subresources) :
                    /\ PermissionOf(r) \in Carried(Lasting, cast.subresources, o[1])
                    /\ \E a \in Above(Lasting, o) : <<r.user, HashPermission(PermissionOf(r)), a>> \in grants
  <2> HIDE DEF r
  <2> QED BY <1>1, DueFinds
<1>3. PICK o \in Grounds(Lasting[n].type, r, cast.subresources) :
                    /\ PermissionOf(r) \in Carried(Lasting, cast.subresources, o[1])
                    /\ \E a \in Above(Lasting, o) : <<r.user, HashPermission(PermissionOf(r)), a>> \in grants
  BY <1>2
<1>4. req.object = ResourceObject(Lasting[n], r) /\ req.root = <<Root, Lasting[n].type>>
  BY <1>2 DEF LastingInv, DueInv
<1>5. o \in CheckItems
  BY <1>3, <1>4 DEF CheckItems, Grounds, ResourceObject, IsNamedSubresource, IsCollectionOp
<1>6. PICK i \in DOMAIN models : CurrentModel(req.pin) = models[i]
  <2>1. models \in Seq(Models) /\ req.pin \in 0..Len(models)
    BY DEF AuthorizerInv, BoundsInv
  <2>2. models # <<>>
    BY <1>1 DEF Due
  <2>3. Len(models) \in Nat \ {0} /\ DOMAIN models = 1..Len(models)
    BY <2>1, <2>2
  <2> QED BY <2>1, <2>3 DEF CurrentModel
<1>7. PICK reg \in Registries : WithLasting(reg) /\ models[i] = ModelOf(reg) /\ Accepts(ModelOf(reg))
  BY DEF LastingInv, ModelsInv
<1> DEFINE p == PermissionOf(r)
           user == r.user
<1>8. p \in Carried(Lasting, cast.subresources, o[1]) /\ \E a \in Above(Lasting, o) : <<user, HashPermission(p), a>> \in grants
  BY <1>3
<1> HIDE DEF p, r, user
<1>9. Check(ModelOf(reg), user, HashPermission(p), o)
  BY <1>1, <1>7, <1>8, GrantIsChecked
<1> QED BY <1>5, <1>6, <1>7, <1>9 DEF p, r, user

(* Steps that leave the review alone. *)
LEMMA DueElsewhere ==
  ASSUME AuthorizerInv, LastingInv, [Next]_vars, req' = req, ~Restart
  PROVE  DueInv'
<1> USE DEF AuthorizerInv, LastingInv
<1>1. LastingGrants \subseteq LastingGrants' /\ (models # <<>> => models' # <<>>)
  BY ModelsStep
<1>2. cast' = cast
  BY DEF Next, Edit, Finalize, HandleEvent, HandleMove, WatchModel, CacheSynced, Begin, Step, Relist, WriteModel,
         DiscoveryFails, BatchCheckFails, ValidateNamespace, ValidatePermission, BuildCheckRequest,
         BuildRootResource, BatchCheck, Reply, ChangeGrants, vars, storeVars, watchVars
<1>3. \A n \in DOMAIN Lasting : index'[Lasting[n].key] \in {index[Lasting[n].key], Lasting[n]}
  <2>1. CASE \E m \in Names : HandleEvent(m) \/ HandleMove(m)
    BY <2>1, HandlersKeep
  <2>2. CASE UNCHANGED index
    BY <2>2
  <2> QED
    BY <2>1, <2>2
       DEF Next, Edit, Finalize, WatchModel, CacheSynced, Begin, Step, Relist, WriteModel,
           DiscoveryFails, BatchCheckFails, ValidateNamespace, ValidatePermission, BuildCheckRequest,
           BuildRootResource, BatchCheck, Reply, ChangeGrants, vars, storeVars, watchVars
<1>4. \A r : Due(r) => Due(r)'
  BY <1>1, <1>2, <1>3, DueStays
<1>5. Lasting' = Lasting /\ \A pr, r : ResourceObject(pr, r)' = ResourceObject(pr, r)
  BY <1>2, LastingStays DEF ResourceObject, IsNamedSubresource
<1> QED BY <1>4, <1>5 DEF DueInv

(* Steps of a review change nothing that it rests on. *)
LEMMA DueWithin ==
  ASSUME UNCHANGED <<cast, storeVars, watchVars>>
  PROVE  /\ \A r : Due(r) => Due(r)'
         /\ Lasting' = Lasting /\ \A pr, r : ResourceObject(pr, r)' = ResourceObject(pr, r)
<1>1. UNCHANGED <<cast, models, grants, grantPlan, index>>
  BY DEF storeVars, watchVars
<1>2. LastingGrants' = LastingGrants
  BY <1>1 DEF LastingGrants
<1>3. \A r : Due(r) => Due(r)'
  BY <1>1, <1>2, DueStays
<1> QED BY <1>1, <1>3, LastingStays DEF ResourceObject, IsNamedSubresource

LEMMA DueBegins ==
  ASSUME AuthorizerInv, NEW r \in cast.reviews, Begin(r)
  PROVE  DueInv'
<1> DEFINE new == [Idle EXCEPT !.review = r, !.due = Due(r)]
<1>0. Due(r) \in BOOLEAN
  BY Zenon DEF Due
<1>1. new \in Request /\ new.review = r /\ new.due = Due(r)
  <2> HIDE DEF Due
  <2> QED BY <1>0, IdleIsRequest DEF Request, Idle
<1>2. UNCHANGED <<cast, storeVars, watchVars>>
  BY DEF Begin
<1> HIDE DEF new
<1>p. PICK pc \in {"answered", "namespace"}, a \in {"", "denied", "errored"} :
        req' = [new EXCEPT !.pc = pc, !.answer = a]
  BY DEF Begin, new, Idle
<1>3. req'.review = r /\ req'.due = Due(r)
  <2> HIDE DEF Due
  <2> QED BY <1>1, <1>p DEF Request
<1>4. CASE ~Due(r)
  BY <1>3, <1>4 DEF DueInv
<1>5. CASE Due(r)
  <2>1. r.form = "resource" /\ r.user # None
    BY <1>5 DEF Due, Entitled
  <2>2. req' = [new EXCEPT !.pc = "namespace"]
    BY <2>1 DEF Begin, Decodes, HasUser, new
  <2>3. req'.pc = "namespace"
    BY <1>1, <2>2 DEF Request
  <2>4. Due(r)'
    BY <1>2, <1>5, DueWithin
  <2>5. Due(req.review)'
    BY <1>3, <2>4
  <2> QED BY <2>3, <2>5 DEF DueInv
<1> QED BY <1>4, <1>5

LEMMA DueSteps ==
  ASSUME AuthorizerInv, LastingInv, UNCHANGED <<cast, storeVars, watchVars>>,
         \/ ValidateNamespace \/ ValidatePermission \/ BuildCheckRequest \/ BuildRootResource
         \/ BatchCheck \/ DiscoveryFails \/ BatchCheckFails
  PROVE  DueInv'
<1> DEFINE r == req.review
<1>r. req \in Request /\ cast \in Casts
  BY DEF AuthorizerInv, ReviewInv, CopiesInv
<1>1. req.pc # "idle" /\ req.pc # "answered"
  BY DEF ValidateNamespace, ValidatePermission, BuildCheckRequest, BuildRootResource, BatchCheck,
         DiscoveryFails, BatchCheckFails
<1>2. req'.review = r /\ req'.due = req.due
  BY <1>r DEF Request, ValidateNamespace, ValidatePermission, BuildCheckRequest, BuildRootResource, BatchCheck,
         DiscoveryFails, BatchCheckFails, Fails, Go, Answer
<1>3. SUFFICES ASSUME req.due PROVE DueInv'
  BY <1>2 DEF DueInv
<1>4. Due(r)
  BY <1>1, <1>3 DEF LastingInv, DueInv
<1>5. Due(req.review)'
  BY <1>2, <1>4, DueWithin
<1>6. /\ r.form = "resource" /\ r.user # None /\ OwnNamespace(r) /\ models # <<>>
      /\ PermissionExists(r)
  <2> HIDE DEF r
  <2> QED BY <1>r, <1>4, DueFinds
<1>7. Lookup(r) # Absent /\ \A n \in DOMAIN Lasting : Lasting[n].key = r.key => Lookup(r) = Lasting[n]
  BY <1>4, <1>6 DEF PermissionExists, Due, Lookup
<1>8. Lasting' = Lasting /\ \A pr, s : ResourceObject(pr, s)' = ResourceObject(pr, s)
  BY DueWithin
<1>9. CASE ValidateNamespace
  <2>2. Go("permission")
    <3>1. r.parent # None /\ r.parent[1] = Organization => r.ns = "own" \/ (r.ns = "" /\ r.key \notin Namespaced)
      BY <1>6 DEF OwnNamespace
    <3> QED BY <1>9, <3>1 DEF ValidateNamespace, IsOrganizationScope
  <2>3. req'.pc = "permission"
    BY <1>r, <2>2 DEF Go, Request
  <2> QED BY <1>5, <2>3 DEF DueInv
<1>10. CASE ValidatePermission
  <2>1. Go("object")
    BY <1>6, <1>10 DEF ValidatePermission
  <2>2. req'.pc = "object"
    BY <1>r, <2>1 DEF Go, Request
  <2> QED BY <1>5, <2>2 DEF DueInv
<1>11. CASE BuildCheckRequest
  <2>1. req' = [req EXCEPT !.pc = "root", !.object = ResourceObject(Lookup(r), r), !.pin = modelID]
    BY <1>7, <1>11 DEF BuildCheckRequest
  <2>2. req'.pc = "root" /\ req'.object = ResourceObject(Lookup(r), r)
    BY <1>r, <2>1 DEF Request
  <2>3. \A n \in DOMAIN Lasting : Lasting[n].key = r.key => req'.object = ResourceObject(Lasting[n], r)
    BY <1>7, <2>2
  <2>4. \A n \in DOMAIN Lasting' : Lasting'[n].key = req'.review.key =>
            (req.object = ResourceObject(Lasting[n], req.review))'
    BY <1>2, <1>8, <2>3
  <2> QED BY <1>5, <2>2, <2>4 DEF DueInv
<1>12. CASE BuildRootResource
  <2>1. req.pc = "root" /\ req' = [req EXCEPT !.pc = "check", !.root = <<Root, Lookup(r).type>>]
    BY <1>7, <1>12 DEF BuildRootResource
  <2>2. req'.pc = "check" /\ req'.root = <<Root, Lookup(r).type>> /\ req'.object = req.object
    BY <1>r, <2>1 DEF Request
  <2>3. \A n \in DOMAIN Lasting : Lasting[n].key = r.key =>
            req.object = ResourceObject(Lasting[n], r) /\ req'.root = <<Root, Lasting[n].type>>
    BY <1>3, <1>7, <2>1, <2>2 DEF LastingInv, DueInv
  <2>4. \A n \in DOMAIN Lasting' : Lasting'[n].key = req'.review.key =>
            /\ (req.object = ResourceObject(Lasting[n], req.review))'
            /\ req'.root = <<Root, Lasting'[n].type>>
    BY <1>2, <1>8, <2>2, <2>3
  <2> QED BY <1>5, <2>2, <2>4 DEF DueInv
<1>13. CASE BatchCheck
  <2>1. req.pc = "check"
    BY <1>13 DEF BatchCheck
  <2>2. Answer("allowed")
    BY <1>3, <1>6, <1>13, <2>1, DueChecks DEF BatchCheck
  <2>3. req'.pc = "answered" /\ req'.answer = "allowed"
    BY <1>r, <2>2 DEF Answer, Request
  <2> QED BY <1>5, <2>3 DEF DueInv
<1>14. CASE DiscoveryFails \/ BatchCheckFails
  <2>1. req'.pc = "answered" /\ req'.failed
    BY <1>r, <1>14 DEF DiscoveryFails, BatchCheckFails, Fails, Request
  <2> QED BY <1>5, <2>1 DEF DueInv
<1> QED BY <1>9, <1>10, <1>11, <1>12, <1>13, <1>14

LEMMA LastingInductive ==
  ASSUME AuthorizerInv, LastingInv, [Next]_vars
  PROVE  LastingInv'
<1>1. KeptInv' /\ ModelsInv'
  BY KeptStep, ModelsStep DEF AuthorizerInv, LastingInv
<1>2. CASE req' = Idle
  <2>1. Idle.pc = "idle"
    BY DEF Idle
  <2>2. DueInv'
    BY <1>2, <2>1 DEF DueInv
  <2> QED BY <1>1, <2>2 DEF LastingInv
<1>3. CASE req' = req /\ ~Restart
  BY <1>1, <1>3, DueElsewhere DEF LastingInv
<1>4. ASSUME NEW r \in cast.reviews, Begin(r) PROVE LastingInv'
  BY <1>1, <1>4, DueBegins DEF LastingInv
<1>5. CASE \/ ValidateNamespace \/ ValidatePermission \/ BuildCheckRequest \/ BuildRootResource
           \/ BatchCheck \/ DiscoveryFails \/ BatchCheckFails
  <2>1. UNCHANGED <<cast, storeVars, watchVars>>
    BY <1>5 DEF ValidateNamespace, ValidatePermission, BuildCheckRequest, BuildRootResource, BatchCheck,
                DiscoveryFails, BatchCheckFails
  <2> QED BY <1>1, <1>5, <2>1, DueSteps DEF LastingInv
<1>6. req' = req \/ req' = Idle \/ (\E r \in cast.reviews : Begin(r))
        \/ ValidateNamespace \/ ValidatePermission \/ BuildCheckRequest \/ BuildRootResource
        \/ BatchCheck \/ DiscoveryFails \/ BatchCheckFails
  BY DEF Next, Edit, Finalize, HandleEvent, HandleMove, WatchModel, CacheSynced, Step, Relist, Restart, WriteModel,
         Reply, ChangeGrants, vars
<1>7. Restart => req' = Idle
  BY DEF Restart
<1> QED BY <1>2, <1>3, <1>4, <1>5, <1>6, <1>7

-----------------------------------------------------------------------------
(* Theorems.                                                                *)

(* Every copy of a registration in the webhook stems from one that was         *)
(* registered and is indexed under its own key, and what a review at work has  *)
(* built so far is about the resource it asks for, however registrations,      *)
(* models, relists and restarts fall between its steps (Authorize,             *)
(* ProtectedResourceCache).                                                    *)
THEOREM ReviewInvariant == Spec => []AuthorizerInv
<1>1. Init => AuthorizerInv
  BY AtStart
<1>2. AuthorizerInv /\ [Next]_vars => AuthorizerInv'
  BY AuthorizerInductive
<1> QED BY <1>1, <1>2, PTL DEF Spec

(* The types of what the API server, the handlers, the index and a review at   *)
(* work have (protectedresource_cache.go, subjectaccessreview_authorizer.go).  *)
THEOREM TypeCorrect == Spec => []TypeOK
BY ReviewInvariant, InvImpliesType, PTL

(* Whatever is registered, pinned and granted, a review is allowed only when   *)
(* the user has a grant of exactly the permission asked for on the instance,   *)
(* the scope, one of their kinds or an owner of those, and a review in an      *)
(* organization's scope only in that organization's namespace (Authorize,      *)
(* executeBatchCheck).                                                         *)
THEOREM AllowsAreJustified == Spec => AllowJustified
<1> DEFINE p(r) == <<r.key, IF cast.subresources THEN r.sub ELSE Base, r.verb>>
           Reason(r) ==
                /\ OwnNamespace(r)
                /\ \E t \in TypesAt(r.key) : \E o \in Grounds(t, r, cast.subresources) :
                   \E a \in Owners(o) : <<r.user, HashPermission(p(r)), a>> \in grants
<1>1. ASSUME AuthorizerInv, [Next]_vars, req.answer # "allowed", req'.answer = "allowed"
      PROVE  Reason(req.review)
  <2> USE DEF AuthorizerInv
  <2>r. req \in Request
    BY <1>1 DEF ReviewInv
  <2>1. req' # req
    BY <1>1
  <2>2. ASSUME NEW a, Answer(a) PROVE a = "allowed"
    BY <1>1, <2>r, <2>2 DEF Answer, Request
  <2>3. ASSUME NEW pc, Go(pc) PROVE FALSE
    BY <1>1, <2>r, <2>3 DEF Go, Request
  <2>4. req' # Idle
    <3>1. Idle.answer # "allowed"
      BY DEF Idle
    <3> QED BY <1>1, <3>1
  <2>5. ~Fails
    BY <1>1, <2>r DEF Fails, Request
  <2>6. ~\E r \in cast.reviews : Begin(r)
    BY <1>1 DEF Begin, Idle
  <2>7. ~BuildCheckRequest /\ ~BuildRootResource
    BY <1>1, <2>r, <2>2 DEF BuildCheckRequest, BuildRootResource, Request
  <2>8. ~ValidateNamespace /\ ~ValidatePermission
    BY <2>2, <2>3 DEF ValidateNamespace, ValidatePermission
  <2>9. BatchCheck
    BY <1>1, <2>1, <2>4, <2>5, <2>6, <2>7, <2>8
       DEF Next, vars, storeVars, watchVars, Edit, Finalize, HandleEvent, HandleMove, ChangeGrants,
           WriteModel, WatchModel, CacheSynced, Step, Reply, DiscoveryFails, BatchCheckFails, Relist, Restart
  <2> DEFINE r == req.review
             m == CurrentModel(req.pin)
             h == HashPermission(PermissionOf(r))
  <2>10. req.pc = "check" /\ \E o \in CheckItems : Check(m, r.user, h, o)
    BY <2>2, <2>9 DEF BatchCheck
  <2>11. PICK o \in CheckItems : Check(m, r.user, h, o)
    BY <2>10
  <2>12. cast \in Casts
    BY <1>1 DEF CopiesInv
  <2>13. \E a \in Owners(o) : <<r.user, h, a>> \in grants
    <3> HIDE DEF m, h, r
    <3> QED BY <2>11, <2>12, CheckIsGranted
  <2>14. OwnNamespace(r) /\ req.object \in Targets(r) /\ \E t \in TypesAt(r.key) : req.root = <<Root, t>>
    BY <1>1, <2>10 DEF ReviewInv
  <2>15. \E t \in TypesAt(r.key) : o \in Grounds(t, r, cast.subresources)
    BY <2>14 DEF CheckItems, Targets, Grounds
  <2>16. h = HashPermission(p(r))
    BY DEF PermissionOf
  <2> QED BY <2>13, <2>14, <2>15, <2>16
<1>2. AuthorizerInv /\ [Next]_vars =>
        [req.answer # "allowed" /\ req'.answer = "allowed" => Reason(req.review)]_vars
  BY <1>1
<1> QED BY <1>2, ReviewInvariant, PTL DEF Spec, AllowJustified, Reason, p

(* A grant that stays, of a permission that stays registered, on the object,   *)
(* on a parent at any distance or on a kind, is honoured whatever else changes *)
(* under the review, and with whatever model it has pinned: only a failed call *)
(* keeps it from being allowed (Authorize, calculateHierarchicalPermissions).  *)
THEOREM LastingGrantsHonoured == Spec => []LastingGrantHonoured
<1>1. AuthorizerInv /\ LastingInv /\ [Next]_vars => LastingInv'
  BY LastingInductive
<1>2. Init => LastingInv
  BY LastingAtStart
<1>3. LastingInv => LastingGrantHonoured
  BY DEF LastingInv, DueInv, LastingGrantHonoured
<1> QED BY <1>1, <1>2, <1>3, ReviewInvariant, PTL DEF Spec

(* Whatever is registered, the graph builds exactly when no type that hangs    *)
(* from a root lies below itself, and the model then has exactly the types     *)
(* that hang from a root, each with exactly the permissions of the types below *)
(* it, which its parents have as well (getResourceGraphNode,                   *)
(* calculateHierarchicalPermissions).                                          *)
THEOREM HierarchiesAreClosures == Spec => []HierarchyIsClosure
<1>1. ASSUME AuthorizerInv PROVE HierarchyIsClosure
  <2> DEFINE reg == Registry(stored)
  <2>1. reg \in Registries
    <3>1. stored \in [Names -> Registration \cup {Absent}]
      BY <1>1 DEF AuthorizerInv, CopiesInv, Stems
    <3> QED BY <3>1, StoredRegistry
  <2>2. Builds(reg) <=> \A t \in Hung(reg) : t \notin Below(reg, Children(reg, t))
    BY <2>1, BuildsWithoutCycle DEF OnCycle
  <2> HIDE DEF reg
  <2> QED BY <2>1, <2>2, ModelIsClosure DEF HierarchyIsClosure, Hung, reg
<1> QED BY <1>1, ReviewInvariant, PTL

=============================================================================
