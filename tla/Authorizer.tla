----------------------------- MODULE Authorizer -----------------------------
(***************************************************************************)
(* How a SubjectAccessReview is answered: the webhook of internal/webhook   *)
(* (webhook.go, subjectaccessreview_authorizer.go), its index of            *)
(* ProtectedResources (protectedresource_cache.go) and the model it pins    *)
(* its checks to, against the model the manager writes (ResourceGraph) and  *)
(* the tuples of OpenFGA.                                                   *)
(*                                                                          *)
(* Reviews share nothing they write, so one at a time is enough; while it   *)
(* runs, registrations change, the index and the model follow, and grants   *)
(* come and go. Who writes the tuples is the subject of TargetHold and      *)
(* PolicyBindings, how a model is rolled out that of ModelRollout.          *)
(***************************************************************************)
EXTENDS ResourceGraph, Sequences

CONSTANTS
    Names,          \* of ProtectedResources: numbers
    Absent,         \* no ProtectedResource
    Organization,   \* the type whose scope is a namespace
    Namespaced,     \* keys of resources that live in namespaces
    None,           \* no user ID, name or parent
    Casts,          \* how behaviours start and what happens to them, one choice each
    MaxFaults       \* bound: failed calls, relists and restarts together

(* A review: what form it has, and the attributes of a resource request. A     *)
(* parent is an object; the namespace is none, the one of the organization     *)
(* that is the parent, or another. The group of core/v1 is already replaced by *)
(* the service name that stands for it.                                        *)
IsReview(r) ==
    /\ r.form \in {"resource", "path", "both", "selector", "garbled"}
    /\ r.key \in Keys /\ r.sub \in Subs \cup {Base} /\ r.ns \in {"", "own", "other"}

Version == {v \in Registration : ~v.deleting} \cup {Absent}

ASSUME CastTypes ==
    \A c \in Casts :
        /\ c.from \in [Names -> Version] /\ c.plan \in [Names -> Seq(Version)]
        /\ \A r \in c.reviews : IsReview(r)
        /\ c.subresources \in BOOLEAN /\ c.faults \in 0..MaxFaults
        /\ c.grantPlan \in Seq({c.grantPlan[i] : i \in DOMAIN c.grantPlan})
ASSUME BoundTypes == Names \subseteq Nat /\ MaxFaults \in Nat
(* Names are finitely many: of some of them, one is the greatest. *)
ASSUME NamesFinite ==
    \A S \in (SUBSET Names) \ {{}} : \E n \in S : \A m \in S : m <= n
ASSUME AbsentIsNone == Absent \notin Registration
(* Parent tuples lead from objects to what owns them, and never back. *)
ASSUME OwnersAbove ==
    \A c \in Casts : \A S \in (SUBSET {e[1] : e \in c.parents}) \ {{}} :
        \E o \in S : \A e \in c.parents : e[1] = o => e[2] \notin S

VARIABLES
    cast,           \* the choice made: the flag, the parent tuples and the reviews stay
    stored,         \* the ProtectedResources the API server has
    plan,           \* what users will still do to them
    models,         \* the authorization models OpenFGA has, oldest first
    grants,         \* tuples <<user, relation, object>> it has
    grantPlan,      \* the sets of them still to come
    sent,           \* for each name, versions the webhook's handlers have not seen
    known,          \* the last version they saw
    index,          \* ProtectedResourceCache.index
    modelID,        \* the number of the model the webhook pins, 0 before it knows one
    ready,          \* the readiness probe passes
    req,            \* the review at work
    faults          \* how many faults may still happen

vars == <<cast, stored, plan, models, grants, grantPlan, sent, known, index, modelID, ready, req, faults>>
storeVars == <<stored, plan, models, grants, grantPlan>>
watchVars == <<sent, known, index, modelID, ready>>

(* The registrations as a list has them, and without those being deleted. *)
Registry(st) == [n \in {m \in Names : st[m] # Absent} |-> st[n]]
Active(st) == [n \in {m \in Names : st[m] # Absent /\ ~st[m].deleting} |-> st[n]]
ModelOf(reg) == ExpectedModel(reg, cast.subresources)

Idle == [pc |-> "idle", review |-> None, object |-> None, root |-> None, pin |-> 0,
         answer |-> "", due |-> FALSE, failed |-> FALSE]

(* The webhook has been up for a while; Restart is how it comes up. *)
Init ==
    \E c \in Casts :
        /\ cast = c /\ stored = c.from /\ plan = c.plan
        /\ models = <<>> /\ grants = c.grants /\ grantPlan = c.grantPlan
        /\ sent = [n \in Names |-> <<>>] /\ known = stored
        /\ index = [k \in Keys |->
                LET of == {n \in Names : c.from[n] # Absent /\ c.from[n].key = k}
                IN  IF of = {} THEN Absent ELSE c.from[Max(of)]]
        /\ modelID = 0 /\ ready = TRUE /\ req = Idle /\ faults = c.faults

----------------------------------------------------------------------------
(* Registrations, models and tuples.                                        *)

Store(n, v) ==
    /\ stored' = [stored EXCEPT ![n] = v]
    /\ sent' = [sent EXCEPT ![n] = Append(@, v)]

(* A user creates or edits the registration, or deletes it: it stays while it  *)
(* has the manager's finalizer, and goes at once when that is not there yet.   *)
Edit(n) ==
    /\ plan[n] # <<>>
    /\ stored[n] # Absent => ~stored[n].deleting
    /\ plan' = [plan EXCEPT ![n] = Tail(@)]
    /\ LET v == Head(plan[n]) IN
       \/ v # Absent /\ Store(n, v)
       \/ v = Absent /\ stored[n] # Absent /\ Store(n, [stored[n] EXCEPT !.deleting = TRUE])
       \/ v = Absent /\ stored[n] # Absent /\ Store(n, Absent)
    /\ UNCHANGED <<cast, models, grants, grantPlan, known, index, modelID, ready, req, faults>>

ChangeGrants ==
    /\ grantPlan # <<>>
    /\ grants' = Head(grantPlan) /\ grantPlan' = Tail(grantPlan)
    /\ UNCHANGED <<cast, stored, plan, models, watchVars, req, faults>>

(* ReconcileAuthorizationModel: nothing is written when the graph does not     *)
(* build, when OpenFGA refuses the model, and when it has it already.          *)
ReconcileModel(reg) ==
    /\ Builds(reg)
    /\ \E model \in {ModelOf(reg)} :
        /\ Accepts(model)
        /\ models' = IF models # <<>> /\ models[Len(models)] = model THEN models
                     ELSE Append(models, model)

WriteModel ==
    /\ \E reg \in {Active(stored)} : ReconcileModel(reg)
    /\ models' # models
    /\ UNCHANGED <<cast, stored, plan, grants, grantPlan, watchVars, req, faults>>

(* The finalizer: a model without the registration first, then it may go. *)
Finalize(n) ==
    /\ stored[n] # Absent /\ stored[n].deleting
    /\ \E reg \in {Registry([stored EXCEPT ![n] = Absent])} : ReconcileModel(reg)
    /\ Store(n, Absent)
    /\ UNCHANGED <<cast, plan, grants, grantPlan, known, index, modelID, ready, req, faults>>

----------------------------------------------------------------------------
(* What the webhook watches.                                                *)

(* UpdateFunc when an update that keeps the key is taken for no change. *)
OnUpdateLazy(n, v) ==
    /\ known[n] # Absent /\ v # Absent /\ known[n].key = v.key
    /\ UNCHANGED index

(* The informer's handlers, one event of a registration after the other; the   *)
(* order between registrations is open. AddFunc and UpdateFunc put the version *)
(* under its key, ... *)
OnUpdate(n, v) ==
    /\ known[n] # Absent /\ v # Absent /\ known[n].key = v.key
    /\ index' = [index EXCEPT ![v.key] = v]

OnAdd(n, v) ==
    /\ known[n] = Absent /\ v # Absent
    /\ index' = [index EXCEPT ![v.key] = v]

(* ... DeleteFunc empties the key, whoever put something there, ... *)
OnDelete(n, v) ==
    /\ known[n] # Absent /\ v = Absent
    /\ index' = [index EXCEPT ![known[n].key] = Absent]

HandleEvent(n) ==
    /\ sent[n] # <<>>
    /\ LET v == Head(sent[n]) IN
       /\ OnAdd(n, v) \/ OnUpdate(n, v) \/ OnDelete(n, v)
       /\ known' = [known EXCEPT ![n] = v]
    /\ sent' = [sent EXCEPT ![n] = Tail(@)]
    /\ UNCHANGED <<cast, storeVars, modelID, ready, req, faults>>

(* ... and UpdateFunc empties the old key first when the key has changed, under *)
(* a lock of its own; what is left to do is what AddFunc does.                  *)
HandleMove(n) ==
    /\ sent[n] # <<>> /\ known[n] # Absent
    /\ Head(sent[n]) # Absent /\ Head(sent[n]).key # known[n].key
    /\ index' = [index EXCEPT ![known[n].key] = Absent]
    /\ known' = [known EXCEPT ![n] = Absent]
    /\ UNCHANGED <<cast, storeVars, sent, modelID, ready, req, faults>>

(* The watch breaks: the next list shows the last versions only. *)
Relist ==
    /\ faults > 0 /\ faults' = faults - 1
    /\ \E n \in Names : Len(sent[n]) > 1
    /\ sent' = [n \in Names |->
            IF sent[n] = <<>> \/ (known[n] = Absent /\ stored[n] = Absent) THEN <<>>
            ELSE <<stored[n]>>]
    /\ UNCHANGED <<cast, storeVars, known, index, modelID, ready, req>>

(* The informer says it has the first list. Handlers may still be at it. *)
CacheSynced ==
    /\ ~ready /\ ready' = TRUE
    /\ UNCHANGED <<cast, storeVars, sent, known, index, modelID, req, faults>>

(* The watcher takes a number that does not exist yet. *)
WatchModelAhead ==
    /\ modelID' = modelID + 1 /\ modelID' <= Len(models) + 1
    /\ UNCHANGED <<cast, storeVars, sent, known, index, ready, req, faults>>

(* AuthorizationModelIDWatcher: the ConfigMap names a newer model. *)
WatchModel ==
    /\ \E id \in modelID + 1 .. Len(models) : modelID' = id
    /\ UNCHANGED <<cast, storeVars, sent, known, index, ready, req, faults>>

Restart ==
    /\ faults > 0 /\ faults' = faults - 1
    /\ sent' = [n \in Names |-> IF stored[n] = Absent THEN <<>> ELSE <<stored[n]>>]
    /\ known' = [n \in Names |-> Absent] /\ index' = [k \in Keys |-> Absent]
    /\ modelID' = 0 /\ ready' = FALSE /\ req' = Idle
    /\ UNCHANGED <<cast, storeVars>>

----------------------------------------------------------------------------
(* What a grant covers, said of the registrations and not of a model. It is *)
(* what the answers are compared with; the code has no such function.       *)

(* The objects from which the tuples of declared parents lead to o. *)
Above(reg, o) ==
    LET up == {e \in cast.parents :
                 e[1][1] \in RegisteredTypes(reg) /\ e[2][1] \in ParentsOf(SpecOf(reg, e[1][1]))}
        objects == {o} \cup {e[2] : e \in up}
    IN  {a \in objects : \A S \in SUBSET objects :
            o \in S /\ (\A e \in up : e[1] \in S => e[2] \in S) => a \in S}

(* Where a grant of the permission may be, for a review of a resource of type  *)
(* t: the instance, unless the review is about a collection, the scope, and    *)
(* the kinds of both.                                                          *)
Grounds(t, r, subresources) ==
    {<<Root, t>>}
    \cup (IF r.name # None /\ (r.verb \notin {"list", "create", "watch"} \/ (subresources /\ r.sub # Base))
          THEN {<<t, r.name>>} ELSE {})
    \cup (IF r.parent # None THEN {r.parent, <<Root, r.parent[1]>>} ELSE {})

OwnNamespace(r) ==
    r.parent # None /\ r.parent[1] = Organization =>
        r.ns = "own" \/ (r.ns = "" /\ r.key \notin Namespaced)

(* The user may do what the review asks: the permission is registered, and the *)
(* user has it on one of the grounds or above.                                 *)
Entitled(reg, gs, r) ==
    LET p == <<r.key, IF cast.subresources THEN r.sub ELSE Base, r.verb>>
    IN  /\ r.form = "resource" /\ r.user # None /\ OwnNamespace(r)
        /\ \E n \in Live(reg) :
              /\ p \in Enumerate(reg[n], cast.subresources)
              /\ \E o \in Grounds(reg[n].type, r, cast.subresources) :
                    /\ p \in Carried(reg, cast.subresources, o[1])
                    /\ \E a \in Above(reg, o) : <<r.user, HashPermission(p), a>> \in gs

(* The registrations nobody touches, now or later, and that share neither type *)
(* nor key with another; and the grants that stay.                             *)
Others(n) == {v \in UNION {{cast.from[m]} \cup {cast.plan[m][i] : i \in DOMAIN cast.plan[m]} :
                            m \in Names \ {n}} : v # Absent}
Lasting ==
    [n \in {m \in Names : /\ cast.from[m] # Absent /\ cast.plan[m] = <<>>
                          /\ \A v \in Others(m) : v.type # cast.from[m].type /\ v.key # cast.from[m].key}
        |-> cast.from[n]]

LastingGrants == {g \in grants : \A i \in DOMAIN grantPlan : g \in grantPlan[i]}

(* The review must be allowed: what lasts is enough for it, and the webhook    *)
(* knows of it already.                                                        *)
Due(r) ==
    /\ models # <<>> /\ Entitled(Lasting, LastingGrants, r)
    /\ \A n \in DOMAIN Lasting : Lasting[n].key = r.key => index[r.key] = Lasting[n]

----------------------------------------------------------------------------
(* The review.                                                              *)

Answer(a) == req' = [req EXCEPT !.pc = "answered", !.answer = a]
Go(pc) == req' = [req EXCEPT !.pc = pc]
Fails ==
    /\ faults > 0 /\ faults' = faults - 1
    /\ req' = [req EXCEPT !.pc = "answered", !.answer = "errored", !.failed = TRUE]

(* ServeHTTP: the body is there, is JSON and is a SubjectAccessReview. *)
Decodes(r) == r.form # "garbled"

(* buildAuthorizationContext *)
HasUser(r) == r.user # None

(* ServeHTTP and the handler: an error is an answer without a decision. *)
Begin(r) ==
    /\ ready /\ req.pc = "idle" /\ r \in cast.reviews
    /\ LET new == [Idle EXCEPT !.review = r, !.due = Due(r)]
           end(a) == [new EXCEPT !.pc = "answered", !.answer = a]
       IN  \/ ~Decodes(r) /\ req' = end("errored")
           \/ r.form = "both" /\ req' = end("denied")
           \/ r.form = "selector" /\ req' = end("errored")
           \/ r.form \in {"resource", "path"} /\ ~HasUser(r) /\ req' = end("errored")
           \/ r.form \in {"resource", "path"} /\ HasUser(r) /\ req' = [new EXCEPT !.pc = "namespace"]
    /\ UNCHANGED <<cast, storeVars, watchVars, faults>>

IsOrganizationScope(r) == r.parent # None /\ r.parent[1] = Organization

(* validateOrganizationNamespace: without a namespace discovery is asked. *)
ValidateNamespace ==
    /\ req.pc = "namespace"
    /\ LET r == req.review IN
       \/ ~IsOrganizationScope(r) /\ Go("permission")
       \/ IsOrganizationScope(r) /\ r.ns = "" /\ (IF r.key \in Namespaced THEN Answer("errored") ELSE Go("permission"))
       \/ IsOrganizationScope(r) /\ r.ns = "own" /\ Go("permission")
       \/ IsOrganizationScope(r) /\ r.ns = "other" /\ Answer("errored")
    /\ UNCHANGED <<cast, storeVars, watchVars, faults>>

DiscoveryFails ==
    /\ req.pc = "namespace" /\ IsOrganizationScope(req.review) /\ req.review.ns = ""
    /\ Fails
    /\ UNCHANGED <<cast, storeVars, watchVars>>

(* A request without a resource has no key. *)
Lookup(r) == IF r.form = "resource" THEN index[r.key] ELSE Absent

(* validatePermissionWithServiceDefaulting. Without the feature a subresource  *)
(* is ignored, and so is that the registration is being deleted.               *)
PermissionExists(r) ==
    LET pr == Lookup(r) IN
    /\ pr # Absent
    /\ IF cast.subresources THEN ~pr.deleting /\ <<r.sub, r.verb>> \in pr.perms
       ELSE <<Base, r.verb>> \in pr.perms

ValidatePermission ==
    /\ req.pc = "permission"
    /\ \/ PermissionExists(req.review) /\ Go("object")
       \/ ~PermissionExists(req.review) /\ Answer(IF cast.subresources THEN "denied" ELSE "errored")
    /\ UNCHANGED <<cast, storeVars, watchVars, faults>>

IsCollectionOp(r) == r.verb \in {"list", "create", "watch"} \/ r.name = None
IsNamedSubresource(r) == cast.subresources /\ r.sub # Base /\ r.name # None

(* buildResourceObject *)
ResourceObject(pr, r) ==
    IF IsNamedSubresource(r) \/ ~IsCollectionOp(r) THEN <<pr.type, r.name>>
    ELSE IF r.parent # None THEN r.parent
    ELSE <<Root, pr.type>>

(* buildCheckRequest: the index is read again, then the model's ID. *)
BuildCheckRequest ==
    /\ req.pc = "object"
    /\ LET pr == Lookup(req.review) IN
       \/ pr = Absent /\ Answer("errored")
       \/ pr # Absent /\ req' = [req EXCEPT !.pc = "root", !.object = ResourceObject(pr, req.review),
                                            !.pin = modelID]
    /\ UNCHANGED <<cast, storeVars, watchVars, faults>>

(* A third read, for the kind. *)
BuildRootResource ==
    /\ req.pc = "root"
    /\ LET pr == Lookup(req.review) IN
       \/ pr = Absent /\ Answer("errored")
       \/ pr # Absent /\ req' = [req EXCEPT !.pc = "check", !.root = <<Root, pr.type>>]
    /\ UNCHANGED <<cast, storeVars, watchVars, faults>>

(* A subresource that is not part of the permission that is checked. *)
PermissionOfBase(r) == <<r.key, Base, r.verb>>

(* buildPermissionString *)
PermissionOf(r) == <<r.key, IF cast.subresources THEN r.sub ELSE Base, r.verb>>

(* Without the check of the scope itself. *)
CheckItemsNoScope ==
    {req.object, req.root}
    \cup (IF req.review.parent # None THEN {<<Root, req.review.parent[1]>>} ELSE {})

(* The objects of the batch: the resource, its kind, and of a scoped request   *)
(* the kind of the scope and the scope.                                        *)
CheckItems ==
    {req.object, req.root}
    \cup (IF req.review.parent # None THEN {<<Root, req.review.parent[1]>>, req.review.parent} ELSE {})

(* OpenFGA: a relation is held directly, or on a parent the model accepts.     *)
(* What the model does not define is an error of the item, not of the batch.   *)
(* The answer is of the tuples of this moment, as with OpenFGA's check query   *)
(* cache off. *)
Check(model, user, relation, object) ==
    LET holds[o \in {object} \cup {e[2] : e \in cast.parents}] ==
            /\ o[1] \in DOMAIN model /\ relation \in model[o[1]].relations
            /\ \/ <<user, relation, o>> \in grants
               \/ \E e \in cast.parents : e[1] = o /\ e[2][1] \in model[o[1]].parents /\ holds[e[2]]
    IN  holds[object]

(* An empty ID means the latest model. *)
CurrentModel(pin) == IF pin > 0 THEN models[pin] ELSE models[Len(models)]

(* executeBatchCheck. A store without any model is an error.                    *)
BatchCheck ==
    /\ req.pc = "check"
    /\ \/ models = <<>> /\ Answer("errored")
       \/ /\ models # <<>>
          /\ LET allowed == \E o \in CheckItems :
                    Check(CurrentModel(req.pin), req.review.user, HashPermission(PermissionOf(req.review)), o)
             IN  Answer(IF allowed THEN "allowed" ELSE "denied")
    /\ UNCHANGED <<cast, storeVars, watchVars, faults>>

BatchCheckFails ==
    /\ req.pc = "check" /\ Fails
    /\ UNCHANGED <<cast, storeVars, watchVars>>

(* writeResponse *)
Reply ==
    /\ req.pc = "answered" /\ req' = Idle
    /\ UNCHANGED <<cast, storeVars, watchVars, faults>>

Step ==
    \/ ValidateNamespace \/ ValidatePermission \/ BuildCheckRequest \/ BuildRootResource
    \/ BatchCheck \/ Reply

Next ==
    \/ \E n \in Names : Edit(n) \/ Finalize(n) \/ HandleEvent(n) \/ HandleMove(n)
    \/ ChangeGrants \/ WriteModel \/ WatchModel \/ CacheSynced
    \/ \E r \in cast.reviews : Begin(r)
    \/ Step \/ DiscoveryFails \/ BatchCheckFails \/ Relist \/ Restart

(* Informers deliver what they have, the manager retries the model until it is *)
(* written, and a review that has begun is served.                             *)
Fairness ==
    /\ \A n \in Names : WF_vars(HandleEvent(n) \/ HandleMove(n)) /\ WF_vars(Finalize(n))
    /\ WF_vars(WriteModel) /\ WF_vars(WatchModel) /\ WF_vars(CacheSynced) /\ WF_vars(Step)

Spec == Init /\ [][Next]_vars /\ Fairness

----------------------------------------------------------------------------
(* Properties.                                                              *)

(* What handlers and reviews hold are registrations, IDs of models that were  *)
(* written and steps of Authorize.                                             *)
TypeOK ==
    /\ stored \in [Names -> Registration \cup {Absent}]
    /\ known \in [Names -> Registration \cup {Absent}]
    /\ index \in [Keys -> Registration \cup {Absent}]
    /\ sent \in [Names -> Seq(Registration \cup {Absent})]
    /\ plan \in [Names -> Seq(Version)]
    /\ modelID \in 0..Len(models) /\ req.pin \in 0..Len(models)
    /\ req.pc \in {"idle", "namespace", "permission", "object", "root", "check", "answered"}
    /\ req.answer \in {"", "allowed", "denied", "errored"}
    /\ ready \in BOOLEAN /\ faults \in 0..MaxFaults

(* Whatever is registered, the graph builds exactly when no type that hangs    *)
(* from a root lies below itself (getResourceGraphNode), and the model then    *)
(* has exactly the types that hang from a root, each with exactly the          *)
(* permissions of the types below it (calculateHierarchicalPermissions): what  *)
(* a parent passes on is defined on the parent.                                *)
HierarchyIsClosure ==
    \A reg \in {Registry(stored)} : \A hung \in {Below(reg, RootTypes(reg))} :
        /\ Builds(reg) <=> \A t \in hung : t \notin Below(reg, Children(reg, t))
        /\ Builds(reg) /\ DOMAIN reg # {} => \A model \in {ModelOf(reg)} :
              /\ DOMAIN model = hung \cup {Root}
              /\ \A t \in DOMAIN model :
                    /\ model[t].relations = {HashPermission(p) : p \in Carried(reg, cast.subresources, t)}
                    /\ \A u \in (model[t].parents \cap DOMAIN model) \ {Root} :
                            model[t].relations \subseteq model[u].relations

(* A user who keeps a grant, on the object, on a parent at any distance or on  *)
(* a kind, of a permission that stays registered is never turned away while    *)
(* other registrations, models and grants change under the review: only a      *)
(* failed call can keep the review from being allowed (Authorize, with the     *)
(* index read three times and the model pinned in between).                    *)
LastingGrantHonoured ==
    req.pc = "answered" /\ req.due => req.answer = "allowed" \/ req.failed

(* The types that are ever registered under the key, and the object with all   *)
(* those that parent tuples lead to from it.                                   *)
TypesAt(key) == {v.type : v \in {w \in Others(-1) : w.key = key}}
Owners(o) ==
    LET objects == {o} \cup {e[2] : e \in cast.parents}
    IN  {a \in objects : \A S \in SUBSET objects :
            o \in S /\ (\A e \in cast.parents : e[1] \in S => e[2] \in S) => a \in S}

(* An answer that allows has its reason in the tuples of that moment: a grant  *)
(* of exactly the permission that was asked for, its subresource included, on  *)
(* the instance, the scope, one of their kinds or above; and a request in an   *)
(* organization's scope stays in its namespace (Authorize, executeBatchCheck). *)
AllowJustified ==
    [][ req.answer # "allowed" /\ req'.answer = "allowed" =>
        LET r == req.review
            p == <<r.key, IF cast.subresources THEN r.sub ELSE Base, r.verb>>
        IN  /\ OwnNamespace(r)
            /\ \E t \in TypesAt(r.key) : \E o \in Grounds(t, r, cast.subresources) : \E a \in Owners(o) :
                    <<r.user, HashPermission(p), a>> \in grants ]_vars

(* When registrations and grants no longer change, and a model can be built    *)
(* from them, every review is before long allowed exactly when the user is     *)
(* entitled to it: no event that the index missed, no restart and no model     *)
(* that was pinned too long has a lasting effect (ProtectedResourceCache,      *)
(* AuthorizationModelIDWatcher).                                               *)
AnswersSettle ==
    <>[](req.pc = "answered" => \A reg \in {Registry(stored)} :
            Builds(reg) /\ Accepts(ModelOf(reg)) =>
                (req.answer = "allowed" <=> Entitled(reg, grants, req.review)))
============================================================================
