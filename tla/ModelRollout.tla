---------------------------- MODULE ModelRollout ----------------------------
(***************************************************************************)
(* How ProtectedResources become OpenFGA's authorization model: the         *)
(* rebuilds of internal/controller/authorizationmodel_controller.go, the    *)
(* model and the published ID of                                            *)
(* internal/openfga/authorization_model_reconciler.go, the copy of the ID   *)
(* in internal/webhook/model_id_watcher.go, and the tuple write that meets  *)
(* a new model (internal/openfga/model_transition.go).                      *)
(*                                                                          *)
(* A model is the set of registrations <<type, generation>> it was built    *)
(* from; its ID is its place in the store. One worker builds models.        *)
(***************************************************************************)
EXTENDS Naturals, Sequences

CONSTANTS
    Types,          \* names of ProtectedResources, one per type
    Startup,        \* the request without a name that every start queues
    Written,        \* the types tuples are written on
    MaxGen,         \* bound: generations of one registration
    MaxFaults       \* bound: failed calls, lost answers and restarts together

ASSUME StartupType == Startup \notin Types
ASSUME WrittenType == Written \subseteq Types
ASSUME BoundTypes == MaxGen \in Nat \ {0} /\ MaxFaults \in Nat

VARIABLES
    pr,             \* the stored registrations
    cpr,            \* the cached ones
    queue,          \* the dirty keys
    pc, key,        \* where the worker is, and on whose behalf
    snap,           \* the registration as the worker read it
    list,           \* the registrations it builds a model from
    pub,            \* the model ID it publishes
    models,         \* the store's models, oldest first
    cm,             \* the ID in the ConfigMap; 0 is none
    events,         \* ConfigMap events the watcher has not handled yet
    ccm,            \* the ID in the informer's copy of the ConfigMap
    seen,           \* the watcher's model ID
    wpc, wtype, wpin, wnew,     \* a tuple write on a type: the ID it is pinned to,
    wready,         \* the latest it looked up, was the type Ready at its start,
    wdel,           \* and does the same request remove tuples
    faults

prVars == <<pr, cpr>>
workVars == <<queue, pc, key, snap, list, pub>>
storeVars == <<models, cm>>
watchVars == <<events, ccm, seen>>
writeVars == <<wpc, wtype, wpin, wnew, wready, wdel>>
vars == <<prVars, workVars, storeVars, watchVars, writeVars, faults>>

Keys == Types \cup {Startup}
Registration == [st: {"none", "live", "deleting", "gone", "vanished"}, gen: 0..MaxGen,
                 fin: BOOLEAN, obs: 0..MaxGen]
NoRegistration == [st |-> "none", gen |-> 0, fin |-> FALSE, obs |-> 0]
Gone == [NoRegistration EXCEPT !.st = "gone"]       \* finalized; a name is used once
Vanished == [NoRegistration EXCEPT !.st = "vanished"]   \* deleted before our finalizer
Models == SUBSET (Types \X (1..MaxGen))

(* The worker and the writer hold only IDs of models that exist, and what is  *)
(* published and cached is the ID of one (ReconcileAuthorizationModel).       *)
TypeOK ==
    /\ pr \in [Types -> Registration] /\ cpr \in [Types -> Registration]
    /\ queue \subseteq Keys
    /\ pc \in {"idle", "add", "rebuild", "write", "publish", "finish"}
    /\ key \in Keys /\ snap \in Registration
    /\ list \in Models /\ pub \in 0..Len(models)
    /\ models \in Seq(Models) /\ cm \in 0..Len(models)
    /\ events \in Seq(1..Len(models)) /\ ccm \in 0..Len(models) /\ seen \in 0..Len(models)
    /\ wpc \in {"idle", "write", "latest", "check", "set", "refused"} /\ wtype \in Keys
    /\ wpin \in 0..Len(models) /\ wnew \in 0..Len(models) /\ wready \in BOOLEAN /\ wdel \in BOOLEAN
    /\ faults \in 0..MaxFaults

-----------------------------------------------------------------------------
Stored(r) == r.st \in {"live", "deleting"}

(* A list that keeps what is being deleted. *)
ActiveAndDeleting(of) == {<<t, of[t].gen>> : t \in {u \in Types : Stored(of[u])}}

(* What a model is built from: rebuildAuthorizationModel and getResourceGraph *)
(* leave out what is being deleted. *)
Active(of) == {<<t, of[t].gen>> : t \in {u \in Types : of[u].st = "live"}}

(* modelSupportsTupleWrites, and OpenFGA's own check of a tuple whose relation *)
(* every generation of the type has: a model defines the type if it was built  *)
(* from its registration. A type without a parent in the graph is in no model. *)
Defines(id, t) == id # 0 /\ \E m \in models[id] : m[1] = t

Latest == Len(models)

(* Observed and marked Ready. *)
Ready(t) == pr[t].st = "live" /\ pr[t].obs = pr[t].gen

(* API server: an Update takes effect only on the version that was read. *)
Current == snap = pr[key]

Answered(ack) ==
    /\ ack \/ faults < MaxFaults
    /\ faults' = IF ack THEN faults ELSE faults + 1

-----------------------------------------------------------------------------
(* Users and the informer.                                                  *)

users == <<cpr, workVars, storeVars, watchVars, writeVars, faults>>

Create(t) ==
    /\ pr[t] = NoRegistration
    /\ pr' = [pr EXCEPT ![t] = [NoRegistration EXCEPT !.st = "live", !.gen = 1]]
    /\ UNCHANGED users

Edit(t) ==
    /\ pr[t].st = "live" /\ pr[t].gen < MaxGen
    /\ pr' = [pr EXCEPT ![t].gen = @ + 1]
    /\ UNCHANGED users

Delete(t) ==
    /\ pr[t].st = "live"
    /\ pr' = [pr EXCEPT ![t] = IF pr[t].fin THEN [@ EXCEPT !.st = "deleting"] ELSE Vanished]
    /\ UNCHANGED users

(* protectedResourceEventPredicate: creations, deletions and vanishings pass; *)
(* an update passes for a new generation or a missing finalizer. *)
Matters(old, new) ==
    \/ old.st # new.st \/ old.gen # new.gen
    \/ new.st = "live" /\ ~new.fin

(* The handler runs with the update: a later run could only repeat a         *)
(* reconcile. *)
SyncCache(t) ==
    /\ cpr[t] # pr[t]
    /\ cpr' = [cpr EXCEPT ![t] = pr[t]]
    /\ queue' = IF Matters(cpr[t], pr[t]) THEN queue \cup {t} ELSE queue
    /\ UNCHANGED <<pr, pc, key, snap, list, pub, storeVars, watchVars, writeVars, faults>>

-----------------------------------------------------------------------------
(* The worker.                                                              *)

rest == <<cpr, writeVars, ccm, seen>>

WEnd ==
    /\ wpc' = "idle" /\ wtype' = Startup /\ wpin' = 0 /\ wnew' = 0
    /\ wready' = FALSE /\ wdel' = FALSE

End(again) ==
    /\ pc' = "idle"
    /\ queue' = IF again THEN queue \cup {key} ELSE queue
    /\ key' = Startup /\ snap' = NoRegistration /\ list' = {} /\ pub' = 0

(* The model-wide request of every start. *)
StartModel ==
    /\ pc = "idle" /\ Startup \in queue
    /\ queue' = queue \ {Startup}
    /\ pc' = "rebuild"
    /\ UNCHANGED <<rest, pr, key, snap, list, pub, storeVars, events, faults>>

(* A key whose registration is cached: live and without our finalizer, or to  *)
(* be observed or finalized. *)
Start(t) ==
    /\ pc = "idle" /\ t \in queue /\ Stored(cpr[t])
    /\ queue' = queue \ {t}
    /\ key' = t /\ snap' = cpr[t]
    /\ pc' = IF cpr[t].st = "live" /\ ~cpr[t].fin THEN "add" ELSE "rebuild"
    /\ UNCHANGED <<rest, pr, list, pub, storeVars, events, faults>>

(* Not found: taken for deleted. *)
StartNothing(t) ==
    /\ pc = "idle" /\ t \in queue /\ ~Stored(cpr[t])
    /\ queue' = queue \ {t}
    /\ UNCHANGED <<rest, pr, pc, key, snap, list, pub, storeVars, events, faults>>

(* The finalizer is added first, and the reconcile goes on with the updated   *)
(* object. *)
AddFinalizer ==
    /\ pc = "add"
    /\ \/ /\ Current
          /\ pr' = [pr EXCEPT ![key].fin = TRUE]
          /\ snap' = [snap EXCEPT !.fin = TRUE]
          /\ pc' = "rebuild"
          /\ UNCHANGED <<queue, key, list, pub>>
       \/ /\ ~Current
          /\ End(TRUE)
          /\ UNCHANGED pr
    /\ UNCHANGED <<rest, storeVars, events, faults>>

(* A generation that was observed is not built again. *)
Observed == snap.st = "live" /\ snap.obs = snap.gen

SkipObserved ==
    /\ pc = "rebuild" /\ Observed
    /\ End(FALSE)
    /\ UNCHANGED <<rest, pr, storeVars, events, faults>>

(* List, and compare with the latest model, which only this worker replaces:  *)
(* one that is up to date is only published. *)
Rebuild ==
    /\ pc = "rebuild" /\ ~Observed
    /\ list' = Active(cpr)
    /\ IF Latest # 0 /\ models[Latest] = list'
       THEN pc' = "publish" /\ pub' = Latest
       ELSE pc' = "write" /\ pub' = pub
    /\ UNCHANGED <<rest, pr, queue, key, snap, storeVars, events, faults>>

(* A write whose error is ignored. *)
WriteModelUnchecked ==
    /\ pc = "write"
    /\ models' \in {models, Append(models, list)}
    /\ pub' = Latest + 1
    /\ pc' = "publish"
    /\ UNCHANGED <<rest, pr, queue, key, snap, list, cm, events, faults>>

(* A new model, whose ID is not published. *)
WriteModelUnpublished ==
    /\ pc = "write"
    /\ models' = Append(models, list)
    /\ pc' = "publish" /\ pub' = cm
    /\ UNCHANGED <<rest, pr, queue, key, snap, list, cm, events, faults>>

(* WriteAuthorizationModel; when its answer is lost, the model is there       *)
(* although the call failed. *)
WriteModel ==
    /\ pc = "write"
    /\ models' = Append(models, list)
    /\ \E ack \in BOOLEAN :
        /\ Answered(ack)
        /\ \/ /\ ack
              /\ pc' = "publish" /\ pub' = Latest + 1
              /\ UNCHANGED <<queue, key, snap, list>>
           \/ /\ ~ack
              /\ End(TRUE)
    /\ UNCHANGED <<rest, pr, cm, events>>

(* writeModelIDToConfigMap: an ID that is there already makes no event. *)
Publish ==
    /\ pc = "publish"
    /\ cm' = pub
    /\ events' = IF cm = pub THEN events ELSE Append(events, pub)
    /\ \E ack \in BOOLEAN :
        /\ Answered(ack)
        /\ \/ /\ ack /\ key # Startup
              /\ pc' = "finish"
              /\ UNCHANGED <<queue, key, snap, list, pub>>
           \/ /\ ~ack \/ key = Startup
              /\ End(~ack)
    /\ UNCHANGED <<rest, pr, models>>

(* The status of a live registration; or the finalizer of a deleted one, which *)
(* leaves storage with it. A conflict is an error, and so is a lost answer. *)
Finish ==
    /\ pc = "finish"
    /\ \/ /\ Current
          /\ pr' = [pr EXCEPT ![key] = IF snap.st = "live" THEN [@ EXCEPT !.obs = snap.gen] ELSE Gone]
          /\ \E ack \in BOOLEAN : Answered(ack) /\ End(~ack)
       \/ /\ ~Current
          /\ End(TRUE)
          /\ UNCHANGED <<pr, faults>>
    /\ UNCHANGED <<rest, storeVars, events>>

(* An error that is not returned: nothing is retried. *)
FailSwallowed ==
    /\ pc # "idle" /\ faults < MaxFaults
    /\ faults' = faults + 1
    /\ End(FALSE)
    /\ UNCHANGED <<rest, pr, storeVars, events>>

(* A call that fails without effect: the key is retried. *)
Fail ==
    /\ pc # "idle" /\ faults < MaxFaults
    /\ faults' = faults + 1
    /\ End(TRUE)
    /\ UNCHANGED <<rest, pr, storeVars, events>>

(* The process stops and the next one starts: caches are fresh, the initial   *)
(* list queues what is not fully observed, and the watcher starts over. *)
Restart ==
    /\ faults < MaxFaults
    /\ faults' = faults + 1
    /\ cpr' = pr
    /\ pc' = "idle" /\ key' = Startup /\ snap' = NoRegistration /\ list' = {} /\ pub' = 0
    /\ queue' = {Startup} \cup
                {t \in Types : Stored(pr[t])
                               /\ (pr[t].obs # pr[t].gen \/ pr[t].st = "deleting" \/ ~pr[t].fin)}
    /\ seen' = 0 /\ ccm' = 0 /\ events' = IF cm = 0 THEN <<>> ELSE <<cm>>
    /\ WEnd
    /\ UNCHANGED <<pr, storeVars>>

-----------------------------------------------------------------------------
(* The watcher, and a write pinned to its ID.                               *)

HandleConfigMap ==
    /\ events # <<>>
    /\ seen' = Head(events) /\ ccm' = Head(events)
    /\ events' = Tail(events)
    /\ UNCHANGED <<prVars, workVars, storeVars, writeVars, faults>>

(* The informer hands over its copy again, every 30 seconds. *)
Resync ==
    /\ ccm # 0 /\ seen # ccm
    /\ seen' = ccm
    /\ UNCHANGED <<prVars, workVars, storeVars, events, ccm, writeVars, faults>>

wrest == <<prVars, workVars, storeVars, events, ccm, faults>>

(* ModelIDFrom pins the write, which adds tuples; an edited binding's removes  *)
(* others with them (reconcilePolicy). *)
WStart(t) ==
    /\ wpc = "idle"
    /\ wdel' \in BOOLEAN
    /\ wpc' = "write" /\ wtype' = t /\ wpin' = seen /\ wready' = Ready(t)
    /\ UNCHANGED <<wrest, seen, wnew>>

(* Without an ID, OpenFGA takes its latest model. Only a refused write that is *)
(* pinned, and removes nothing, looks further (mayBeModelTransition). *)
WWrite ==
    /\ wpc = "write"
    /\ IF Defines(IF wpin = 0 THEN Latest ELSE wpin, wtype)
       THEN WEnd
       ELSE /\ wpc' = IF wpin # 0 /\ ~wdel THEN "latest" ELSE "refused"
            /\ UNCHANGED <<wtype, wpin, wnew, wready, wdel>>
    /\ UNCHANGED <<wrest, seen>>

(* A refusal that is final. *)
WReadLatestNever ==
    /\ wpc = "latest"
    /\ wpc' = "refused"
    /\ UNCHANGED <<wrest, seen, wtype, wpin, wnew, wready, wdel>>

(* writeWithModelTransitionRetry: go on only with another model that defines  *)
(* the type. *)
WReadLatest ==
    /\ wpc = "latest"
    /\ wpc' = IF Latest # wpin /\ Defines(Latest, wtype) THEN "check" ELSE "refused"
    /\ wnew' = Latest
    /\ UNCHANGED <<wrest, seen, wtype, wpin, wready, wdel>>

(* The cached ID is replaced only if the write was pinned to it. Models never *)
(* change, so the second write is accepted. *)
WCheckID ==
    /\ wpc = "check"
    /\ IF seen = wpin
       THEN wpc' = "set" /\ UNCHANGED <<wtype, wpin, wnew, wready, wdel>>
       ELSE WEnd
    /\ UNCHANGED <<wrest, seen>>

SetModelID ==
    /\ wpc = "set"
    /\ seen' = wnew
    /\ WEnd
    /\ UNCHANGED wrest

(* The error goes to the caller, whose reconcile starts anew. *)
WRefused ==
    /\ wpc = "refused"
    /\ WEnd
    /\ UNCHANGED <<wrest, seen>>

-----------------------------------------------------------------------------
Init ==
    /\ pr = [t \in Types |-> NoRegistration] /\ cpr = pr
    /\ queue = {Startup}
    /\ pc = "idle" /\ key = Startup /\ snap = NoRegistration /\ list = {} /\ pub = 0
    /\ models = <<>> /\ cm = 0 /\ events = <<>> /\ ccm = 0 /\ seen = 0
    /\ wpc = "idle" /\ wtype = Startup /\ wpin = 0 /\ wnew = 0
    /\ wready = FALSE /\ wdel = FALSE
    /\ faults = 0

Work ==
    \/ StartModel
    \/ \E t \in Types : Start(t) \/ StartNothing(t)
    \/ AddFinalizer \/ SkipObserved \/ Rebuild \/ WriteModel \/ Publish \/ Finish

Write == WWrite \/ WReadLatest \/ WCheckID \/ SetModelID \/ WRefused

Next ==
    \/ \E t \in Types :
        Create(t) \/ Edit(t) \/ Delete(t) \/ SyncCache(t)
    \/ Work \/ Fail \/ Restart
    \/ HandleConfigMap \/ Resync
    \/ \E t \in Written : WStart(t)
    \/ Write

Spec == Init /\ [][Next]_vars

(* The worker goes on and starves no key, informers deliver, and a write that  *)
(* was started ends. Users, faults and new writes are under no obligation. *)
Fairness ==
    /\ WF_vars(Work) /\ SF_vars(StartModel)
    /\ \A t \in Types : WF_vars(SyncCache(t))
    /\ \A t \in Types : SF_vars(Start(t) \/ StartNothing(t))
    /\ WF_vars(HandleConfigMap) /\ WF_vars(Resync) /\ WF_vars(Write)

FairSpec == Spec /\ Fairness

-----------------------------------------------------------------------------
(* Properties.                                                              *)

(* A registration is marked observed and Ready only when the model whose ID   *)
(* is published has that very generation, and no later rebuild from a cache   *)
(* takes it away again (reconcileProtectedResource, rebuildAuthorizationModel). *)
ReadyIsPublished ==
    \A t \in Types : Ready(t) => cm # 0 /\ <<t, pr[t].gen>> \in models[cm]

(* A type that has left storage is in no model that is published from then on *)
(* (ProtectedResourceFinalizer.Finalize). *)
GoneIsUnpublished ==
    \A t \in Types : pr[t].st = "gone" => ~Defines(cm, t)

(* Additions on a type that was Ready when the write began, and still is      *)
(* registered, are never refused, however old the ID they are pinned to; a    *)
(* write that removes tuples as well is refused only while the watcher lags:   *)
(* its ID is neither the published model's nor the latest's, so that the       *)
(* caller's next attempt, pinned to one of these, goes through                 *)
(* (writeWithModelTransitionRetry, mayBeModelTransition). Types that are in no *)
(* model although their registration is Ready are excepted, see Defines. *)
ReadyIsWritable ==
    wpc = "refused" /\ wready /\ pr[wtype].st = "live" =>
        wdel /\ wpin \notin {0, cm, Latest}

(* c is r, or what r was. *)
Before(c, r) ==
    /\ c.st = "live" => r.st # "none" /\ (r.st = "live" => c.gen <= r.gen)
    /\ c.st = "deleting" => r.st \in {"deleting", "gone"}
    /\ c.st \in {"gone", "vanished"} => r.st = c.st

(* The worker has listed what its model is made from. *)
Listed == pc \in {"write", "publish", "finish"}
InList(t) == \E m \in list : m[1] = t

CopyInv ==
    /\ \A t \in Types : Before(cpr[t], pr[t])
    /\ \A t \in Types : pr[t].obs <= pr[t].gen
    /\ \A t \in Types : (Stored(pr[t]) => pr[t].gen # 0) /\ (Stored(cpr[t]) => cpr[t].gen # 0)

JobInv ==
    /\ pc \in {"add", "finish"} => key # Startup
    /\ key # Startup => Stored(snap) /\ snap.gen # 0 /\ Before(snap, cpr[key])

ListInv ==
    Listed /\ key # Startup =>
        /\ snap.st = "live" /\ pr[key].st = "live" /\ pr[key].gen = snap.gen => <<key, snap.gen>> \in list
        /\ snap.st = "deleting" => ~InList(key)

(* The worker publishes the latest model, and nobody else writes one. *)
PublishInv ==
    /\ pc \in {"publish", "finish"} => pub = Latest /\ Latest # 0 /\ models[Latest] = list
    /\ pc = "finish" => cm = pub

(* What has ever been observed is in the cache, in the published model, in    *)
(* the latest and in the next one. *)
ObservedInv ==
    \A t \in Types : pr[t].st = "live" /\ pr[t].obs # 0 =>
        cpr[t].st = "live" /\ Defines(cm, t) /\ Defines(Latest, t) /\ (Listed => InList(t))

ReadyInv ==
    \A t \in Types : Ready(t) =>
        /\ cpr[t].st = "live" /\ cpr[t].gen = pr[t].gen
        /\ Listed => <<t, pr[t].gen>> \in list

GoneInv ==
    \A t \in Types : pr[t].st = "gone" =>
        cpr[t].st \in {"deleting", "gone"} /\ (Listed => ~InList(t))

WriterInv ==
    /\ wready => wtype \in Types /\ pr[wtype].st # "none" /\ (pr[wtype].st = "live" => pr[wtype].obs # 0)
    /\ wpc = "latest" => wpin # 0 /\ ~wdel /\ ~Defines(wpin, wtype)
    /\ wpc = "refused" => ~Defines(wpin, wtype)

(* What ReadyIsPublished, GoneIsUnpublished and ReadyIsWritable rest on: how  *)
(* old the worker's copies may be, and what each of its models has in it      *)
(* (rebuildAuthorizationModel, reconcileProtectedResource). *)
RolloutInv ==
    /\ CopyInv /\ JobInv /\ ListInv /\ PublishInv
    /\ ObservedInv /\ ReadyInv /\ GoneInv /\ WriterInv
    /\ ReadyIsPublished /\ GoneIsUnpublished /\ ReadyIsWritable

(* In the end the published model is built from what is registered, and so is *)
(* the latest, and the watcher keeps the published ID, whatever failed on the *)
(* way and however a retry's SetModelID and the ConfigMap's events overtook   *)
(* each other (ReconcileAuthorizationModel, handleConfigMap). Only a          *)
(* registration that was deleted before it had a finalizer may be left in a   *)
(* model, or make the two differ: its Reconcile finds nothing and builds      *)
(* nothing. *)
RolloutCompletes ==
    <>[](/\ cm # 0 /\ seen = cm
         /\ \A id \in {cm, Latest} :
                {m \in models[id] : pr[m[1]].st # "vanished"} = Active(pr))

=============================================================================
