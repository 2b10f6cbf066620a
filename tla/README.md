# openfga-provider: TLA+ models, checks and proofs

openfga-provider turns Milo's IAM resources (Kubernetes objects) into OpenFGA
tuples and authorization models, and answers SubjectAccessReviews from them.
Access is right only if many independent reconciles, working from caches that
lag, agree with each other about a store that has no transactions across them.
This directory models those reconciles, checks them with TLC on small instances
and proves their safety with TLAPS for every instance.

Paths below are relative to `src/`; `PROJECT.json` maps every definition to its
lines.

## 1. The system

| Part | State it keeps | Operations | Interacts with |
|---|---|---|---|
| Target hold and object locks (`internal/controller/target_hold.go`) | a finalizer on Organizations and Projects; a pool of hashed mutexes | `holdOf`, `drained`, `holdTarget`, `ObjectLocks.Lock` | PolicyBinding, Organization and Project controllers share one lock pool |
| Organization controller (`organization_controller.go`, `object_tuples.go`) | the finalizer; tuples that name an Organization | add the finalizer, clear, check under the lock, release | waits for Milo's own finalizer; reads ProtectedResources for child types |
| Project hierarchy (`resourceownerhierarchy_controller.go`) | the finalizer; the parent tuple of each Project | sync the parent tuple under the owner's lock; clear and release | the owner Organization's lock and hold |
| PolicyBinding controller (`policybinding_controller.go`) | a finalizer on bindings, conditions | validate, guarded write, revoke, enqueue on Role and registration events | target hold, policy reconciler |
| Policy reconciler (`internal/openfga/policy_reconciler.go`) | permission tuples | diff, spare siblings' tuples, write, delete | Roles, ProtectedResources, sibling bindings, the model ID |
| Batched deletes (`tuples.go`) | - | delete in batches, halving on a deadline | both tuple writers; `DeleteRole` alone deletes in one write |
| Role controller (`role_controller.go`, `role_inheritance.go`, `role_reconciler.go`) | `status.effectivePermissions` | resolve inheritance, validate, enqueue inheritors | PolicyBindings read its result |
| Group memberships (`groupmembership_controller.go`, `group_member_reconciler.go`) | member tuples | add, remove, finalize | Users, Groups |
| System groups (`systemgroup_controller.go`) | one member tuple per User and ServiceAccount | write, delete | - |
| Authorization model (`authorizationmodel_controller.go`, `authorization_model_reconciler.go`) | OpenFGA's list of models; the ID in a ConfigMap; finalizer and status of ProtectedResources | rebuild, write, publish, mark Ready, finalize | watcher, every tuple writer |
| Model transition (`model_transition.go`, `model_id.go`) | - | pin a write to an ID; retry once with the latest | watcher, OpenFGA |
| Model ID watcher (`internal/webhook/model_id_watcher.go`) | the ID in memory | ConfigMap events, resync, `SetModelID` | both processes |
| Resource graph (`resources.go`) | - (pure) | build the graph, inherit permissions | authorization model, policy reconciler |
| Webhook (`webhook.go`, `subjectaccessreview_authorizer.go`, ...) | - | `Authorize`: validate, build the checks, one batch | index, watcher, OpenFGA, discovery |
| ProtectedResource cache (`protectedresource_cache.go`) | index of registrations by group and plural | add, update and delete handlers; readiness | read three times by a review |
| Start-up, telemetry, configuration, rate limiter | - | wiring | - |

What is hard:

* **Concurrency.** Each key has at most one reconcile at a time, but a tuple
  usually concerns several keys, of several controllers: a binding and its
  target, a Project and its Organization, two bindings that want the same
  tuple. Only the object locks are shared.
* **Stale reads.** Typed reads come from informer caches. A cached object may
  have been deleted and its name taken by another.
* **Failure.** A call may fail, or take effect and lose its answer; a write the
  client gave up on may be applied later; a process may stop anywhere, and the
  next leader starts from storage. Updates conflict on the resource version.
* **Order.** Tuples before finalizers, Milo's draining before ours, a model
  before its ID, an ID before Ready.

What makes each part correct is section 4; the hazards, line by line, are in
`PROJECT.json`.

## 2. Modules

| Module | Models | Extended by |
|---|---|---|
| `TargetHold` | the hold: locks, finalizers, guarded grants, parent tuples, clear and release | `MCTargetHold`, `TargetHoldProofs`, `AccessProofs` |
| `PolicyBindings` | bindings on one target that share tuples: caches, handlers, diff, siblings, revocation | `MCPolicyBindings`, `MCBindings`, `PolicyBindingsProofs` |
| `ModelRollout` | registrations, models, the published ID, the watcher and a pinned tuple write | `MCModelRollout`, `ModelRolloutProofs` |
| `Memberships` | GroupMemberships, and every User's and ServiceAccount's membership in system:authenticated | `MCMemberships`, `MembershipsProofs` |
| `Roles` | inheritance between Roles, the status PolicyBindings grant from, and the events that keep it right | `MCRoles`, `RolesProofs` |
| `TupleDeletion` | abstract: what a clear relies on when it asks for tuples to be deleted | - |
| `DeleteTuples` | the batched delete, which implements `TupleDeletion` | `MCDeleteTuples`, `DeleteTuplesProofs` |
| `ResourceGraph` | pure operators: registrations to graph, graph to authorization model | `Authorizer` |
| `Authorizer` | the review of a request, with the webhook's index, the model it pins and the tuples | `MCAuthorizer`, `AuthorizerProofs` |

`MCBindings` extends `MCPolicyBindings` with the casts of its run. How the
modules hang together: `ModelRollout` treats a model as the set of registrations
it was built from, and `ResourceGraph` says what model that is; `Roles` ends with
the `status.effectivePermissions` that `PolicyBindings` starts from;
`PolicyBindings` and `TargetHold` write the tuples that `Authorizer` reads; the
clear in `TargetHold` relies on what `TupleDeletion` promises.

**TargetHold.** `api` is storage, `cache` the informer's copy, `notify` a cache
update whose handler has not run, `oq`/`bq` the workqueues, `lock` the mutex
pool. Every API call, OpenFGA call and lock operation is one step. The worker
of a binding (`bpc`) goes `BStart`, `BValidate`, `BLock`, `BDiff`, `BGuard`,
`BHold`, `BWrite`, or `BDeletePolicy` and `BUnbind` when it is being deleted, or
`BEvict` when its target is not valid. A stored grant is user, relation and
object, as in OpenFGA, so bindings may share one (`GrantOf`), and a removal
spares it for a sibling (`Revoke`, `Siblings`): any other live binding in the
cache (`cbind`) on the target's name, whatever UID it names. What validation finds
out about types and subjects (`BInvalid`), and the Role (`BRoleGone`), is left
open here. The worker of an Organization or Project
(`opc`) adds its finalizer (`OEnsureFinalizer`), or clears (`NamingObject`,
`NamingUser`, `ClearDelete`), locks (`OLock`), looks again (`Remaining`) and
releases (`Release`). A Project's worker also syncs its parent tuple (`P...`).
The environment creates, deletes and reparents objects, drains them as Milo
does, changes the registration, makes calls fail (`BFail`, `OFail`), loses
answers (`Answered`), delays writes (`BWriteTimesOut`, `LateWriteLands`) and
restarts the process. Only grant writes may land late. The read, the list and the
write of a removal are one step here; `PolicyBindings` takes them apart.

**PolicyBindings.** Each binding's worker reads its binding, the registration,
the Role, the stored tuples and the siblings in the code's order, each at its
own moment and each from the cache the code reads. The target is live and held,
which is `TargetHold`'s subject. The subresource flag is chosen at start and
may differ after a restart. Subjects and permissions are abstract.

**ModelRollout.** A model is the set of `<<type, generation>>` it was built
from; its ID is its place in the store. One worker (`MaxConcurrentReconciles:
1`) runs `Start`, `AddFinalizer`, `Rebuild`, `WriteModel`, `Publish`, `Finish`.
The watcher handles ConfigMap events and resyncs; a tuple writer pins the
watcher's ID and retries with the latest model, where the test of the cached ID
and its replacement are two steps, as in the code. A write that also removes
tuples (`wdel`), as that of an edited binding does, is not retried. A relation
that a new generation adds is treated like a new type. Reading the latest model is part of
`Rebuild`, since nobody else writes models.

**Memberships.** `obj` is storage, `cached` the informers' copies, `job` the
reconcile of a key with the copy it read. A User or ServiceAccount goes
`AddFinalizer`, `ReadTuple`, `WriteTuple`, or `DeleteTuple` and `Strip`; a
GroupMembership goes `AddFinalizer`, `ValidateRefs`, `CheckTuple`, `AddMember`,
`UpdateStatus`, or `Finalize`, `CheckTuple`, `RemoveMember` and `Strip`. A watch
delivers incarnations in order (`Observe`) or, after a break, shows the next one
as an update (`Relist`), which the predicate judges by its generation. Each
behaviour starts with a cast (`Casts`): what is there and settled, and how often
each object may be created or deleted. Looking up the User and the Group is one
step; a GroupMembership's references are taken as fixed.

**Roles.** `role` is storage, `events` the writes the one Role informer has not
delivered, `crole` its copies, `noted` the delivered changes whose handler for
inheritors has not run; `reg`, `creg` and `nreg` are the same for registrations.
A reconcile (`job`) goes `Start`, `AddFinalizer`, `ListRegistrations`,
`GetInherited` and `UpdateStatus`, or `Finalize` (`DeleteRole`) and `Strip`. Each
inherited Role is looked up in a step of its own, in the cache as it is by then;
`LookUp` is one such Get, for the reconcile and for `Walk`, which the handler of
registrations runs to its end in one step. `Reachable` states what both are meant
to find, without a walk: the least set that has what its members inherit.
`UpdateStatus` compares with the status of the copy that the reconcile read, as
`updateRoleStatus` does, and conflicts when the stored Role has changed since.
`NotifyInheritors` and `NotifyRegistration` requeue the Roles that depend on a
change. Casts say what users do to each Role, in order.

**DeleteTuples.** The tuple at place `i` of the list is the number `i`. `Loop`
takes the next batch from `start`, of `batchSize`; a `Write` succeeds, fails with
or without effect, or times out, whereupon it has taken effect, has not, or will
(`late`). Others write and delete the same tuples meanwhile. The refinement
mapping takes the part of the list behind `start` for what the call has seen
gone (`seenGone`), and `pc` for the result (`outcome`).

**ResourceGraph.** A registration is a type, a resource key, permissions and
parents; a model is, for each type, its permission relations and the types its
`parent` relation accepts. `Children`, `CycleBelow`, `HierarchicalPermissions`
and `ExpectedModel` follow the walks of the code; `Below` and `Carried` state the
closure they are meant to compute, without a walk. OpenFGA's refusal of a model
that names undefined types (`Accepts`) is external. `HashPermission` is a
parameter; that its 32 bits tell the permissions at hand apart is assumed
(`NoCollision`).

**Authorizer.** `stored` are the registrations, `sent` the versions the webhook's
handlers have not seen, `known` the last one they saw, `index` what they made of
them; `models` are OpenFGA's, `modelID` the one the webhook has. A review (`req`)
goes `Begin`, `ValidateNamespace`, `ValidatePermission`, `BuildCheckRequest`,
`BuildRootResource`, `BatchCheck`, `Reply`: three reads of the index, with the
model pinned between the second and the third. Reviews share nothing that they
write, so one at a time shows what any number of them do. Registrations are
edited, moved to another key, deleted and finalized, models follow, grants
change, the watch breaks (`Relist`) and the webhook restarts (`Restart`) while a
review is under way.

Shared conventions: a name that a bound can exhaust is never reused beyond it;
`UNCHANGED` groups (`rest`, `bRest`, ...) list what a worker's step leaves
alone; an operator that only serves as a wrong variant for sensitivity checks
stands just before the definition it varies.

## 3. Runs

| Run | Instance | Checks | Shows |
|---|---|---|---|
| `HoldGrants` | 1 Organization created twice, 2 bindings (symmetric) that share a grant, each created once, 1 fault, flag on | `GrantsNeverOutlive`, `GrantNamesItsTarget` | no grant outlives its target or passes to its successor, and none is written for a binding that names another UID |
| `HoldParents` | 2 Organizations, 1 Project that moves once, one Organization deleted and re-created, drained by Milo, 1 fault | `TypeOK`, `HoldInv`, `ParentsNeverOutlive`, `AccessLastsUntilDrained` | parent tuples go before either end does, and access lasts while Milo drains |
| `HoldDeleteBindings` | 1 Organization, 1 binding, 1 fault, 1 late write, fair | `DeletionCompletes` | deletion ends although the binding keeps trying and a write lands late |
| `HoldDeleteProjects` | 1 Organization, 1 Project, one lock for both, 1 fault, registration may change, fair | `DeletionCompletes` | no deadlock or starvation between a Project and its owner |
| `Bindings` | two casts: 2 settled bindings that share tuples, from which bindings, Roles and the registration are taken away; 1 binding, 2 subjects, 2 permissions (one of a child type and a subresource), edits, 2 changes, 1 fault, flag on and off; fair | `TypeOK`, `SettledInv`, `SettledGrantsKept`, `SettledNoOrphans`, `Converges`, `GrantsArrive` | sparing is neither too weak nor too strong, and a binding ends with what it asks for |
| `Rollout` | two casts, 2 faults or restarts each: 2 types that share one model; 1 type with 2 generations and tuple writes on it, with and without removals; fair | `TypeOK`, `RolloutInv`, `ReadyIsPublished`, `GoneIsUnpublished`, `ReadyIsWritable`, `RolloutCompletes` | rebuilds for one registration never undo another's, what is Ready accepts additions whatever ID is cached, and the right model is published and cached in the end |
| `MembershipsSettle` | 1 User, ServiceAccount, Group, GroupMembership; each in turn deleted and re-created, or all appearing at once; 2 faults or restarts, fair | `TypeOK`, `MembershipInv`, `NoOrphanAuthenticated`, `ReleasedMembersGone`, `AuthenticatedSettles`, `MembersSettle`, `DeletedObjectsLeave` | no tuple on what is released, and in the end exactly the right members |
| `RolesSettle` | every graph of 3 Roles at rest; chains, a cycle and a diamond in which Roles and registrations change, 1 fault; fair | `TypeOK`, `RoleInv`, `WalkIsReachability`, `RoleTuplesGoFirst`, `ObservedIsStored`, `RolesSettle` | the walk finds exactly what can be reached, a change is announced to exactly the Roles that reach it, and ends in every status it concerns |
| `DeleteBatches` | 6 tuples in batches of at most 5, 1 foreign tuple, fair | `TypeOK`, `DeletesAsPromised` | the batched delete implements `TupleDeletion`, its return included |
| `Reviews` | every hierarchy of 3 types at rest; 8 casts of reviews while registrations, models and grants change, 1 fault; fair | `TypeOK`, `HierarchyIsClosure`, `LastingGrantHonoured`, `AllowJustified`, `AnswersSettle` | the model is the closure of the registrations, a lasting grant is honoured, an allow has its reason, and answers settle |
| `HoldUnregistered` | registration stops naming Organization as a parent | `ParentsNeverOutlive` (violated) | finding 1 |
| `BindingsRace` | 2 bindings, one new, one removed | `GrantedWhenQuiet` (violated) | finding 2 |

All runs say `CHECK_DEADLOCK FALSE`: with all work done, and users and faults at
their bounds, the system rightly rests. Progress is what the temporal
properties check.

A cast is one choice of how a behaviour starts and what users do in it; a run
with several explores each with all interleavings. The casts of `Bindings` and
`Rollout` confine users, faults and new tuple writes only, never a step that
fairness obliges.

### Bounds

* Two incarnations of a name (`MaxUid`) are what it takes to confuse one object
  with its successor; a third adds only another stale copy. Objects, uids and
  locks are unbounded in the proofs.
* Two bindings are enough for one to spare a tuple for the other, or to miss it.
  Each name is used for one binding (`MaxBinds`) in `HoldGrants`: a binding is
  identified by its name and target, and the second one is there to come later.
* All objects share one lock in the runs: the worst case for progress. That the
  hash does not matter for safety is proved for every `LockOf`.
* One fault at any point covers each failure alone; two, in the `Rollout` and
  `Memberships` runs, also a failure during the recovery from a failure.
* The shared cast of `Rollout` has no tuple writes, which read models and change
  none, and one generation of each type.
* Three Roles have every shape of inheritance that matters to one walk: a cycle
  through the start and one beside it, a diamond, a dangling reference, a Role
  between the change and its inheritor.
* Three types have the same: chains, joins, cycles below a root and beside it,
  orphans, a type registered twice. The fourth of `Reviews` comes and goes beside
  what a review is about.
* Six tuples in batches of five take two batches, and halvings 5, 2, 1. The
  safety of the refinement is proved for every list and limit.

### Fairness

* A reconcile that runs goes on to its end (`WF` of a worker's steps), and a
  queued key is taken: the workqueue is first-in first-out and an error requeues
  the key with a delay. With the single worker of `ModelRollout` each key has
  `SF`, as another key may come first.
* Informers deliver (`WF` of `Sync...`, `Notify...`, `Deliver`, `HandleEvent` and
  `HandleMove`, `HandleConfigMap`, `WatchModel`), and the ConfigMap's informer
  resyncs every 30 seconds (`Resync`).
* In `Authorizer` the manager writes the model and finalizes registrations in the
  end (`WriteModel`, `Finalize`): `RolloutCompletes` is the reason.
* A review that has begun is served, and a `Write` of the batched delete comes
  back with some answer (`WF` of `Step`, of `Call`): the manager's OpenFGA calls
  have a deadline, and the webhook is taken to get an answer or an error.
* A Go mutex starves no waiter (`SF` of the lock steps).
* Milo removes its finalizer from what is deleted in the end (`MiloDrains`), and
  so does whoever else holds a Role (`Leave`): without it no deletion could
  complete.
* Users, failures, late writes and restarts are under no obligation; failures
  and restarts are bounded, which stands for "they stop for long enough".

## 4. What is shown, and what is not

Findings, each the counterexample of a run, with the line it contradicts quoted
in `PROJECT.json`:

1. An Organization can leave while a Project's tuple names it as parent, once
   the Project registration no longer names Organization: `childTypes` consults
   what is registered at that moment.
2. A new binding that finds its tuple stored writes nothing; the removal of a
   sibling whose cache lacks the new binding deletes the tuple, and nothing
   reconciles the new binding again.

Limits that the properties state openly:

* A write that timed out at the client can be applied after its target was
  cleared and released. `GrantsNeverOutlive` and `GrantNamesItsTarget` are for
  `MaxLate = 0`; deletion completes also with a late write.
* Who a grant is kept for is not who it was written for. Siblings are found by
  the target's name (`policy_reconciler.go:249`), so when the binding on a
  re-created object is removed, its grant stays for a binding that still names the
  predecessor's UID, and that is not reconciled again until something wakes it.
  `GrantNamesItsTarget` is therefore about the write, and about a name that
  changes hands; what it says does not hold of the stored grant later on.
* A grant that is spared for a sibling which is then deleted before it has its
  finalizer is removed by no binding; it goes with the object.
* A write that adds and removes tuples is not retried with the latest model
  (`mayBeModelTransition`; `latest_model_test.go:80` expects so). `ReadyIsWritable`
  says that additions alone are never refused, and that such a write is refused
  only while its ID is neither the published nor the latest one: its caller's next
  reconcile, after the watcher has caught up (`RolloutCompletes`), goes through.
  A type that hangs from no root is Ready and in no model; `Defines` takes a type
  for defined by every model built from its registration, and so leaves it out.
* Checks are reads of the tuples of that moment (`Memberships`' `CheckTuple`,
  `Authorizer`'s `Check`). OpenFGA's check query cache, which
  `subjectaccessreview_authorizer.go:495` and `systemgroup_controller.go:50` speak
  of, is not modelled; of the environments in `config` only `perf` enables it, for
  30 seconds. With it, `LastingGrantHonoured`, `AllowJustified` and what a
  GroupMembership takes for stored hold of the tuples as they were up to that long
  ago.
* A worker that clears on a stale cached copy can remove tuples of the object
  that has since taken the name. They return with the next reconcile of their
  owner; nothing is claimed about the time in between.
* `AccessLastsUntilDrained` excepts a Project that was moved away and back while
  its worker still has the copy in between: that worker removes the parent tuple
  of the owner it is to have again, which the next reconcile writes anew. The
  property asks that the worker's copy, if it has one, names the tuple's owner.
  Of grants it says what the finalizer does: a binding's own worker may revoke its
  grant at any time.
* A registration deleted before it got its finalizer may stay in the model until
  the next rebuild: `RolloutCompletes` excepts exactly such a registration, in
  the published model and in the latest one, which a stale retry may leave
  unpublished and different by no more than that.
* Without the subresource flag, an edit of a child type wakes no binding:
  `GrantsArrive` is then about the type's own permissions.
* `SettledGrantsKept` and `SettledNoOrphans` are `SharedGrantsKept` and
  `NoOrphanGrants` for bindings that start settled, while things are only taken
  away. Finding 2 is one reason; the other is that a subject dropped from
  `spec.subjects` keeps its tuples, also after the binding is gone, as existing
  tuples are read for the current subjects only.
* When a type is unregistered (`policybinding_controller.go:165`: "Registration
  removal must also remove previously programmed tuples"), two bindings that
  share a tuple which a child type defines as well each spare it for the other.
  The settled cast of `Bindings` shares only permissions of the type itself.
* `ReleasedMembersGone` is for finalizations that find User and Group. One that
  does not leaves the tuple, and a User re-created under its name is a member
  again, since members are named by name.
* `ReleasedMembersGone` and `MembersSettle` are for pairs that one
  GroupMembership names: the removal of one of two deletes the other's tuple.
* `MembersSettle` is about the tuple. The Ready condition may stay wrong: it is
  compared with a cached status that may lag, and then not written.
* `MembersSettle` is for GroupMemberships in their Group's namespace (the index
  has no others) and for Groups whose watch does not break while they are
  deleted and re-created: that would be an update without a new generation,
  which the predicate drops (`Relisted` has no Group).
* Writes of `Memberships` take effect before their call returns.
* `RolesSettle` is for changes that go one way. A new status is compared with
  the one in the cached copy (`role_controller.go:571`): one that is to return to
  an earlier value, while the cache still has that value, is taken for written.
  A reported error is such a value, so `Ready` may stay on it. One unbroken watch
  of Roles is assumed, what a registration's handler reads is read in one step,
  and the message about inert subresources is left out.
* `RoleTuplesGoFirst` is about tuples that earlier versions wrote. `DeleteRole`
  deletes them in one write, so a Role with more of them than OpenFGA takes in a
  write cannot be finalized; the model has no such limit.
* One registration whose parents are not all in the model, or a cycle below a
  root, keeps every new model from being written, and with it every pending
  deletion of a registration: `AnswersSettle` asks for a model that builds and is
  accepted. Types that do not hang from a root are silently not in the model.
  The comment at `resources.go:40` speaks of an error when there is no root; the
  code returns a graph that has only `Root`.
* Two ProtectedResources of the same group and plural share one entry of the
  webhook's index; deleting either removes it (`protectedresource_cache.go:120`)
  until the other is next updated. `LastingGrantHonoured` and `AnswersSettle` are
  for keys that one registration has at a time.
* The readiness probe passes when the informer has synced, although handlers may
  still have events to see: a review may meanwhile be denied.
* `AllowJustified` is about users by name; groups are not expanded.

### Proved

`TargetHoldProofs`, for every set of Organizations, Projects, bindings and locks,
every hash, every flag and every bound:

* `TypeCorrect`: `Spec => []TypeOK`
* `HoldInvariant`: `Spec => []HoldInv`
* `GrantsAreHeld`: with `MaxLate = 0`, `Spec => []GrantsNeverOutlive`
* `GrantsFollowUid`: with `MaxLate = 0`, `Spec => GrantNamesItsTarget`
* `ParentsAreHeld`: with `~MayUnregister`, `Spec => []ParentsNeverOutlive`

The properties are not inductive: that a stored tuple names a held object says
nothing about a writer that is about to store one, or a releaser that is about
to let go. `HoldInv` adds, in layers that each rest on the ones before:

1. `OwnerInv`, `JobInv`: what a worker works on is what is stored. A cached
   binding that is live and has its finalizer is of one that still has it, since
   only its worker takes the finalizer off, after it saw the deletion.
2. `LockInv`: a worker in its locked section holds its object's lock.
3. `VersionInv`: how old a copy can be. A copy is of an earlier incarnation or
   of this one; deletion is never undone; a copy that is live and held is of an
   object that is still held, because only a worker that saw the deletion
   releases.
4. `WriterInv`: who is about to write saw the hold under the lock, and the lock
   keeps the releaser out.
5. `ClearedInv`: between the look that finds nothing and the release, under the
   lock, nothing that names the object is written.
6. `TupleInv`: every stored tuple names held objects.

`GrantsFollowUid` needs no more: a writer at its write works for the stored
binding (`JobInv`) and has seen its UID (`WriterInv`), and a name whose object is
released has no grants at that moment (`ClearedInv`), or was never held
(`TupleInv`). That bindings share a grant plays no part, as no layer says whose a
stored grant is.

The hypotheses are the assumptions on constants in `TargetHold` (names are
disjoint, the hash is a function, bounds are natural numbers) and the two in the
theorems, which the code does not guarantee: `HoldUnregistered` shows that
`~MayUnregister` is needed.

`DeleteTuplesProofs`, for every list of tuples and every limit above zero:

* `TypeCorrect`: `Spec => []TypeOK`. The halving never reaches zero and the loop
  never passes the end of the list; that a write is under way only while
  something is left (`pc = "write" => start < N`) is what makes it inductive.
* `Refinement`: `Spec => DeletesOnlyAsPromised`, the safety of `TupleDeletion`.
  With `TypeOK` as the invariant, a step maps to a removal, a write of others, a
  return or a stutter: a batch that timed out moves nothing into `seenGone`.

`AccessProofs` continues `TargetHoldProofs`:

* `AccessLasts`: with `~MayUnregister`, `Spec => AccessLastsUntilDrained`. The run
  behind it has no bindings; the theorem covers the grants as well, late ones
  included.
* `AccessInvariant`: with `~MayUnregister`, `Spec => []AccessInv`.

`AccessInv` is what UIDs tell about copies, which `HoldInv` does not need:
Milo's finalizer never comes back to an incarnation, so
a worker that clears the object that is there has seen Milo leave it
(`DrainInv`); a Project's versions name the present owner by one UID, so who is
seen under the lock with another UID is not the owner (`OwnerUids`); and a stored
parent tuple is of the Project's present incarnation (`ParentUids`).

`ModelRolloutProofs`, for every set of types and any number of generations,
faults and restarts:

* `TypeCorrect`, `RolloutInvariant` (`Spec => []RolloutInv`)
* `ReadyPublished`, `GoneUnpublished`, `ReadyWritable`: the three invariants of
  the run

`RolloutInv` says how old each copy may be: the worker's copy of a registration
lies between what it read and what is stored, and what it lists is no older than
any status it has written. Hence the latest model, the one about to be written
and the published one all have what was marked Ready and lack what was released;
and a writer's first refusal means that the latest model, with which it retries,
is new enough, and that the ID it was pinned to is neither the latest nor the
published one.

`MembershipsProofs`, for all objects, incarnations and faults:

* `TypeCorrect`, `MembershipInvariant` (`Spec => []MembershipInv`)
* `NoOrphans`: `Spec => []NoOrphanAuthenticated`
* `ReleasedMembers`: `Spec => ReleasedMembersGone`

`MembershipInv` orders the incarnations of a name by their UIDs, bounds the age of
the copy each reconcile acts on, and says what is certain before a finalizer comes
off: the tuple was seen gone, or deleted, and nobody else may write it for that
incarnation. It needs that Users, ServiceAccounts, Groups and GroupMemberships do
not share keys (`NamesDiffer`), which their kinds guarantee.

`PolicyBindingsProofs`, for all bindings, Roles, subjects and permissions:

* `TypeCorrect`: `Spec => []TypeOK`
* `NoneLeftBehind`: from a settled start, as long as no binding is created or
  edited, `[]NoOrphanGrants` - Roles and registrations may change in any way, and
  calls fail and the leader restart any number of times
* `NothingLost`: with the flag and things only taken away, `[]SharedGrantsKept`
* `SharingInvariant`, `SettledLeaveNone`, `SettledLoseNone`: the same for the
  specification of the run, whose faults are bounded

`AnsweredFor` says that for each stored tuple one binding answers: it is live or
being deleted, names the subject, and has not passed the point where it would
remove the tuple. `SparingInv` says that caches err towards keeping: whatever a
sibling still asks for is in the copy that the remover has of it, since copies lag
behind and things only go.

`RolesProofs`, for all Roles, references and plans of what users do:

* `TypeCorrect`, `RoleInvariant` (`Spec => []RoleInv`)
* `TuplesGoFirst`: `Spec => []RoleTuplesGoFirst`
* `StatusIsObserved`: `Spec => ObservedIsStored`
* `WalksReach`: `Spec => []WalkIsReachability`
* `SteadyWalk`: if the cache of Roles stays as it is from before a reconcile
  starts, the status it computes, one Get at a time among everybody's steps, is
  that of what can be reached in the cache. It is stated of the specification
  without fairness, whose behaviours may stop anywhere, and so covers a cache that
  changes later

`RoleInv` says that the informer is behind storage by its undelivered writes and
by nothing else; hence a reconcile whose copy has the stored version has the
stored Role, and an update that does not conflict writes what it computed from
that. Every Role with tuples has the finalizer. That only Roles which exist
at the start have such tuples is part of the assumption on casts (`CastTypes`).

`WalksReach` needs no induction over the graph. An iteration to an end has a
solution whether or not it ends (`IterationDefined`), and ends where a finite set
shrinks with every round, or stays and a number falls (`IterationEnds`, by a
minimal counterexample). A walk does: a Get enters a Role it has not visited, or
leaves one reference fewer to look up. `WalkFrom` is what each Get keeps: what was
visited, missed or is still to be looked up can be reached, and has all that the
visited Roles inherit; with nothing left to look up it is closed, so it is all
that can be reached. The search for dependents is the same along reversed
references. `SteadyWalk` carries `WalkFrom` through the steps of the reconcile.
That there are finitely many names is an assumption (`NamesFinite`).

`AuthorizerProofs`, for all registrations, hierarchies, models, tuples and reviews:

* `TypeCorrect`, `ReviewInvariant` (`Spec => []AuthorizerInv`)
* `AllowsAreJustified`: `Spec => AllowJustified`
* `LastingGrantsHonoured`: `Spec => []LastingGrantHonoured`
* `HierarchiesAreClosures`: `Spec => []HierarchyIsClosure`

`AuthorizerInv` follows registrations from the API server over the handlers into
the index: each copy stems from one that someone registered, and stands under its
own key. So each of a review's three reads finds the type of the resource it asks
for, and the objects it checks are those a grant may be on, also when the three
find different versions. The other half is about OpenFGA: a check that follows
parent tuples says yes only when there is a grant at the end. `CheckUnfolds` shows
that the recursion has a solution (a least set closed under its steps), and
`CheckIsGranted` that a yes without a grant would lead from owner to owner for
ever, which `OwnersAbove` excludes: Organizations own Projects, Projects own what
is in them, and never back.

`LastingGrantsHonoured` goes the other way, from a grant to a yes, and has an
invariant of its own, `LastingInv`, in three parts. `KeptInv`: a registration that
lasts is what the API server has, and no plan, event or cached copy gives its type
or key to another; so the index has it under its key in each of a review's three
reads (after a restart the review is gone with the process). `ModelsInv`: every
model ever written, so whichever a review has pinned, was made from registrations
that include it, and was accepted. `DueInv`: a review that must be allowed is at a
step that leads to it. What is left is that an accepted model lets the grant
through. A recursive walk is defined on every graph, cyclic ones included
(`WalkDefined`), and hands what a node collects to the node it was reached from
(`PermissionsPassedOn`); so a relation that an object's type has, every parent type
that the object's type accepts has as well, which an accepted model defines
(`ParentHasRelations`). `GrantIsChecked` takes this along the parent tuples: if
the object were refused, so would be each of its owners in turn, all with the
relation, and the owners that are refused would be a set closed under parent
tuples; `Above` is the least such set, so the owner with the grant would be
refused as well. `Due` fixes when a review must be allowed: the grant lasts, so do
the registrations of the types on the way from the object to the grant, a model is
there, and the index has caught up with the registration.

`HierarchiesAreClosures` is about graphs of any shape. Finitely many types are
registered, so where each type of a set has a child in it there is a cycle
(`EndlessHasCycle`, from a minimal set below a type). A type or permission that a
walk collects without its being below the start would have another such below it,
and so on: without a cycle there is none (`WalkIsExact`), and `GraphCovers` and
`PermissionsCover` have the other direction. The check for cycles carries the
types above it as a second argument, and says no exactly when it can come upon one
of them (`CycleBelowMeets`, over a largest such set); from a root, with nothing
above it, that is when a type lies below itself (`BuildsWithoutCycle`).

`AccessInv`, `AuthorizerInv` and `LastingInv` are defined with their proofs and no
run checks them. The first two were model-checked on their runs' instances before
they were proved; `LastingInv` quantifies over all registries, which TLC cannot
enumerate, and rests on its proof.

Only model-checked:

* liveness: `DeletionCompletes`, `Converges`, `GrantsArrive`, `RolloutCompletes`,
  `AuthenticatedSettles`, `MembersSettle`, `DeletedObjectsLeave`, `RolesSettle`,
  `AnswersSettle`, and that the batched delete returns (the other half of
  `DeletesAsPromised`): fairness and `ENABLED` are out of the prover's reach.

### Not modelled

* Index functions: they name index keys, and the models list by what is indexed.
* Rate limiter and configuration: back-off only delays a key, and time is not
  modelled; configuration is data.
* Process start-up: wiring. What decides something is in the modules (the client
  timeout, the readiness probe, leader change as a restart).
* Telemetry, HTTP framing, performance fixtures, the wording of conditions,
  events and denials, the layout of type definitions, tuple encoding.
* PolicyBinding subject validation and conditions: `PolicyBindings` takes a subject
  to exist with its UID, `TargetHold` leaves the outcome open, and no step reads a
  condition.
* The webhook's discovery cache: discovery answers or fails.

## 5. Plan

Done: all modules of section 2, and proofs of every safety property of the passing
runs. What is left, in order:

1. `GrantStore`: the abstract promise of all tuple writers together - a tuple is
   stored only while someone asks for it and what it names is held - with
   `TargetHold` and `PolicyBindings` shown to implement their halves.
2. PolicyBinding subject validation, and the discovery cache with a resource
   whose scope changes while an answer about it is cached.
