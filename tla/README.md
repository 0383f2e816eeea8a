# A TLA+ model of Kubeflow Notebooks' Workspace control plane

Kubeflow Notebooks 2.0 runs *Workspaces* (a StatefulSet with one Pod each) that
are described by *WorkspaceKinds*. The code lives under `src/workspaces/`: a
Kubernetes controller with admission webhooks (`controller/`), an HTTP backend
(`backend/`) and a browser frontend (`frontend/`). This directory models the
controller, its webhooks and the backend, checks the models with TLC on small
instances and proves their safety properties with TLAPS for all instances.

## 1. The system

### Components, state and operations

| Component | State it keeps | Operations | What makes it correct |
|---|---|---|---|
| Workspace controller, rollout (`internal/controller/workspace_controller.go`) | the Workspace's `status`; the spec of the StatefulSet it owns | one `Reconcile`: read the Workspace, update the StatefulSet, delete an outdated Pod, write `status`; early returns through `updateWorkspaceState*` | deletes only what is outdated; reports what is true; converges |
| Workspace controller, activity (`workspace_activity.go`, `helper/activity.go`, `helper/probe.go`) | `status.activity` | schedule and run a probe inside `Reconcile`, decide, patch `spec.paused` | pauses idle Workspaces, in time, and no others; never overrides a user |
| Workspace controller, owned objects | ServiceAccount, StatefulSet, Service, VirtualService, RoleBindings | list by owner, create with `generateName`, adopt, update, refuse duplicates | one object of each kind per Workspace; RoleBindings equal the wanted set |
| Workspace controller, options | none | `getImageConfig`, `getPodConfig` follow redirect chains | agrees with the webhook's cycle check; terminates |
| WorkspaceKind controller (`workspacekind_controller.go`) | the kind's `status` (usage counters, assets), its finalizer | list Workspaces, drop the finalizer when there are none, publish counters | counters become true; an unused kind can be deleted |
| WorkspaceKind webhook | none | `ValidateCreate/Update/Delete` | a kind or option in use is not removed; updates checked in part add up |
| Workspace webhook | none | `ValidateCreate/Update` | the kind and the options exist |
| Manager | shared informer caches, field indexes, work queues | watches, predicates, event mapping | every change that matters wakes the right reconciler |
| Backend repositories | none of their own (the API server's) | create, read, update and delete Workspaces, kinds, Secrets, PVCs; pause and start | an accepted write replaces what its caller saw; nothing is lost |
| Backend filter rules | none | evaluate ordered rules over labels | what is offered is what is accepted |
| Backend handlers and authorizer | verdicts of SubjectAccessReviews, for 10 s | check, authenticate, authorize, call, answer | no call without a permission; documented answers |
| Frontend | UI state | calls to the backend | - |

### How they interact

There are no direct calls between the controllers: they share objects in the
API server. Reads go to the manager's informer cache, which lags; writes go to
the API server, which refuses one that is based on an old `resourceVersion`;
changes come back as watch events, which both update the cache and put an
object's key in a work queue. A key is handled by one worker at a time, and
events for a key that is being handled are merged into one later run. A
reconcile that fails, or returns `RequeueAfter`, is run again. The webhooks run
in the same process, on the same cache, for requests of anyone. The backend is
another process with a cache of its own and many requests at a time; what it
writes passes through the webhooks and wakes the controllers.

### What is hard

* A reconcile is a sequence of API calls; users, the StatefulSet controller, the
  kubelet and the other controllers act between any two of them, and the process
  can die between any two of them.
* Decisions mix data of different age: a Pod from one cache, a StatefulSet from
  another, a status that another controller will only update later.
* Owned objects have generated names and are found by listing a late cache; a
  Workspace created again under the old name finds its predecessor's.
* After every early return something has to wake the controller again.
* The probe runs for seconds inside a reconcile while the Workspace is in use.
* Two webhooks each decide on a cache that does not show the other's request;
  updates of a kind are validated only in part.
* The backend checks what it read, maybe late, and then writes; answers get
  lost; verdicts of the authorizer outlive the permission.

`PROJECT.json` lists these as hazards, each at its line with the properties that
would catch it going wrong.

## 2. The modules

| Module | Models | Checked by | Proved in |
|---|---|---|---|
| `Informer` | cache, API server and watch events of one object | (used by others) | `InformerProofs` |
| `WorkspaceRollout` | Workspace, StatefulSet, Pod and `Reconcile` | `rollout_stale`, `rollout` | `WorkspaceRolloutProofs` |
| `OwnedResources` | the owned objects and RoleBindings, call by call | `owned` | `OwnedResourcesProofs` |
| `KindProtection` | a WorkspaceKind, its Workspaces, both controllers, both webhooks | `kind_settles`, `kind_in_use_deleted` | `KindProtectionProofs` |
| `ActivityPause` | the activity part of `Reconcile`, a clock, a user | `activity`, `activity_lost_report`, `activity_missed_restart` | `ActivityPauseProofs` |
| `FilterRules` | the filter rules engine, the choice of the pause rule | `options` | `WorkspaceOptionsProofs` |
| `KindAdmission` | the checks of the kind's webhook, and what the controller needs of an admitted kind | `options` | `WorkspaceOptionsProofs` |
| `WorkspaceOptions` | kind, namespace labels and a Workspace's options over time; composes the two above | `options`, `options_denied` | `WorkspaceOptionsProofs` |
| `ObjectRegister` | abstract: what the backend promises about one object | (refined by `BackendStore`) | `BackendStoreProofs` |
| `BackendStore` | the repositories of Workspaces, kinds, Secrets, PVCs | `store` | `BackendStoreProofs` |
| `ApiHandlers` | every handler of the REST API as its sequence of stages | `requests` | `BackendRequestsProofs` |
| `OpenApiDocument` | the statuses the OpenAPI document gives per operation | `requests` | `BackendRequestsProofs` |
| `BackendRequests` | requests on their way, the authorizer and its cache; composes the two above | `requests` | `BackendRequestsProofs` |

`MC*.tla` are the modules TLC is given; the constants are in the `.cfg` files.

### Informer

A watched object is a non-empty sequence of versions: the head is what the cache
has, the last one what the API server stores, and what lies between is under
way. `Put` is an accepted write, `Tail` a watch event, `Relisted` a restart.
`Current` says that a write based on the cached version would be accepted.

### WorkspaceRollout

`workspaces`, `statefulSets` and `pods` are such sequences; `r` holds the step
and the locals of the reconcile in progress, `queued` whether the key is in the
work queue. One action per stretch of code between two API calls:

| Action | Code |
|---|---|
| `Begin` | the start of `Reconcile`, up to the StatefulSet |
| `ReconcileStatefulSet` | list, `generateStatefulSet`, `CopyStatefulSetFields`, update, conflict, error |
| `ReconcilePod` | get the Pod, the pending-revision test, the Delete call with its preconditions |
| `UpdateStatus` | `generateWorkspaceStatus`/`generateWorkspaceState` and the final `Status().Update`; the error return when the Warning Events cannot be listed |
| `updateWorkspaceState` | the status update of an early return |
| `Watch*`, `WarningEvent`, `ServedAgain` | `SetupWithManager`, `predWarningEvent`, `mapEventToRequest`, the queue |
| `Crash` | the process stops and starts again |
| `SelectOption`, `SetPaused` | a user edits the spec |
| `Sts*`, `Pod*` | the StatefulSet controller (with a cache of its own) and the kubelet |

`r.fresh` says whether the `resourceVersion` in hand is still the stored one;
an edit clears it. A template stands for its own revision hash, and an
imageConfig/podConfig pair is one `option`. `generateWorkspaceState` keeps the
order of the code's tests; Pod phases, conditions and container states are
reduced to the classes those tests tell apart.

Not in this module: creation and adoption of the StatefulSet and the other owned
objects (`OwnedResources`), a Pod of the right name with a foreign owner, the text of
`status.stateMessage`.

### KindProtection

One WorkspaceKind and the collection of its Workspaces. `WsBegin`,
`WsAddFinalizer` and `WsUpdateState` are what a Workspace's reconcile has to do
with its kind; `KindBegin`, `KindRemoveFinalizer` and `KindUpdateStatus` are
`WorkspaceKindReconciler.Reconcile`; `WatchKind` and `WatchWorkspaces` contain
the predicates of both `SetupWithManager` functions (who is woken by which
change); requests are guarded by `ValidateWorkspace`, `ValidateKindUpdate` and
`ValidateKindDelete`. `counted` is history: the Workspaces that a published
counter has included and that have not been deleted since.

### ActivityPause

One Workspace, its StatefulSet reduced to a scale and "status is current", a Pod
that is ready or not, a clock and a user. The decision functions
(`recordRunningTransition`, `timeUntilProbeDue`, `IsEligibleForPause`,
`evaluatePauseDecision`, `updateActivityStatusFromProbe`) are translated one by
one. The steps of a reconcile are `Begin`, the probe (`ProbeSucceeds`,
`ProbeFails`), `UpdateStatus` and `PatchPaused`. Whether the API server accepts
the merge patch depends on its body: it contains
`metadata.resourceVersion` exactly when this reconcile has updated the status
before, because the patch is computed against the object that was read
(`PatchAccepted`). `prompt` is chosen at the start: a controller that keeps up
with the clock or one that may be arbitrarily slow. `lastUse`, `reported` and
`r.used` are history about the user.

### OwnedResources

`objs[k]` are the versions of the SET of objects of kind `k` that name the
Workspace as owner; a list returns the cached set. `pass` is the reconcile in
progress: the Workspace as it was read, the names of the ServiceAccount and the
Service that later objects refer to, and the rest of the two loops of
`reconcileRoleBindings`.

| Action | Code |
|---|---|
| `BeginReconcile` | the start of `Reconcile` |
| `ReconcileServiceAccount`, `-StatefulSet`, `-Service`, `-VirtualService` | one `ReconcileOne` each: several found is an Error without retry, none is created, one is adopted (`ReplaceWorkspaceAsController`, `Copy*Fields`) and updated if it differs |
| `ListRoleBindings`, `ReconcileRoleBinding`, `CreateRoleBinding`, `RoleBindingsDone` | `reconcileRoleBindings` |
| `FinishReconcile` | the status update at the end |
| `Deliver*` | watch events; all of them queue the Workspace |
| `Collect` | the garbage collector |
| `EditWorkspace`, `EditKind`, `Tamper`, `Restart` | deletion and creation, `clusterRoles`, foreign edits and deletions, a restart of the manager |

A failed call (`FailedCall`) can replace every write. An object is reduced to
its name, the UID of its controller, the name it refers to (or `Foreign`) and
its `resourceVersion`. Names are reused once nothing refers to them, and
`resourceVersion` is counted modulo the versions that others can store in one
reconcile, so that the state space is finite without bounding reconciles. A
behaviour has one `Setting` that says how far each difficulty goes.

### FilterRules, KindAdmission, WorkspaceOptions

`FilterRules` translates `filterrules/engine.go`: which labels a condition looks
at, absent context, selectors that do not compile, scopes, first match wins; and
what the read and write paths of the backend do with the result. Label sets are
sets; a selector asks for one label. `KindAdmission` has the kind's webhook:
`ValidateCreate`, `ValidateUpdate` with the conditions under which it looks at a
field at all, the redirect check with its cycle detection in any order of Go's
map iteration, and on the controller's side `ConfigResolves`
(`getImageConfig`/`getPodConfig`) and `Generates`. A name, metadata, a template,
a probe script are well-formed or not. `WorkspaceOptions` is the state machine:
the kind, the labels of a namespace and a Workspace are written in any order,
through the backend or with kubectl. Each webhook gets the object that is
written with the request and the other one from a cache that may be behind:
`seen` is the Workspace that the kind's webhook counts (`Observe`), `known` are
the option ids of the kind that the Workspace's webhook looks in
(`ObserveKind`). A deletion of the kind is judged on neither: `ValidateDelete`
tests `used`, which stands for `status.workspaces > 0` or the finalizer, as the
controllers last published it from the cache (`PublishUse`; in one step here, in
the steps of both controllers in `KindProtection`). `raced` is history: a write
was admitted that concerns the other object while what was known of it was out of
date, that is an update of the kind with `seen` behind, a deletion with `used`
untrue, or a change of the Workspace with `known` behind.

### ObjectRegister, BackendStore

`ObjectRegister` is the promise: a request takes effect at one moment or not at
all, an accepted update of a Workspace or kind replaces the revision its caller
named, an update of a Secret keeps what it does not name as it is at that
moment, start needs a paused and stopped Workspace. `BackendStore` is the code:
per client the request, the stage of its handling and the copy that was read,
from the cache or (Secrets) the API server; the revision is the UID and the
generation; the write carries the `resourceVersion` of the copy. Answers can be
lost (`Succeed` may leave the caller's revision as it was); the controller,
administrators and kubectl write in between (`Others`). `Register` is the
refinement mapping: the stored object and what callers were told.

### ApiHandlers, OpenApiDocument, BackendRequests

Each handler is the sequence of its stages - checks, `requireAuth`, the
repository call, the answer - with the statuses each can write, in the order of
the code (some handlers authorize before they read the body, others after). A
call names the operation that the handler is for; what the repository also reads
to carry it out (the kind, the namespace and the claims in `CreateWorkspace`, the
kinds and Pods behind a list) is left out, so that `CallsWereAllowed` says
nothing about those reads.
`BackendRequests` runs requests through them: the delegating authorizer
(external) answers from its cache or asks the API server, whose answer takes
time; RBAC changes; any stage may panic. `mayPass` and `mayFail` record whether
the permission was held, or missing, at some time since `TTL + Latency` before
the request arrived.

## 3. What the runs show

| Run | Properties | Bounds |
|---|---|---|
| `rollout_stale` | `TypeOK`, `DeletesOnlyOutdatedPod`, `RunningReportsCurrentPod` | 2 options, 2 edits, caches up to three events behind |
| `rollout` | `Convergence`, `WarningReported` | 2 options; 2 in all of: edits, failed calls, crashes, Warning Events, Pod disturbances; caches one event behind |
| `kind_settles` | `TypeOK`, `CountedWorkspaceKeepsKind`, `CountersSettle`, `BrokenReferenceReported` | 1 Workspace, 2 options, 4 requests, 1 fault or crash |
| `kind_in_use_deleted` | `KindInUseIsKept` is violated | 1 Workspace, 2 requests |
| `activity` | `TypeOK`, `PausedInTime`, `PauseKeepsEdits`, `PauseConfirmedIdle` | 2 edits, or 1 edit and 1 fault (a failed call or probe, a crash); time up to 4 for a slow controller, 12 for a prompt one |
| `activity_lost_report` | `ReportedActivityCounts` is violated | 1 edit |
| `activity_missed_restart` | `PauseAfterMinRunning` is violated | 1 Pod restart |
| `owned` | `TypeOK`, `EventuallyInPlace`, `OwnerNeverReverts`, `DeletesAsListed` | 1 ClusterRole, 3 names per kind, 4 settings of `MCSettings` |
| `store` | `TypeOK`, `ImplementsRegister` | all four resources, 2 clients, 3 requests, 3 versions, cache one event behind |
| `requests` | `TypeOK`, `CallsWereAllowed`, `RefusalsWereDenied`, `AnswersDocumented` | all operations, 2 requests, TTL 2, Latency 1 |
| `options` | `StoredKindValid`, `StoredKindUsable`, `UsedOptionsResolve`, `OfferedIsAccepted` | 90 kinds, 3 images, 2 pod configs, 2 labelings |
| `options_denied` | `UpdateSelectsAllowed` is violated | the same |

Why the bounds are enough.

* *Rollout.* Two options and two edits give A->B->A, the case in which a stale
  StatefulSet or Pod looks right; three events under way let a Pod be marked,
  removed and replaced behind a cache that still shows the old one, which is
  what the preconditions of the Delete call are for. For convergence one event
  per object is enough for every pair of caches to disagree in either order; one
  mishap can fall between any two steps, before or after the call it hits took
  effect. There the Workspace is created unpaused and with a fixed option
  (`MCLiveSpec`): options are interchangeable, and users pause and resume it.
  For `WarningReported` one of the two is the Warning Event, posted before or
  after the status names its Pod, and the other an edit that replaces the Pod, or
  a failure or crash while the Pod is being recorded.
* *Kinds.* Four requests let a Workspace be created, changed and deleted while
  the kind changes. The invariants are proved for any number of Workspaces.
* *Activity.* The first moment at which a pause is allowed is 3, so the clock of
  a slow controller leaves one probe interval beyond it, and a conflict or a
  failure in between. `PausedInTime` allows an idle Workspace one probe interval
  and two probe timeouts (`Slack`), and for each edit or fault one idle period
  more (`Respite`): a Workspace that the controller has just paused and that is
  resumed before its Pod stops begins a new run, with a new `lastRunningTime`.
  The clock of a prompt controller goes past the latest moment allowed after one
  edit or fault, so that a lost requeue shows.
* *Owned objects.* Two edits delete and recreate the Workspace (or change the
  roles in between); three names per kind leave room for a duplicate while an
  old object is still referred to; late kinds are one object that others refer
  to and the RoleBindings. The settings go deep in one direction each: edits,
  edits with lists that miss new objects, mishaps with and without them.
* *Store.* Two clients and three requests contain the races between a read and a
  write of one and a write of the other, and a repetition after a lost answer;
  the refinement is also proved without bounds.
* *Requests.* Two requests share one cache entry; requests that need different
  permissions share nothing, so a behaviour is about one permission. The clock
  is relative and does not end.
* *Options.* Every redirect graph over one or two images, edges to a missing
  third included, and those over three in which no image redirects to itself; and around one kind
  every combination of the fields that are validated together (ports and image
  ports, probe and activity rules, rules of every scope, malformed data).

Deadlock is checked in `rollout_stale`, `rollout`, `requests`, `options` and
`options_denied`. The others switch it off because those models stop when the
requests, the edits or the clock run out, with nothing left to do.

Each property has a mutant in `PROJECT.json`: an operator next to the definition
it replaces, marked "Mutant", with which TLC finds the property violated.

### Fairness

`WorkspaceRollout!Fairness` and `KindProtection!Fairness` are weak fairness of
the controllers' workers, of the delivery of watch events, of the StatefulSet
controller and of the kubelet's removal of deleted Pods;
`OwnedResources!Fairness` is that of the worker, the watches and the garbage
collector. controller-runtime keeps handing out queued
keys and informers re-establish their watches, which is what this says. Nothing
is assumed of users, mishaps, resyncs or the expiry of Events. `Convergence`
therefore says that the controller's own requeues and watches suffice. That a
Pod without further trouble becomes ready is a premise of `Convergence`
(`PodsBecomeReady`) and not assumed for `WarningReported`: it would wake the
controller anyway and hide a Warning Event that was mapped to no Workspace.

`EventuallyInPlace` has a premise of its own: from some time on, reconciles start
when no watch event is under way. Without it there is a livelock: a reconcile
that conflicts because its list is late is repeated at once, and nothing says
that the list is newer then. With real delays the event arrives within the
retries.

`ActivityPause` has no fairness: `PausedInTime` is an invariant, for the
behaviours in which time passes only when controller and cluster have nothing to
do (or a probe is running). Probing, requeueing and back-off take time in
reality; the bound is about the schedule, not about that overhead.

### Findings

* **A kind in use can be deleted** (`kind_in_use_deleted`). `ValidateDelete`
  tests `status.workspaces` and the finalizer. Both appear only after the
  controllers have seen the Workspace; before that a deletion passes.
  `CountedWorkspaceKeepsKind` is what does hold, and `BrokenReferenceReported`
  says the Workspace then ends up in state Error. The removal of an option races
  with the creation of a Workspace that selects it in the same way, each
  admitted on a cache that does not show the other. `UsedOptionsResolve` excepts
  exactly these races by its premise `~raced`.
* **Reported activity can be lost** (`activity_lost_report`). When the status
  update that records `has_activity: true` conflicts, the reconcile is repeated
  at once and a second probe that says `false` leaves the old `lastActivity` in
  force, on which the Workspace is paused. A probe that reports `last_activity`
  is not affected (`PauseConfirmedIdle`).
* **A restart can be missed** (`activity_missed_restart`). `lastRunningTime`
  changes only when the previous status was not Running; a Pod that stops and is
  ready again between two reconciles keeps the old time, and the new run can be
  paused before `minRunningSeconds`.
* **An update can reach a denied pair of options** (`options_denied`).
  `UpdateWorkspace` evaluates only the rules of the option that changes. A
  `POD_CONFIG` rule that also matches on the image is not evaluated when only
  the image changes, although creating that pair is refused and the API says of
  `deny`: "reject any workspace create/update which selects it".

More observations, which are not at odds with anything the repository says:

* When the patch of `spec.paused` conflicts after the probe was recorded, the
  retry finds no probe due and the pause waits for another probe interval
  (`PausedInTime` allows for it, as for every edit and fault).
* While caches disagree after an A->B->A edit, a reconcile may delete a Pod of
  the option the user wants in the end, because the Workspace it read still has
  the other one (`DeletesOnlyOutdatedPod` is about the option that was read).
* A list that misses an object created by the previous reconcile makes a
  duplicate, which the controller reports but never removes
  (`DuplicatesReported` is one of the two outcomes of `EventuallyInPlace`).
* An update can be answered 409 although the caller named the stored revision:
  the backend compares with its cache.
* A Secret or PVC whose can-update label is removed after the handler read it is
  deleted all the same.
* The list of option values without a selected counterpart can hide or deny a
  value that a create accepts: a condition without context does not match, and
  then a later rule may be the first that does. `OfferedIsAccepted` is about
  lists that name both options.
* `updateSecret` documents a 409 that the handler never returns
  (`AnswersDocumented` is the other direction).

## 4. What is proved

Every invariant and every action property that a passing run checks, and the
refinement, is also a theorem: TLAPS checks it for every set of options,
Workspaces, clients, roles and kinds, all times and all bounds. The assumptions are
the named `ASSUME`s:

| Assumption | Says |
|---|---|
| `OptionsAssumption`, `DefaultAssumption`, `AbsentAssumption` | there is an option, the default is one; "no revision", an absent kind or Workspace is none |
| `NamesAssumption`, `FiniteAssumption` | finitely many Workspaces; finitely many options in a kind |
| `IntervalsAssumption`, `FieldsAssumption` | what the CRD and the webhook guarantee of the probe's intervals and of the fields a script reports |
| `TimesAssumption` | the authorizer's TTL and latency are natural numbers |
| `BoundsAssumption` (per module) | bounds are natural numbers, settings are settings |

`PauseIsConfirmed` has one hypothesis more, `Fields \subseteq {"last_activity"}`,
as the run that checks it does: with `has_activity` the property is false, which
is the finding of `activity_lost_report`.

* `InformerProofs`: what `Put`, `Tail`, `Relisted`, `Cached` and `Stored` do to a
  sequence of versions.
* `TypeCorrect` of `WorkspaceRolloutProofs`, `KindProtectionProofs`,
  `BackendStoreProofs`, `OwnedResourcesProofs`, `ActivityPauseProofs` and
  `BackendRequestsProofs`: `Spec => []TypeOK`.
* `WorkspaceRolloutProofs!DeletesOnlyOutdated` and `RunningReportsCurrent`. Both
  rest on `RolloutInv`. The reconcile concludes "this Pod is outdated" from
  `observedGeneration = generation` and `updateRevision`, so one needs
  that these fields are truthful in every version that a cache can still get
  (`VersionsCoherent`). That is inductive only together with what the
  StatefulSet controller knows (`ViewCoherent`), because it writes the status
  from its own, possibly old, view. `LocalsCoherent` carries the fact to the
  later steps of a reconcile, `FreshRead` says that a status update which is
  accepted meets the spec it was computed for, and `EarlyReport` that early
  returns never say Running.
* `KindProtectionProofs!CountedKeepsKind`. `CountedWorkspaceKeepsKind` is not
  inductive: a reconcile of the kind may be about to publish an old count.
  `ProtectionInv` adds that every counted Workspace is in every version the
  cache has or will get (`CountedLasts`), that hence the list in a reconcile's
  hands includes all of them and its count is not zero (`ListComplete`), and
  that an accepted write is based on the stored object (`KindFresh`, `WsFresh`).
  Caches that only move forward are what makes this work, and `LastingCache` is
  where that is used.
* `BackendStoreProofs!StoreImplementsRegister`: `Spec => Register!RegSpec`. The
  inductive invariant `StoreInv` says that `resourceVersion`s rise along the
  versions (`VersionsRise`), and that the copy a handler is about to write
  passed the checks for this caller and, if its `resourceVersion` is the stored
  one, is the stored object (`CopiesFit`). So the checks, made on a possibly
  late copy, hold of the object being replaced whenever the API server accepts.
  Every step then maps to a step of the register or a stutter.
* `WorkspaceOptionsProofs!StoredKindStaysValid`: what `ValidateUpdate` skips
  depends only on fields that the update leaves alone, one lemma per group of
  fields; hence whatever is stored would pass `ValidateCreate`.
* `WorkspaceOptionsProofs!StoredKindIsUsable` and `UsedOptionsKeepResolving`.
  Given a valid kind, the step is a fact about graphs, `ValidRedirectsResolve`:
  redirects that some run of the webhook's loop accepts lead the controller from
  every option to one without a redirect, in at most as many steps as there are
  options. It goes by induction over the loop's turns. `LoopFits`, the loop's
  invariant, says that `checked` holds only nodes from which the walk ends; a
  node that the detection adds reaches a checked node or an end
  (`CheckedTerminate`), and because the walk to the first end repeats no node,
  the pigeonhole principle bounds it. The library's induction theorems have an
  operator as a parameter, so induction is used through `LeastNatural` and
  `NaturalsAreInductive`, about sets of naturals; `WalkDef` and `LoopRuns` show
  that the recursive function and the fold satisfy their equations. For
  `UsedOptionsKeepResolving` the invariant is `UsedOptionsStay`: the kind's
  webhook keeps the options its cache shows in use, the Workspace's webhook
  looks only at options that change, and with what is published about the use of
  the kind they keep the reference intact as long as each of them was current
  when it let a write through. The premise is about knowledge only: a write on
  current knowledge is not excepted, whatever it writes.
* `WorkspaceOptionsProofs!OfferedOptionsAreAccepted`: the context that the list
  of option values builds is the one the create path builds (`SameContext`), and
  being listed without a restriction is passing the enforcement
  (`ShownUnrestricted`).
* `OwnedResourcesProofs!OwnersNeverRevert` and `DeletesOnlyListed`. A reconcile
  writes the UID it read, maybe long ago, into what its list shows. `OwnInv` says
  why nothing newer is there to be overwritten: UIDs rise along the versions of
  the Workspace (`UidsRise`), the reconcile under way read one no later than
  those still to be read (`PassIsOld`), and so is every owner that is stored
  (`OwnersAreOld`). `NamesUnique` makes an object's name identify it.
* `BackendRequestsProofs!CallsAreAllowed`, `RefusalsAreJustified` and
  `AnswersAreDocumented`. One part is by cases over every handler
  (`StagesSound`): it asks before it calls, for a permission that covers the
  call, and writes only documented statuses. The other, `ClockFits` and
  `RequestFits`, is about time: a cached verdict is no older than its entry and
  the review together, so that what decides a request was true at most
  `TTL + Latency` before it arrived.
* `ActivityPauseProofs!PauseKeepsEveryEdit` and `PauseIsConfirmed`. `PauseInv`
  says that the Workspace in the reconcile's hands is the stored one while
  `fresh` (`Reading`) and that a status that goes with a pause always differs
  from the one read, so that the patch carries a `resourceVersion` (`Deciding`):
  this is why an edit under way makes the patch fail. `Confirming` adds that a
  reconcile that is about to pause has itself seen the last use.
* `ActivityPauseProofs!IdleIsPausedInTime`, a bounded-response property proved as
  an invariant. `Following` says that whatever differs from what was last
  reconciled has the key in the queue, `Settling` what a cluster with nothing to
  do looks like (state and scale agree, the next probe is scheduled), and
  `KeepingUp` adds up the time: how late each of the recorded moments can be
  after so many mishaps. The proof corrected the property: one probe interval
  per mishap, as it was stated before, is not enough when a resume starts a new
  run and `secondsSinceActive` is long.

Only model-checked: liveness (`Convergence`, `WarningReported`, `CountersSettle`,
`BrokenReferenceReported`, `EventuallyInPlace`); fairness is out of the prover's
reach. The four runs that expect a violation are counterexamples.

## 5. What is not modelled, and the plan

Not modelled: the frontend (UI state, no protocol beyond the calls that
`requests` and `store` cover); generated code (deepcopy) and the schemas of the
OpenAPI document; the conversion of objects to and from JSON models and the
text of messages; string validation of names and metadata (a field is
well-formed or not); asset hashes in the kind's status; CORS, telemetry and
flags; what the read-only repositories (storage classes, namespaces, logs,
metrics) compute, including the metrics cache, on which no other step depends; a
Pod of the right name that another owner controls.

Left to do, in this order:

1. Proofs: safety facts on which the liveness properties rest, above all that a
   Workspace whose objects are not in place is queued, awaited by a watch event
   or reported (`OwnedResources`, `KindProtection`).
2. A composition of `OwnedResources` with `WorkspaceRollout`, in which the
   StatefulSet that is adopted from a deleted Workspace still runs its Pod.
3. The status of icon and logo assets in the WorkspaceKind controller.
