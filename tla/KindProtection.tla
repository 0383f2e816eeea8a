--------------------------- MODULE KindProtection ---------------------------
(***************************************************************************)
(* How a WorkspaceKind is kept as long as Workspaces use it.               *)
(*                                                                         *)
(* Four parties work on one WorkspaceKind: each Workspace's reconciler     *)
(* adds the protection finalizer, the WorkspaceKind reconciler removes it  *)
(* and publishes usage counters in `status`, the WorkspaceKind webhook     *)
(* refuses deletions and removals of options in use, and the Workspace     *)
(* webhook refuses Workspaces of unknown kinds and options.  Each decides  *)
(* on what it finds in a cache, or in a status another one maintains.      *)
(*                                                                         *)
(* An `option` is an imageConfig or podConfig id: the code treats the two  *)
(* alike.  Redirects, option specs and assets are left out.                *)
(***************************************************************************)
EXTENDS Informer, FiniteSets

CONSTANTS
    Names,          \* names a Workspace of this kind can have
    Options,        \* option ids
    Default,        \* the spawner's default option, which always exists
    MaxOps,         \* bound: requests of users and administrators
    MaxLag,         \* bound: watch events under way per kind of object
    MaxFaults       \* bound: controller crashes and failed API calls

ASSUME DefaultAssumption == Default \in Options
ASSUME BoundsAssumption == MaxOps \in Nat /\ MaxLag \in Nat /\ MaxFaults \in Nat
ASSUME NamesAssumption == IsFiniteSet(Names)

VARIABLES
    kinds,          \* versions of the WorkspaceKind
    workspaces,     \* versions of the collection of Workspaces of this kind
    wsQueue,        \* Workspaces in the Workspace controller's queue
    wsRun,          \* the reconcile in progress of each Workspace
    kindQueued,     \* the WorkspaceKind is in its controller's queue
    kindRun,        \* its reconcile in progress
    counted,        \* history: Workspaces that a published counter has included,
                    \* and that have not been deleted since
    spent           \* how much of each bound has been used

vars == <<kinds, workspaces, wsQueue, wsRun, kindQueued, kindRun, counted, spent>>
-----------------------------------------------------------------------------
Kind ==
    [exists : BOOLEAN, deleting : BOOLEAN, finalizer : BOOLEAN,
     options : SUBSET Options, count : Nat, usage : [Options -> Nat]]

Workspace == [exists : BOOLEAN, option : Options, state : {"Unknown", "Valid", "Error"}]

WorkspaceRun ==
    [step : {"idle", "kind", "state"}, ws : Workspace, fresh : BOOLEAN,
     next : {"Unknown", "Valid", "Error"}]

KindRun ==
    [step : {"idle", "list", "status"}, kind : Kind, fresh : BOOLEAN,
     count : Nat, usage : [Options -> Nat], listed : SUBSET Names]
     \* `listed` is history: the Workspaces in its list that still exist

TheKind == Stored(kinds)
Existing(collection) == {w \in Names : collection[w].exists}

\* The cached Workspaces that have not been deleted since.
Lasting == {w \in Names : \A i \in 1 .. Len(workspaces) : workspaces[i][w].exists}

Room(q) == Len(q) <= MaxLag

NoUsage == [o \in Options |-> 0]
NewKind == [exists |-> TRUE, deleting |-> FALSE, finalizer |-> FALSE,
            options |-> Options, count |-> 0, usage |-> NoUsage]
NoWorkspace == [exists |-> FALSE, option |-> Default, state |-> "Unknown"]
WsIdle == [step |-> "idle", ws |-> NoWorkspace, fresh |-> FALSE, next |-> "Unknown"]
KindIdle == [step |-> "idle", kind |-> NewKind, fresh |-> FALSE, count |-> 0,
             usage |-> NoUsage, listed |-> {}]
-----------------------------------------------------------------------------
(***************************************************************************)
(* Writes.  A reconcile that has read an object keeps `fresh` until someone *)
(* else writes it: the resourceVersion it holds is the stored one.         *)
(***************************************************************************)
PutKind(kind) == kinds' = Put(kinds, kind)

PutWorkspace(w, ws) == workspaces' = Put(workspaces, [Stored(workspaces) EXCEPT ![w] = ws])

KindStale == kindRun' = [kindRun EXCEPT !.fresh = FALSE]

WsStale(w) == wsRun' = [wsRun EXCEPT ![w].fresh = FALSE]

\* No event about this Workspace is under way.
UpToDate(w) == \A i \in 1 .. Len(workspaces) : workspaces[i][w] = Cached(workspaces)[w]

Fault ==
    /\ spent.faults < MaxFaults
    /\ spent' = [spent EXCEPT !.faults = @ + 1]

\* Mutant: the first Workspace is not counted.
UsageCountOffByOne(collection, option) ==
    Cardinality({w \in Existing(collection) : collection[w].option = option}) - 1

\* What getOptionsUsageCounts and the WorkspaceKind reconciler count.
UsageCount(collection, option) ==
    Cardinality({w \in Existing(collection) : collection[w].option = option})
-----------------------------------------------------------------------------
(***************************************************************************)
(* WorkspaceReconciler.Reconcile, as far as it concerns the WorkspaceKind. *)
(***************************************************************************)
WsReturn(w, requeue) ==
    /\ wsRun' = [wsRun EXCEPT ![w] = WsIdle]
    /\ wsQueue' = IF requeue THEN wsQueue \cup {w} ELSE wsQueue

\* Get the Workspace; one that is gone needs nothing.
WsBegin(w) ==
    LET ws == Cached(workspaces)[w]
    IN  /\ w \in wsQueue
        /\ wsRun[w].step = "idle"
        /\ wsQueue' = wsQueue \ {w}
        /\ wsRun' = IF ws.exists
                    THEN [wsRun EXCEPT ![w] = [WsIdle EXCEPT !.step = "kind", !.ws = ws,
                                                     !.fresh = UpToDate(w)]]
                    ELSE wsRun
        /\ UNCHANGED <<kinds, workspaces, kindQueued, kindRun, counted, spent>>

\* Does the kind know the option?  (getImageConfig and getPodConfig)
Verdict(ws, kind) == IF kind.exists /\ ws.option \in kind.options THEN "Valid" ELSE "Error"

\* The kind needs the finalizer and can still get one.
NeedsFinalizer(kind) == kind.exists /\ ~kind.deleting /\ ~kind.finalizer

\* Get the WorkspaceKind, add the finalizer, look up the option.
WsAddFinalizer(w) ==
    LET kind == Cached(kinds)
        judge == wsRun' = [wsRun EXCEPT ![w].step = "state",
                                        ![w].next = Verdict(wsRun[w].ws, kind)]
    IN  /\ wsRun[w].step = "kind"
        /\ \/ /\ ~NeedsFinalizer(kind)
              /\ judge
              /\ UNCHANGED <<kinds, wsQueue, kindRun, spent>>
           \/ /\ NeedsFinalizer(kind)
              /\ Current(kinds)
              /\ PutKind([kind EXCEPT !.finalizer = TRUE])
              /\ KindStale
              /\ judge
              /\ UNCHANGED <<wsQueue, spent>>
           \/ /\ NeedsFinalizer(kind)
              /\ ~Current(kinds)
              /\ WsReturn(w, TRUE)
              /\ UNCHANGED <<kinds, kindRun, spent>>
           \/ /\ NeedsFinalizer(kind)
              /\ Fault
              /\ WsReturn(w, TRUE)
              /\ UNCHANGED <<kinds, kindRun>>
        /\ UNCHANGED <<workspaces, kindQueued, counted>>

\* Write the resulting state, if it has changed.
WsUpdateState(w) ==
    LET run == wsRun[w]
        new == [run.ws EXCEPT !.state = run.next]
    IN  /\ run.step = "state"
        /\ \/ /\ new = run.ws
              /\ WsReturn(w, FALSE)
              /\ UNCHANGED <<workspaces, spent>>
           \/ /\ new # run.ws
              /\ run.fresh
              /\ PutWorkspace(w, new)
              /\ WsReturn(w, FALSE)
              /\ UNCHANGED spent
           \/ /\ new # run.ws
              /\ ~run.fresh
              /\ WsReturn(w, TRUE)
              /\ UNCHANGED <<workspaces, spent>>
           \/ /\ new # run.ws
              /\ Fault
              /\ WsReturn(w, TRUE)
              /\ UNCHANGED workspaces
        /\ UNCHANGED <<kinds, kindQueued, kindRun, counted>>
-----------------------------------------------------------------------------
(***************************************************************************)
(* WorkspaceKindReconciler.Reconcile.                                      *)
(***************************************************************************)
KindReturn(requeue) ==
    /\ kindRun' = KindIdle
    /\ kindQueued' = (kindQueued \/ requeue)

KindBegin ==
    /\ kindQueued
    /\ kindRun.step = "idle"
    /\ kindQueued' = FALSE
    /\ kindRun' = IF Cached(kinds).exists
                  THEN [KindIdle EXCEPT !.step = "list", !.kind = Cached(kinds),
                                        !.fresh = Current(kinds)]
                  ELSE KindIdle
    /\ UNCHANGED <<kinds, workspaces, wsQueue, wsRun, counted, spent>>

\* List the Workspaces; when there are none, remove the finalizer.
KindRemoveFinalizer ==
    LET listed == Cached(workspaces)
        unused == Existing(listed) = {} /\ kindRun.kind.finalizer
        released == [kindRun.kind EXCEPT !.finalizer = FALSE]
        go(kind) == kindRun' = [kindRun EXCEPT
                        !.step = "status", !.kind = kind, !.listed = Lasting,
                        !.count = Cardinality(Existing(listed)),
                        !.usage = [o \in Options |-> IF o \in kind.options
                                                     THEN UsageCount(listed, o) ELSE 0]]
    IN  /\ kindRun.step = "list"
        /\ \/ /\ ~unused
              /\ go(kindRun.kind)
              /\ UNCHANGED <<kinds, kindQueued, spent>>
           \/ /\ unused
              /\ kindRun.fresh
              /\ PutKind(released)
              /\ go(released)
              /\ UNCHANGED <<kindQueued, spent>>
           \/ /\ unused
              /\ ~kindRun.fresh
              /\ KindReturn(TRUE)
              /\ UNCHANGED <<kinds, spent>>
           \/ /\ unused
              /\ Fault
              /\ KindReturn(TRUE)
              /\ UNCHANGED kinds
        /\ UNCHANGED <<workspaces, wsQueue, wsRun, counted>>

\* The Workspaces in the list are included in the published counters.
Count ==
    counted' = IF kindRun.fresh /\ ~kindRun.kind.deleting
               THEN counted \cup kindRun.listed ELSE counted

\* Publish the counters, if they have changed.
KindUpdateStatus ==
    LET new == [kindRun.kind EXCEPT !.count = kindRun.count, !.usage = kindRun.usage]
    IN  /\ kindRun.step = "status"
        /\ \/ /\ new = kindRun.kind
              /\ KindReturn(FALSE)
              /\ Count
              /\ UNCHANGED <<kinds, spent>>
           \/ /\ new # kindRun.kind
              /\ kindRun.fresh
              /\ PutKind(new)
              /\ KindReturn(FALSE)
              /\ Count
              /\ UNCHANGED spent
           \/ /\ new # kindRun.kind
              /\ ~kindRun.fresh
              /\ KindReturn(TRUE)
              /\ UNCHANGED <<kinds, counted, spent>>
           \/ /\ new # kindRun.kind
              /\ Fault
              /\ KindReturn(TRUE)
              /\ UNCHANGED <<kinds, counted>>
        /\ UNCHANGED <<workspaces, wsQueue, wsRun>>
-----------------------------------------------------------------------------
(***************************************************************************)
(* Watches, and a restart of the manager.                                  *)
(***************************************************************************)
\* The Workspaces of this kind that are in the cache.
mapWorkspaceKindToRequest == Existing(Cached(workspaces))

\* Mutant: the WorkspaceKind controller ignores events that change no generation.
WatchKindGeneration ==
    LET old == kinds[1]
        new == kinds[2]
        generationChanged == old.options # new.options \/ old.exists # new.exists
    IN  /\ Behind(kinds)
        /\ kinds' = Tail(kinds)
        /\ kindQueued' = (kindQueued \/ generationChanged)
        /\ wsQueue' = IF generationChanged
                      THEN wsQueue \cup mapWorkspaceKindToRequest ELSE wsQueue
        /\ UNCHANGED <<workspaces, wsRun, kindRun, counted, spent>>

\* Mutant: Workspaces do not watch their WorkspaceKind.
WatchKindOnly ==
    /\ Behind(kinds)
    /\ kinds' = Tail(kinds)
    /\ kindQueued' = TRUE
    /\ UNCHANGED <<workspaces, wsQueue, wsRun, kindRun, counted, spent>>

\* WorkspaceKind events: every one for its own controller; for the Workspace
\* controller, only those that change the generation (spec, deletion) or
\* remove the object, and only for the Workspaces in the cache by then.
WatchKind ==
    LET old == kinds[1]
        new == kinds[2]
        generationChanged == \/ old.options # new.options
                             \/ old.deleting # new.deleting
                             \/ old.exists # new.exists
    IN  /\ Behind(kinds)
        /\ kinds' = Tail(kinds)
        /\ kindQueued' = TRUE
        /\ wsQueue' = IF generationChanged
                      THEN wsQueue \cup mapWorkspaceKindToRequest ELSE wsQueue
        /\ UNCHANGED <<workspaces, wsRun, kindRun, counted, spent>>

\* Workspace events: every one for its own controller; status changes are not
\* passed on to the WorkspaceKind controller.
WatchWorkspaces ==
    LET old == workspaces[1]
        new == workspaces[2]
        changed == {w \in Names : old[w] # new[w]}
        generationChanged == \E w \in changed : \/ old[w].exists # new[w].exists
                                                \/ old[w].option # new[w].option
    IN  /\ Behind(workspaces)
        /\ workspaces' = Tail(workspaces)
        /\ wsQueue' = wsQueue \cup changed
        /\ kindQueued' = (kindQueued \/ generationChanged)
        /\ UNCHANGED <<kinds, wsRun, kindRun, counted, spent>>

Crash ==
    /\ Fault
    /\ kinds' = Relisted(kinds)
    /\ workspaces' = Relisted(workspaces)
    /\ wsQueue' = Existing(Stored(workspaces))
    /\ wsRun' = [w \in Names |-> WsIdle]
    /\ kindQueued' = TRUE
    /\ kindRun' = KindIdle
    /\ UNCHANGED counted
-----------------------------------------------------------------------------
(***************************************************************************)
(* Requests of users and administrators, as the webhooks admit them.       *)
(***************************************************************************)
Request ==
    /\ spent.ops < MaxOps
    /\ spent' = [spent EXCEPT !.ops = @ + 1]

\* Workspace webhook, ValidateCreate and ValidateUpdate: the kind is in the
\* cache and has the option.
ValidateWorkspace(option) == Cached(kinds).exists /\ option \in Cached(kinds).options

CreateWorkspace(w, option) ==
    /\ Request /\ Room(workspaces)
    /\ ~Stored(workspaces)[w].exists
    /\ ValidateWorkspace(option)
    /\ PutWorkspace(w, [exists |-> TRUE, option |-> option, state |-> "Unknown"])
    /\ WsStale(w)
    /\ UNCHANGED <<kinds, wsQueue, kindQueued, kindRun, counted>>

ChangeWorkspace(w, option) ==
    /\ Request /\ Room(workspaces)
    /\ Stored(workspaces)[w].exists
    /\ Stored(workspaces)[w].option # option
    /\ ValidateWorkspace(option)
    /\ PutWorkspace(w, [Stored(workspaces)[w] EXCEPT !.option = option])
    /\ WsStale(w)
    /\ UNCHANGED <<kinds, wsQueue, kindQueued, kindRun, counted>>

DeleteWorkspace(w) ==
    /\ Request /\ Room(workspaces)
    /\ Stored(workspaces)[w].exists
    /\ PutWorkspace(w, NoWorkspace)
    /\ WsStale(w)
    /\ counted' = counted \ {w}
    /\ kindRun' = [kindRun EXCEPT !.listed = @ \ {w}]
    /\ UNCHANGED <<kinds, wsQueue, kindQueued>>

\* WorkspaceKind webhook, ValidateUpdate: the default exists and no removed
\* option is used by a Workspace in the cache.
ValidateKindUpdate(options) ==
    /\ Default \in options
    /\ \A o \in TheKind.options \ options : UsageCount(Cached(workspaces), o) = 0

ChangeKind(options) ==
    /\ Request /\ Room(kinds)
    /\ TheKind.exists
    /\ options # TheKind.options
    /\ ValidateKindUpdate(options)
    /\ PutKind([TheKind EXCEPT !.options = options])
    /\ KindStale
    /\ UNCHANGED <<workspaces, wsQueue, wsRun, kindQueued, counted>>

\* Mutant: only the finalizer is looked at.
ValidateFinalizerOnly == ~TheKind.finalizer

\* WorkspaceKind webhook, ValidateDelete, on the stored object.
ValidateKindDelete == TheKind.count = 0 /\ ~TheKind.finalizer

\* A deletion removes the object, or marks it when it waits for dependents
\* (foreground deletion) and is removed afterwards.
DeleteKind ==
    /\ Request /\ Room(kinds)
    /\ TheKind.exists /\ ~TheKind.deleting
    /\ ValidateKindDelete
    /\ \/ PutKind([TheKind EXCEPT !.exists = FALSE])
       \/ PutKind([TheKind EXCEPT !.deleting = TRUE])
    /\ KindStale
    /\ UNCHANGED <<workspaces, wsQueue, wsRun, kindQueued, counted>>

KindRemoved ==
    /\ Room(kinds)
    /\ TheKind.exists /\ TheKind.deleting /\ ~TheKind.finalizer
    /\ PutKind([TheKind EXCEPT !.exists = FALSE])
    /\ KindStale
    /\ UNCHANGED <<workspaces, wsQueue, wsRun, kindQueued, counted, spent>>
-----------------------------------------------------------------------------
Init ==
    /\ kinds = <<NewKind>>
    /\ workspaces = <<[w \in Names |-> NoWorkspace]>>
    /\ wsQueue = {}
    /\ wsRun = [w \in Names |-> WsIdle]
    /\ kindQueued = TRUE
    /\ kindRun = KindIdle
    /\ counted = {}
    /\ spent = [ops |-> 0, faults |-> 0]

WsReconcile(w) == WsBegin(w) \/ WsAddFinalizer(w) \/ WsUpdateState(w)

KindReconcile == KindBegin \/ KindRemoveFinalizer \/ KindUpdateStatus

UserNext ==
    \/ \E w \in Names, option \in Options :
          CreateWorkspace(w, option) \/ ChangeWorkspace(w, option)
    \/ \E w \in Names : DeleteWorkspace(w)
    \/ \E options \in SUBSET Options : ChangeKind(options)
    \/ DeleteKind

Next ==
    \/ \E w \in Names : WsReconcile(w)
    \/ KindReconcile
    \/ WatchKind \/ WatchWorkspaces \/ Crash
    \/ UserNext \/ KindRemoved

Spec == Init /\ [][Next]_vars

\* The controller's workers and informers go on; nobody has to send requests.
Fairness ==
    /\ \A w \in Names : WF_vars(WsReconcile(w))
    /\ WF_vars(KindReconcile)
    /\ WF_vars(WatchKind) /\ WF_vars(WatchWorkspaces) /\ WF_vars(KindRemoved)

LiveSpec == Spec /\ Fairness
-----------------------------------------------------------------------------
(***************************************************************************)
(* Correctness.                                                            *)
(***************************************************************************)
\* Every variable holds a value of its type.
TypeOK ==
    /\ kinds \in Versions(Kind)
    /\ workspaces \in Versions([Names -> Workspace])
    /\ wsQueue \in SUBSET Names
    /\ wsRun \in [Names -> WorkspaceRun]
    /\ kindQueued \in BOOLEAN
    /\ kindRun \in KindRun
    /\ counted \in SUBSET Names
    /\ spent \in [ops : 0 .. MaxOps, faults : 0 .. MaxFaults]

\* From the moment a Workspace has been counted in status.workspaces until it
\* is deleted, the kind exists and its counter is not zero, so ValidateDelete
\* refuses every deletion: neither a stale list nor a late write takes the
\* protection away again.
CountedWorkspaceKeepsKind ==
    counted # {} => TheKind.exists /\ ~TheKind.deleting /\ TheKind.count > 0

\* Once requests and faults stop, the published counters are the true ones, and
\* an unused kind has lost its finalizer, even if a Workspace's reconcile added
\* it after the Workspace was gone: the kind can be deleted.
Settled ==
    TheKind.exists =>
        /\ TheKind.count = Cardinality(Existing(Stored(workspaces)))
        /\ \A o \in TheKind.options : TheKind.usage[o] = UsageCount(Stored(workspaces), o)
        /\ Existing(Stored(workspaces)) = {} => ~TheKind.finalizer

CountersSettle == <>[]Settled

\* Once requests and faults stop, the state of every Workspace tells whether its
\* kind and option exist: a reference that broke behind the webhooks' backs is
\* reported as an Error, and one that was repaired is not.
BrokenReferenceReported ==
    <>[](\A w \in Existing(Stored(workspaces)) :
            Stored(workspaces)[w].state = Verdict(Stored(workspaces)[w], TheKind))

\* "don't allow deletion of WorkspaceKind if it is used by any workspaces"
\* (ValidateDelete of the WorkspaceKind webhook).
KindInUseIsKept == Existing(Stored(workspaces)) # {} => TheKind.exists
=============================================================================
