-------------------------- MODULE WorkspaceRollout --------------------------
(***************************************************************************)
(* The core loop of the Workspace controller: one Workspace, the           *)
(* StatefulSet generated from it and the Pod of that StatefulSet.          *)
(*                                                                         *)
(* WorkspaceReconciler.Reconcile copies the Workspace's options and        *)
(* `spec.paused` into the StatefulSet, deletes a Pod that is not of the    *)
(* StatefulSet's update revision (the strategy is OnDelete, so nobody else *)
(* does), and reports what it saw in `status`.  It reads everything from a *)
(* cache that lags the API server, is interrupted by errors and crashes    *)
(* between any two writes, and runs again only if an event or a requeue    *)
(* puts the Workspace back in the work queue.                              *)
(*                                                                         *)
(* The StatefulSet exists from the start: how it is created, adopted or    *)
(* duplicated is the subject of another module.  The combination of an     *)
(* imageConfig and a podConfig is one `option`; equal options give equal   *)
(* Pod templates, and a template stands for its own revision hash.  The    *)
(* text in status.stateMessage is left out, and with it the updates that   *)
(* change nothing else.                                                    *)
(***************************************************************************)
EXTENDS Informer, FiniteSets

CONSTANTS
    Options,        \* imageConfig/podConfig choices a user can make
    NoRevision,     \* status.updateRevision of a StatefulSet nobody has synced
    MaxEdits,       \* bound: spec edits by users
    MaxMishaps,     \* bound: failed API calls, controller crashes, Warning Events
                    \* and changes of a Pod's condition for the worse
    MaxTotal,       \* bound: edits and mishaps together
    MaxLag          \* bound: watch events under way per kind of object

ASSUME OptionsAssumption == Options # {} /\ NoRevision \notin Options
ASSUME BoundsAssumption ==
    MaxLag \in Nat /\ MaxEdits \in Nat /\ MaxMishaps \in Nat /\ MaxTotal \in Nat

VARIABLES
    workspaces,     \* versions of the Workspace
    statefulSets,   \* versions of its StatefulSet
    pods,           \* versions of Pod "{statefulSet}-0"
    events,         \* UIDs of objects with a Warning Event
    queued,         \* the Workspace is in the work queue, now or after a delay
    r,              \* the reconcile in progress: its step and its locals
    stsView,        \* the StatefulSet spec the StatefulSet controller last read
    spent           \* how much of each bound has been used

vars == <<workspaces, statefulSets, pods, events, queued, r, stsView,
          spent>>
-----------------------------------------------------------------------------
(***************************************************************************)
(* Objects.                                                                *)
(***************************************************************************)
States == {"Running", "Terminating", "Paused", "Pending", "Error", "Unknown"}

\* What generateWorkspaceState tells apart about a Pod that is not being
\* deleted: "Stuck" is unschedulable, gated, CrashLoopBackOff or
\* ImagePullBackOff; "NotReady" is running without the Ready condition;
\* "Completed" is a phase no branch mentions.
Conditions == {"Pending", "Stuck", "Ready", "NotReady", "Failed", "Completed"}

\* The UID of the StatefulSet; Pods have UIDs 1, 2, ... which come round again
\* once no version of an older Pod is left in a cache.
StsUID == 0
NextUID(uid) == IF uid > MaxLag THEN 1 ELSE uid + 1

Revisions == Options \cup {NoRevision}

Workspace ==
    [option : Options, paused : BOOLEAN, state : States, owned : SUBSET Nat]

StatefulSet ==
    [template : Options, replicas : {0, 1}, generation : Nat,
     observedGeneration : Nat, updateRevision : Revisions]

Pod == [exists : BOOLEAN, uid : Nat, rev : Options, cond : Conditions,
        deleting : BOOLEAN]

View == [template : Options, replicas : {0, 1}, generation : Nat]

Steps == {"idle", "statefulSet", "pod", "status", "state"}

\* `fresh`: the resourceVersion of `ws` is still the stored one; `next` and
\* `requeue` are the arguments of a pending updateWorkspaceState.
Reconcile ==
    [step : Steps, ws : Workspace, fresh : BOOLEAN, sts : StatefulSet, pod : Pod,
     next : States, requeue : BOOLEAN]

\* The bound on lag holds back the writers whose writes do not depend on the
\* cache; the reconciler writes to what is Current, or not at all.
Room(q) == Len(q) <= MaxLag

Ws == Stored(workspaces)
Sts == Stored(statefulSets)
ThePod == Stored(pods)

\* The objects of a Workspace that was just created.
NewWorkspace(option, paused) ==
    [option |-> option, paused |-> paused, state |-> "Unknown", owned |-> {}]

NewStatefulSet(option, replicas) ==
    [template |-> option, replicas |-> replicas, generation |-> 1,
     observedGeneration |-> 0, updateRevision |-> NoRevision]

NoPod(option) ==
    [exists |-> FALSE, uid |-> 0, rev |-> option, cond |-> "Pending",
     deleting |-> FALSE]

\* Locals that hold nothing.
Idle ==
    LET option == CHOOSE o \in Options : TRUE
    IN  [step |-> "idle", ws |-> NewWorkspace(option, FALSE),
         fresh |-> FALSE, sts |-> NewStatefulSet(option, 0), pod |-> NoPod(option),
         next |-> "Unknown", requeue |-> FALSE]
-----------------------------------------------------------------------------
(***************************************************************************)
(* The decisions of Reconcile, as functions of what it has read.           *)
(***************************************************************************)
\* generateStatefulSet: the Pod template is a function of the options (and of
\* what else of the Workspace and its kind goes into it, which `option` stands
\* for); a paused Workspace has no replicas.
generateStatefulSet(ws) ==
    [template |-> ws.option, replicas |-> IF ws.paused THEN 0 ELSE 1]

\* Mutant: the template is taken from the revision the StatefulSet reports.
CopyFromStatus(desired, found) ==
    [found EXCEPT !.template = found.updateRevision, !.replicas = desired.replicas]

\* CopyStatefulSetFields: the found StatefulSet with the desired fields.
CopyStatefulSetFields(desired, found) ==
    [found EXCEPT !.template = desired.template, !.replicas = desired.replicas]

\* The Pod is not of the revision the StatefulSet has settled on.
PendingRevision(sts, pod) ==
    /\ sts.generation = sts.observedGeneration
    /\ sts.updateRevision # NoRevision
    /\ pod.rev # sts.updateRevision

\* A state to report and whether Reconcile asks to be called again.
Report(state, requeue) == [state |-> state, requeue |-> requeue]

\* generateWorkspaceState, for a StatefulSet whose status is up to date.
PodState(paused, sts, pod, warned) ==
    IF ~pod.exists THEN
        IF paused THEN Report("Paused", FALSE)
        ELSE IF StsUID \in warned THEN Report("Error", FALSE)
        ELSE Report("Pending", TRUE)
    ELSE IF pod.deleting THEN Report("Terminating", TRUE)
    ELSE IF pod.rev # sts.updateRevision THEN Report("Pending", TRUE)
    ELSE IF pod.cond = "Stuck" THEN Report("Error", FALSE)
    ELSE IF pod.cond = "Ready" THEN Report("Running", FALSE)
    ELSE IF pod.uid \in warned \/ pod.cond = "Failed" THEN Report("Error", FALSE)
    ELSE IF pod.cond \in {"Pending", "NotReady"} THEN Report("Pending", TRUE)
    ELSE Report("Unknown", TRUE)

\* Mutant: no test of the generation the StatefulSet controller has observed.
StateIgnoringGeneration(paused, sts, pod, warned) == PodState(paused, sts, pod, warned)

\* Mutant: the Warning Events are looked up by the UID of the StatefulSet only.
StateWithoutPodEvents(paused, sts, pod, warned) ==
    IF sts.generation # sts.observedGeneration THEN Report("Pending", TRUE)
    ELSE PodState(paused, sts, pod, warned \cap {StsUID})

\* generateWorkspaceState, with the requeue its result asks for.
generateWorkspaceState(paused, sts, pod, warned) ==
    IF sts.generation # sts.observedGeneration THEN Report("Pending", TRUE)
    ELSE PodState(paused, sts, pod, warned)

\* generateWorkspaceStatus: the Workspace with the status to be written.
generateWorkspaceStatus(ws, sts, pod, warned) ==
    [ws EXCEPT !.state = generateWorkspaceState(ws.paused, sts, pod, warned).state,
               !.owned = {StsUID} \cup (IF pod.exists THEN {pod.uid} ELSE {})]
-----------------------------------------------------------------------------
(***************************************************************************)
(* The work queue and the end of a reconcile.                              *)
(***************************************************************************)
\* Reconcile returns: locals are gone, a requeue or an error queues it again.
Return(requeue) ==
    /\ r' = Idle
    /\ queued' = (queued \/ requeue)

\* Reconcile goes on to updateWorkspaceState and then returns `requeue`.
ReturnState(state, requeue) ==
    /\ r' = [Idle EXCEPT !.step = "state", !.ws = r.ws, !.fresh = r.fresh,
                         !.next = state, !.requeue = requeue]
    /\ UNCHANGED queued

\* Something goes wrong: an API call fails for a reason other than a conflict,
\* the controller crashes, a Pod gets into trouble, an Event is posted.
Mishap ==
    /\ spent.mishaps < MaxMishaps /\ spent.edits + spent.mishaps < MaxTotal
    /\ spent' = [spent EXCEPT !.mishaps = @ + 1]

\* The status subresource: the API server takes the status of `new` and leaves
\* the stored spec alone.
PutStatus(new) ==
    workspaces' = Put(workspaces, [Ws EXCEPT !.state = new.state, !.owned = new.owned])

\* Mutant: a failed Status().Update is logged and forgotten.
UpdateWorkspaceStatusOnce(new, requeue) ==
    \/ /\ r.fresh
       /\ PutStatus(new)
       /\ Return(requeue)
       /\ UNCHANGED spent
    \/ /\ Mishap \/ (~r.fresh /\ UNCHANGED spent)
       /\ Return(FALSE)
       /\ UNCHANGED workspaces

\* A Status().Update of `new`, based on the Workspace read at the start; the
\* reconcile then returns `requeue`, or asks for a retry if it did not work.
UpdateWorkspaceStatus(new, requeue) ==
    \/ /\ r.fresh
       /\ PutStatus(new)
       /\ Return(requeue)
       /\ UNCHANGED spent
    \/ /\ ~r.fresh
       /\ Return(TRUE)
       /\ UNCHANGED workspaces
       /\ UNCHANGED spent
    \/ /\ Mishap                   \* an error, before or after it took effect
       /\ Return(TRUE)
       /\ \/ UNCHANGED workspaces
          \/ r.fresh /\ PutStatus(new)
-----------------------------------------------------------------------------
(***************************************************************************)
(* WorkspaceReconciler.Reconcile.                                          *)
(***************************************************************************)
\* The work queue hands the Workspace to a worker, which reads it.
Begin ==
    /\ r.step = "idle"
    /\ queued
    /\ queued' = FALSE
    /\ r' = [r EXCEPT !.step = "statefulSet", !.ws = Cached(workspaces),
                     !.fresh = Current(workspaces)]
    /\ UNCHANGED <<workspaces, statefulSets, pods, events, stsView>>
    /\ UNCHANGED spent

\* List the owned StatefulSet and bring its fields up to date.  A changed
\* spec is a new generation; the object in hand becomes the API's answer.
ReconcileStatefulSet ==
    LET found == Cached(statefulSets)
        desired == CopyStatefulSetFields(generateStatefulSet(r.ws), found)
        updated == [desired EXCEPT !.generation = @ + 1]
    IN  /\ r.step = "statefulSet"
        /\ \/ /\ desired = found
              /\ r' = [r EXCEPT !.step = "pod", !.sts = found]
              /\ UNCHANGED <<statefulSets, queued>>
              /\ UNCHANGED spent
           \/ /\ desired # found
              /\ Current(statefulSets)
              /\ statefulSets' = Put(statefulSets, updated)
              /\ r' = [r EXCEPT !.step = "pod", !.sts = updated]
              /\ UNCHANGED queued
              /\ UNCHANGED spent
           \/ /\ desired # found
              /\ ~Current(statefulSets)
              /\ Return(TRUE)
              /\ UNCHANGED statefulSets
              /\ UNCHANGED spent
           \/ /\ desired # found       \* an error, before or after it took effect
              /\ Mishap
              /\ ReturnState("Error", TRUE)
              /\ \/ UNCHANGED statefulSets
                 \/ /\ Current(statefulSets)
                    /\ statefulSets' = Put(statefulSets, updated)
        /\ UNCHANGED <<workspaces, pods, events, stsView>>

\* The API server deletes a Pod gracefully: it is marked, and removed later.
MarkDeleted == pods' = Put(pods, [ThePod EXCEPT !.deleting = TRUE])

\* Mutant: the Delete call has no preconditions.
DeleteAnyPod(pod) == TRUE

\* The preconditions of the Delete call: UID and resourceVersion.
DeletePreconditions(pod) == ThePod.uid = pod.uid /\ Current(pods)

\* Get the Pod and delete it if it is of another revision.
ReconcilePod ==
    LET pod == Cached(pods)
    IN  /\ r.step = "pod"
        /\ \/ /\ ~(pod.exists /\ PendingRevision(r.sts, pod))
              /\ r' = [r EXCEPT !.step = "status", !.pod = pod]
              /\ UNCHANGED <<pods, queued>>
              /\ UNCHANGED spent
           \/ /\ pod.exists
              /\ PendingRevision(r.sts, pod)
              /\ \/ /\ pod.deleting
                    /\ ReturnState("Terminating", TRUE)
                    /\ UNCHANGED pods
                    /\ UNCHANGED spent
                 \/ /\ ~pod.deleting
                    /\ ThePod.exists
                    /\ DeletePreconditions(pod)
                    /\ MarkDeleted
                    /\ ReturnState("Terminating", TRUE)
                    /\ UNCHANGED spent
                 \/ /\ ~pod.deleting    \* NotFound or Conflict
                    /\ ~(ThePod.exists /\ DeletePreconditions(pod))
                    /\ Return(TRUE)
                    /\ UNCHANGED pods
                    /\ UNCHANGED spent
                 \/ /\ ~pod.deleting
                    /\ Mishap           \* an error, before or after it took effect
                    /\ ReturnState("Error", TRUE)
                    /\ \/ UNCHANGED pods
                       \/ ThePod.exists /\ DeletePreconditions(pod) /\ MarkDeleted
        /\ UNCHANGED <<workspaces, statefulSets, events, stsView>>

\* Populate the status and write it if it has changed.
UpdateStatus ==
    LET new == generateWorkspaceStatus(r.ws, r.sts, r.pod, events)
        requeue == generateWorkspaceState(r.ws.paused, r.sts, r.pod, events).requeue
    IN  /\ r.step = "status"
        /\ \/ /\ new = r.ws
              /\ Return(requeue)
              /\ UNCHANGED workspaces
              /\ UNCHANGED spent
           \/ /\ new # r.ws
              /\ UpdateWorkspaceStatus(new, requeue)
           \/ /\ Mishap           \* the Warning Events cannot be listed
              /\ ReturnState("Error", TRUE)
              /\ UNCHANGED workspaces
        /\ UNCHANGED <<statefulSets, pods, events, stsView>>

\* updateWorkspaceState, on an early return of Reconcile.
updateWorkspaceState ==
    /\ r.step = "state"
    /\ \/ /\ r.ws.state = r.next
          /\ Return(r.requeue)
          /\ UNCHANGED workspaces
          /\ UNCHANGED spent
       \/ /\ r.ws.state # r.next
          /\ UpdateWorkspaceStatus([r.ws EXCEPT !.state = r.next], r.requeue)
    /\ UNCHANGED <<statefulSets, pods, events, stsView>>

\* The controller process dies at any point and starts again: the caches are
\* listed afresh and every Workspace is queued.
Crash ==
    /\ Mishap
    /\ r' = Idle
    /\ queued' = TRUE
    /\ workspaces' = Relisted(workspaces)
    /\ statefulSets' = Relisted(statefulSets)
    /\ pods' = Relisted(pods)
    /\ UNCHANGED <<events, stsView>>
-----------------------------------------------------------------------------
(***************************************************************************)
(* What puts the Workspace in the work queue (SetupWithManager).           *)
(***************************************************************************)
\* A delayed request (RequeueAfter, rate-limited retry) waits in the queue like
\* any other: time is not modelled, so it may be served late or soon.  When a
\* delayed and an immediate request coincide, or the informers resync, the
\* Workspace is served again although nothing has changed.
ServedAgain ==
    /\ ~queued
    /\ queued' = TRUE
    /\ UNCHANGED <<workspaces, statefulSets, pods, events, r, stsView>>
    /\ UNCHANGED spent

\* For(Workspace), Owns(StatefulSet), Watches(Pod): every version counts.
WatchWorkspace ==
    /\ Behind(workspaces)
    /\ workspaces' = Tail(workspaces)
    /\ queued' = TRUE
    /\ UNCHANGED <<statefulSets, pods, events, r, stsView>>
    /\ UNCHANGED spent

WatchStatefulSet ==
    /\ Behind(statefulSets)
    /\ statefulSets' = Tail(statefulSets)
    /\ queued' = TRUE
    /\ UNCHANGED <<workspaces, pods, events, r, stsView>>
    /\ UNCHANGED spent

WatchPod ==
    /\ Behind(pods)
    /\ pods' = Tail(pods)
    /\ queued' = TRUE
    /\ UNCHANGED <<workspaces, statefulSets, events, r, stsView>>
    /\ UNCHANGED spent

\* A Warning Event finds its Workspace through the UIDs in the cached status;
\* one whose UID is not recorded there yet wakes nobody.
WarningEvent(uid) ==
    /\ Mishap
    /\ uid \notin events
    /\ events' = events \cup {uid}
    /\ queued' = (queued \/ uid \in Cached(workspaces).owned)
    /\ UNCHANGED <<workspaces, statefulSets, pods, r, stsView>>

\* An Event outlives its cause by the API server's TTL; its deletion is not
\* watched (predWarningEvent).
EventExpires(uid) ==
    /\ uid \in events
    /\ events' = events \ {uid}
    /\ UNCHANGED <<workspaces, statefulSets, pods, queued, r, stsView>>
    /\ UNCHANGED spent
-----------------------------------------------------------------------------
(***************************************************************************)
(* Users, the StatefulSet controller and the kubelet.  EXTERNAL: modelled  *)
(* from what Reconcile relies on.                                          *)
(***************************************************************************)
\* Anyone with access edits the Workspace's spec; the activity rules of the
\* controller itself pause it the same way.
Edit ==
    /\ spent.edits < MaxEdits /\ spent.edits + spent.mishaps < MaxTotal
    /\ Room(workspaces)
    /\ spent' = [spent EXCEPT !.edits = @ + 1]
    /\ r' = [r EXCEPT !.fresh = FALSE]
    /\ UNCHANGED <<statefulSets, pods, events, queued, stsView>>

SelectOption(option) ==
    /\ Edit
    /\ option # Ws.option
    /\ workspaces' = Put(workspaces, [Ws EXCEPT !.option = option])

SetPaused(paused) ==
    /\ Edit
    /\ paused # Ws.paused
    /\ workspaces' = Put(workspaces, [Ws EXCEPT !.paused = paused])

\* The StatefulSet controller has a cache of its own.
StsSync ==
    /\ stsView.generation # Sts.generation
    /\ stsView' = [template |-> Sts.template, replicas |-> Sts.replicas,
                   generation |-> Sts.generation]
    /\ UNCHANGED <<workspaces, statefulSets, pods, events, queued, r>>
    /\ UNCHANGED spent

\* Under OnDelete it creates a missing Pod from the newest template it knows.
StsCreatePod ==
    /\ ~ThePod.exists /\ Room(pods)
    /\ stsView.replicas = 1
    /\ pods' = Put(pods, [exists |-> TRUE, uid |-> NextUID(ThePod.uid),
                          rev |-> stsView.template, cond |-> "Pending",
                          deleting |-> FALSE])
    /\ events' = events \ {NextUID(ThePod.uid)}
    /\ UNCHANGED <<workspaces, statefulSets, queued, r, stsView>>
    /\ UNCHANGED spent

\* It deletes the Pod to scale down, and a Pod that has finished.
StsDeletePod ==
    /\ ThePod.exists /\ ~ThePod.deleting /\ Room(pods)
    /\ stsView.replicas = 0 \/ ThePod.cond \in {"Failed", "Completed"}
    /\ MarkDeleted
    /\ UNCHANGED <<workspaces, statefulSets, events, queued, r, stsView>>
    /\ UNCHANGED spent

\* It reports the generation it has acted on, after it has dealt with Pods.
StsUpdateStatus ==
    /\ Sts.observedGeneration # stsView.generation /\ Room(statefulSets)
    /\ ThePod.exists => stsView.replicas = 1 \/ ThePod.deleting
    /\ statefulSets' = Put(statefulSets,
            [Sts EXCEPT !.observedGeneration = stsView.generation,
                        !.updateRevision = stsView.template])
    /\ UNCHANGED <<workspaces, pods, events, queued, r, stsView>>
    /\ UNCHANGED spent

SetCondition(cond) ==
    /\ ThePod.exists /\ Room(pods)
    /\ ThePod.cond # cond
    /\ ThePod.cond \notin {"Failed", "Completed"}
    /\ pods' = Put(pods, [ThePod EXCEPT !.cond = cond])
    /\ UNCHANGED <<workspaces, statefulSets, events, queued, r, stsView>>

PodReady == ~ThePod.deleting /\ SetCondition("Ready") /\ UNCHANGED spent

PodDisturbed(cond) == cond # "Ready" /\ Mishap /\ SetCondition(cond)

PodRemoved ==
    /\ ThePod.exists /\ ThePod.deleting /\ Room(pods)
    /\ pods' = Put(pods, [ThePod EXCEPT !.exists = FALSE])
    /\ UNCHANGED <<workspaces, statefulSets, events, queued, r, stsView>>
    /\ UNCHANGED spent
-----------------------------------------------------------------------------
Init ==
    \E option \in Options, paused \in BOOLEAN :
      LET ws == NewWorkspace(option, paused)
      IN  /\ workspaces = <<ws>>
          /\ statefulSets = <<NewStatefulSet(option, generateStatefulSet(ws).replicas)>>
          /\ pods = <<NoPod(option)>>
          /\ events = {}
          /\ queued = TRUE
          /\ r = Idle
          /\ stsView = [template |-> option, replicas |-> 0, generation |-> 0]
          /\ spent = [edits |-> 0, mishaps |-> 0]

ReconcileNext ==
    Begin \/ ReconcileStatefulSet \/ ReconcilePod \/ UpdateStatus \/ updateWorkspaceState

QueueNext == ServedAgain \/ WatchWorkspace \/ WatchStatefulSet \/ WatchPod

UserNext ==
    \/ \E option \in Options : SelectOption(option)
    \/ \E paused \in BOOLEAN : SetPaused(paused)

ClusterNext ==
    \/ StsSync \/ StsCreatePod \/ StsDeletePod \/ StsUpdateStatus
    \/ PodReady \/ PodRemoved
    \/ \E cond \in Conditions : PodDisturbed(cond)
    \/ \E uid \in {StsUID, ThePod.uid} : WarningEvent(uid)
    \/ \E uid \in events : EventExpires(uid)

Next == ReconcileNext \/ Crash \/ QueueNext \/ UserNext \/ ClusterNext

Spec == Init /\ [][Next]_vars
-----------------------------------------------------------------------------
\* Each running process goes on; users owe nothing and mishaps need not happen.
\* (The steps of Reconcile exclude one another.)  A Pod may stay in trouble.
Fairness ==
    /\ WF_vars(ReconcileNext)
    /\ WF_vars(WatchWorkspace) /\ WF_vars(WatchStatefulSet) /\ WF_vars(WatchPod)
    /\ WF_vars(StsSync) /\ WF_vars(StsCreatePod) /\ WF_vars(StsDeletePod)
    /\ WF_vars(StsUpdateStatus) /\ WF_vars(PodRemoved)

LiveSpec == Spec /\ Fairness
-----------------------------------------------------------------------------
(***************************************************************************)
(* Correctness.                                                            *)
(***************************************************************************)
\* Every variable holds a value of its type: cached, stored and local copies
\* of the three objects are well-formed, and the bounds are kept.
TypeOK ==
    /\ workspaces \in Versions(Workspace)
    /\ statefulSets \in Versions(StatefulSet)
    /\ pods \in Versions(Pod)
    /\ events \in SUBSET Nat
    /\ queued \in BOOLEAN
    /\ r \in Reconcile
    /\ stsView \in View
    /\ spent \in [edits : 0 .. MaxEdits, mishaps : 0 .. MaxMishaps]

\* The reconciler deletes a Pod only if that very Pod - the one the API server
\* has, not the one in the cache - was made from another option than the one
\* this reconcile read in the Workspace, however stale the caches are.  (The
\* generation/observedGeneration test and the UID and resourceVersion
\* preconditions of Reconcile's rollout step are what this takes.)
DeletesOnlyOutdatedPod ==
    [][r.step = "pod" /\ r'.step = "state" /\ pods' # pods
         => ThePod.rev # r.ws.option]_vars

\* When status.state becomes Running, the Pod it is about is not being deleted
\* and was made from the option the stored Workspace has at that moment: a
\* report computed for an older spec is refused, and a Pod awaiting its
\* rollout is never reported as Running.
RunningReportsCurrentPod ==
    [][Ws.state # "Running" /\ Ws'.state = "Running"
         => r.pod.rev = Ws'.option /\ r.pod.exists /\ ~r.pod.deleting]_vars

\* What the user asked for last is what there is, and the status says so.
Converged ==
    IF Ws.paused
    THEN ~ThePod.exists /\ Ws.state = "Paused"
    ELSE /\ ThePod.exists /\ ~ThePod.deleting
         /\ ThePod.cond = "Ready" /\ ThePod.rev = Ws.option
         /\ Ws.state = "Running"

\* Pods that nothing disturbs become ready.
PodsBecomeReady == WF_vars(PodReady)

\* Once edits and mishaps stop, and if Pods become ready, the system settles: no
\* wake-up is ever lost (every requeue and every watch that Reconcile relies on
\* is there), whatever the interleaving of stale reads, conflicts and crashes.
Convergence == PodsBecomeReady => <>[]Converged

\* A running Workspace whose Pod does not get ready, and says why.
Warned ==
    /\ ~Ws.paused
    /\ ThePod.exists /\ ~ThePod.deleting /\ ThePod.cond \in {"Pending", "NotReady"}
    /\ ThePod.uid \in events

\* A Warning Event about a Pod that stays in trouble ends up in status.state,
\* also if it came before the status named the Pod and so woke nobody (the
\* mapping of Events to Workspaces looks in the cached status): the requeue of
\* a Pending Workspace or the watch of that status makes up for it.
WarningReported == <>[]Warned => <>[](Ws.state = "Error")
=============================================================================
