--------------------------- MODULE ActivityPause ----------------------------
(***************************************************************************)
(* Pausing idle Workspaces: the part of WorkspaceReconciler.Reconcile that *)
(* records when a Workspace started to run, probes it for activity and     *)
(* sets `spec.paused` when the matched activity rule says so.              *)
(*                                                                         *)
(* A probe runs inside the reconcile and takes time.  Its result goes into *)
(* `status` with a Status().Update, and only then is `spec.paused` patched; *)
(* users edit the Workspace, use it and stop using it all the while, and   *)
(* the Pod comes and goes.  The next probe happens because the reconcile   *)
(* asked to be called again at the right time.                             *)
(*                                                                         *)
(* Timestamps are positive integers, 0 means unset, as in the code.        *)
(* How the StatefulSet is rolled out is the subject of WorkspaceRollout:   *)
(* here its scale, whether its controller has caught up with it, and       *)
(* whether the Pod is ready are enough.                                    *)
(***************************************************************************)
EXTENDS Informer, Integers

CONSTANTS
    ProbeInterval,      \* activityProbe.probeIntervalSeconds
    MinProbeInterval,   \* activityProbe.minProbeIntervalSeconds
    ProbeTimeout,       \* activityProbe.podExec.timeoutSeconds
    SecondsSinceActive, \* activityRules[].config.secondsSinceActive
    MinRunningSeconds,  \* activityRules[].config.minRunningSeconds
    Fields,             \* which JSON fields the probe script writes
    Paces,              \* may the controller be slow (FALSE), may it keep up (TRUE)
    Never,              \* no delayed request
    MaxTime,            \* bound: the clock, when the controller keeps up
    MaxSlowTime,        \* bound: the clock, when it may be slow
    MaxEdits,           \* bound: edits of the Workspace by users
    MaxDisturb,         \* bound: times the Pod stops by itself
    MaxLag,             \* bound: watch events under way
    MaxFaults,          \* bound: failed API calls, failed probes, controller crashes
    MaxTotal            \* bound: all of these together

\* The intervals are validated by the CRD; minProbeInterval <= probeInterval.
ASSUME IntervalsAssumption ==
    /\ MinProbeInterval \in Nat \ {0} /\ ProbeInterval \in Nat /\ ProbeTimeout \in Nat
    /\ MinProbeInterval <= ProbeInterval
    /\ SecondsSinceActive \in Nat \ {0} /\ MinRunningSeconds \in Nat
ASSUME FieldsAssumption == Fields \subseteq {"has_activity", "last_activity"}
ASSUME BoundsAssumption ==
    /\ MaxTime \in Nat \ {0} /\ MaxSlowTime \in 0 .. MaxTime /\ MaxEdits \in Nat
    /\ MaxDisturb \in Nat /\ MaxLag \in Nat /\ MaxFaults \in Nat
    /\ MaxTotal \in Nat
    /\ Paces \subseteq BOOLEAN /\ Never \notin Int

VARIABLES
    prompt,         \* time passes only when the controller has nothing to do; never changes
    time,           \* the clock
    workspaces,     \* versions of the Workspace
    sts,            \* the StatefulSet: replicas, and whether its status is current
    pod,            \* is the Pod ready, and since when
    queued,         \* the Workspace is in the work queue
    due,            \* when the delayed request for it is due, or Never
    r,              \* the reconcile in progress: its step and its locals
    lastUse,        \* when the user last used the Workspace
    reported,       \* history: the latest use a successful probe has reported
    spent           \* how much of each bound has been used

vars == <<prompt, time, workspaces, sts, pod, queued, due, r, lastUse, reported, spent>>
-----------------------------------------------------------------------------
Times == 0 .. MaxTime

\* status.state, with every state but Running and Paused as "Pending";
\* lastProbe is the start of status.activity.lastProbe and probeOk its result.
Workspace ==
    [paused : BOOLEAN, generation : Nat, state : {"Running", "Paused", "Pending"},
     lastRunningTime : Times, lastActivity : Times, lastProbe : Times,
     probeOk : BOOLEAN, eligibleAfter : Nat]

Ws == Stored(workspaces)

NewWorkspace ==
    [paused |-> FALSE, generation |-> 1, state |-> "Pending", lastRunningTime |-> 0,
     lastActivity |-> 0, lastProbe |-> 0, probeOk |-> FALSE, eligibleAfter |-> 0]

\* The locals of Reconcile: the Workspace as it was read and as it will be
\* written, `now`, the decision to pause, the requeue to ask for, and whether
\* resourceVersion in hand is the stored one (`fresh`) and was changed by this
\* reconcile's own status update (`wrote`).  `used` is history: `lastUse` then.
Idle ==
    [step |-> "idle", read |-> NewWorkspace, ws |-> NewWorkspace, now |-> 0,
     pause |-> FALSE, requeue |-> Never, fresh |-> FALSE, wrote |-> FALSE, used |-> 0]

Room(q) == Len(q) <= MaxLag

Mishaps == spent.edits + spent.disturbs + spent.faults
MayHappen == Mishaps < MaxTotal

Earlier(a, b) == IF a = Never \/ (b # Never /\ b < a) THEN b ELSE a
-----------------------------------------------------------------------------
(***************************************************************************)
(* The decisions of reconcileActivity.                                     *)
(***************************************************************************)
\* Mutant: the start of the run is set back by the idle timeout.
recordBackdated(ws, state) ==
    [ws EXCEPT !.state = state, !.lastRunningTime = time - SecondsSinceActive]

\* recordRunningTransition.
recordRunningTransition(ws, state) ==
    IF state = "Running" /\ (ws.state # "Running" \/ ws.lastRunningTime = 0)
    THEN [ws EXCEPT !.state = state, !.lastRunningTime = time, !.lastActivity = 0,
                    !.lastProbe = 0, !.probeOk = FALSE, !.eligibleAfter = 0]
    ELSE [ws EXCEPT !.state = state]

\* timeUntilProbeDue: 0 when a probe is due.
requiredInterval(ws) == IF ws.probeOk THEN ProbeInterval ELSE MinProbeInterval

timeUntilProbeDue(ws, now) ==
    IF ws.lastProbe = 0 \/ now - ws.lastProbe >= requiredInterval(ws)
    THEN 0
    ELSE requiredInterval(ws) - (now - ws.lastProbe)

\* CalculateEligibleAfter and IsEligibleForPause.
CalculateEligibleAfter(ws) ==
    IF ws.lastActivity = 0 THEN 0 ELSE ws.lastActivity + SecondsSinceActive

IsEligibleForPause(ws, now) ==
    /\ ws.lastActivity > 0
    /\ now >= CalculateEligibleAfter(ws)
    /\ MinRunningSeconds > 0 =>
          ws.lastRunningTime > 0 /\ now - ws.lastRunningTime >= MinRunningSeconds

\* Mutant: pauses on what an earlier probe has found.
evaluateWithoutProbe(ws, now, allowPause) ==
    [ws |-> [ws EXCEPT !.eligibleAfter = CalculateEligibleAfter(ws)],
     pause |-> IsEligibleForPause(ws, now)]

\* evaluatePauseDecision: the status it leaves and whether to pause.
evaluatePauseDecision(ws, now, allowPause) ==
    [ws |-> [ws EXCEPT !.eligibleAfter = CalculateEligibleAfter(ws)],
     pause |-> IsEligibleForPause(ws, now) /\ allowPause]

\* updateActivityStatusFromProbe, for a probe that found the Workspace idle
\* without a time (0), or last active at `activity`.
updateActivityStatusFromProbe(ws, start, succeeded, activity) ==
    [ws EXCEPT
        !.lastProbe = start, !.probeOk = succeeded,
        !.lastActivity = IF ~succeeded THEN @
                         ELSE IF activity > 0 THEN activity
                         ELSE IF @ = 0 THEN ws.lastRunningTime ELSE @]

\* parsePodExecOutput: what a script that tells the truth about its user
\* makes of it.  "has_activity" says whether the user is active right now.
parsePodExecOutput(field) ==
    IF field = "last_activity" THEN lastUse
    ELSE IF lastUse = time THEN time ELSE 0
-----------------------------------------------------------------------------
(***************************************************************************)
(* WorkspaceReconciler.Reconcile.                                          *)
(***************************************************************************)
Fault ==
    /\ spent.faults < MaxFaults /\ MayHappen
    /\ spent' = [spent EXCEPT !.faults = @ + 1]

\* Mutant: the requeue that reconcileActivity asks for is dropped.
ReturnStateResult(requeue) ==
    /\ r' = Idle
    /\ UNCHANGED <<due, queued>>

\* Reconcile returns: with a RequeueAfter, or with an error or a
\* RequeueAfter of one nanosecond, which is at once.
Return(requeue) ==
    /\ r' = Idle
    /\ due' = Earlier(due, IF requeue = Never THEN Never ELSE time + requeue)
    /\ UNCHANGED queued

ReturnAgain ==
    /\ r' = Idle
    /\ queued' = TRUE
    /\ UNCHANGED due

\* generateWorkspaceState, as far as it matters here.
generateWorkspaceState(ws, observed) ==
    IF ~observed THEN "Pending"
    ELSE IF pod.ready THEN "Running"
    ELSE IF ws.paused THEN "Paused"
    ELSE "Pending"

\* Read the Workspace, scale the StatefulSet, compute the state, and run the
\* probe if one is due.
Begin ==
    LET read == Cached(workspaces)
        replicas == IF read.paused THEN 0 ELSE 1
        observed == sts.observed /\ sts.replicas = replicas
        state == generateWorkspaceState(read, observed)
        ws == recordRunningTransition(read, state)
        remaining == timeUntilProbeDue(ws, time)
        decision == evaluatePauseDecision(ws, time, FALSE)
        next == [Idle EXCEPT !.read = read, !.now = time, !.used = lastUse,
                             !.fresh = Current(workspaces)]
    IN  /\ r.step = "idle"
        /\ queued \/ (due # Never /\ due <= time)
        /\ queued' = FALSE
        /\ due' = IF due # Never /\ due <= time THEN Never ELSE due
        /\ sts' = [replicas |-> replicas, observed |-> observed]
        /\ r' = IF state # "Running" THEN
                    [next EXCEPT !.step = "status", !.ws = ws,
                                 !.requeue = IF state = "Paused" THEN Never ELSE 1]
                ELSE IF remaining > 0 THEN
                    [next EXCEPT !.step = "status", !.requeue = remaining,
                                 !.ws = decision.ws, !.pause = decision.pause]
                ELSE [next EXCEPT !.step = "probe", !.ws = ws]
        /\ UNCHANGED <<prompt, time, workspaces, pod, lastUse, reported, spent>>

\* runProbe and what follows it, when it has succeeded or failed.
ProbeDone(succeeded, activity) ==
    LET probed == updateActivityStatusFromProbe(r.ws, r.now, succeeded, activity)
        decision == evaluatePauseDecision(probed, r.now, succeeded)
    IN  /\ r.step = "probe"
        /\ r' = [r EXCEPT !.step = "status", !.ws = decision.ws, !.pause = decision.pause,
                          !.requeue = IF succeeded THEN ProbeInterval ELSE MinProbeInterval]
        /\ UNCHANGED <<prompt, time, workspaces, sts, pod, queued, due, lastUse>>

ProbeSucceeds(field) ==
    /\ pod.ready
    /\ ProbeDone(TRUE, parsePodExecOutput(field))
    /\ reported' = IF parsePodExecOutput(field) > 0 THEN parsePodExecOutput(field) ELSE reported
    /\ UNCHANGED spent

\* A probe of a Pod that is not there fails; any other may fail or time out.
ProbeFails ==
    /\ (~pod.ready /\ UNCHANGED spent) \/ Fault
    /\ ProbeDone(FALSE, 0)
    /\ UNCHANGED reported

\* Write the status if it has changed, then patch spec.paused or return.
UpdateStatus ==
    LET next == IF r.pause
                THEN /\ r' = [r EXCEPT !.step = "patch", !.wrote = (r.ws # r.read)]
                     /\ UNCHANGED <<queued, due>>
                ELSE Return(r.requeue)
    IN  /\ r.step = "status"
        /\ \/ /\ r.ws = r.read
              /\ next
              /\ UNCHANGED <<workspaces, spent>>
           \/ /\ r.ws # r.read /\ r.fresh
              /\ workspaces' = Put(workspaces, r.ws)
              /\ next
              /\ UNCHANGED spent
           \/ /\ r.ws # r.read /\ ~r.fresh
              /\ ReturnAgain
              /\ UNCHANGED <<workspaces, spent>>
           \/ /\ r.ws # r.read /\ Fault
              /\ ReturnAgain
              /\ UNCHANGED workspaces
        /\ UNCHANGED <<prompt, time, sts, pod, lastUse, reported>>

\* Mutant: the patch carries no resourceVersion.
PatchUnlocked == TRUE

\* The body of the merge patch holds what this reconcile has changed: after a
\* status update that includes metadata.resourceVersion, which makes the API
\* server refuse it if the Workspace has changed since.
PatchAccepted == r.wrote => r.fresh

PatchPaused ==
    /\ r.step = "patch"
    /\ \/ /\ PatchAccepted
          /\ workspaces' = Put(workspaces,
                [Ws EXCEPT !.paused = TRUE, !.generation = @ + 1])
          /\ Return(Never)
          /\ UNCHANGED spent
       \/ /\ ~PatchAccepted
          /\ ReturnAgain
          /\ UNCHANGED <<workspaces, spent>>
       \/ /\ Fault
          /\ ReturnAgain
          /\ UNCHANGED workspaces
    /\ UNCHANGED <<prompt, time, sts, pod, lastUse, reported>>

Crash ==
    /\ Fault
    /\ r' = Idle
    /\ queued' = TRUE
    /\ due' = Never
    /\ workspaces' = Relisted(workspaces)
    /\ UNCHANGED <<prompt, time, sts, pod, lastUse, reported>>

WatchWorkspace ==
    /\ Behind(workspaces)
    /\ workspaces' = Tail(workspaces)
    /\ queued' = TRUE
    /\ UNCHANGED <<prompt, time, sts, pod, due, r, lastUse, reported, spent>>
-----------------------------------------------------------------------------
(***************************************************************************)
(* The user, the cluster and the clock.  EXTERNAL.                         *)
(***************************************************************************)
\* Anyone edits the Workspace: pauses or resumes it, or changes its metadata.
Edit(new) ==
    /\ spent.edits < MaxEdits /\ MayHappen /\ Room(workspaces)
    /\ spent' = [spent EXCEPT !.edits = @ + 1]
    /\ workspaces' = Put(workspaces, new)
    /\ r' = [r EXCEPT !.fresh = FALSE]
    /\ UNCHANGED <<prompt, time, sts, pod, queued, due, lastUse, reported>>

SetPaused == Edit([Ws EXCEPT !.paused = ~@, !.generation = @ + 1])

EditMetadata == Edit(Ws)

Use ==
    /\ pod.ready
    /\ lastUse # time
    /\ lastUse' = time
    /\ UNCHANGED <<prompt, time, workspaces, sts, pod, queued, due, r, reported, spent>>

\* The StatefulSet controller has acted on the StatefulSet.
Observe ==
    /\ ~sts.observed
    /\ sts.replicas = 0 => ~pod.ready
    /\ sts' = [sts EXCEPT !.observed = TRUE]
    /\ queued' = TRUE
    /\ UNCHANGED <<prompt, time, workspaces, pod, due, r, lastUse, reported, spent>>

PodUp ==
    /\ ~pod.ready /\ sts.replicas = 1
    /\ pod' = [ready |-> TRUE, since |-> time]
    /\ queued' = TRUE
    /\ UNCHANGED <<prompt, time, workspaces, sts, due, r, lastUse, reported, spent>>

Disturb ==
    /\ spent.disturbs < MaxDisturb /\ MayHappen
    /\ spent' = [spent EXCEPT !.disturbs = @ + 1]

PodDown ==
    /\ pod.ready
    /\ (sts.replicas = 0 /\ UNCHANGED spent) \/ Disturb
    /\ pod' = [pod EXCEPT !.ready = FALSE]
    /\ queued' = TRUE
    /\ UNCHANGED <<prompt, time, workspaces, sts, due, r, lastUse, reported>>

\* Nothing that the controller or the cluster could do right now is pending.
NothingToDo ==
    /\ r.step \in {"idle", "probe"}
    /\ ~queued /\ (due # Never => due > time)
    /\ ~Behind(workspaces)
    /\ sts.observed /\ pod.ready = (sts.replicas = 1)

\* A probe is cut off by its timeout.
Tick ==
    /\ time < (IF prompt THEN MaxTime ELSE MaxSlowTime)
    /\ r.step = "probe" => time - r.now < ProbeTimeout
    /\ prompt => NothingToDo
    /\ time' = time + 1
    /\ UNCHANGED <<prompt, workspaces, sts, pod, queued, due, r, lastUse, reported, spent>>
-----------------------------------------------------------------------------
Init ==
    /\ prompt \in Paces
    /\ time = 1
    /\ workspaces = <<NewWorkspace>>
    /\ sts = [replicas |-> 1, observed |-> FALSE]
    /\ pod = [ready |-> FALSE, since |-> 1]
    /\ queued = TRUE
    /\ due = Never
    /\ r = Idle
    /\ lastUse = 0
    /\ reported = 0
    /\ spent = [edits |-> 0, disturbs |-> 0, faults |-> 0]

Next ==
    \/ Begin \/ UpdateStatus \/ PatchPaused \/ Crash \/ WatchWorkspace
    \/ \E field \in Fields : ProbeSucceeds(field)
    \/ ProbeFails
    \/ SetPaused \/ EditMetadata \/ Use
    \/ Observe \/ PodUp \/ PodDown \/ Tick

Spec == Init /\ [][Next]_vars
-----------------------------------------------------------------------------
(***************************************************************************)
(* Correctness.                                                            *)
(***************************************************************************)
\* Every variable holds a value of its type; timestamps are never in the future.
TypeOK ==
    /\ prompt \in BOOLEAN
    /\ time \in Times
    /\ workspaces \in Versions(Workspace)
    /\ sts \in [replicas : {0, 1}, observed : BOOLEAN]
    /\ pod \in [ready : BOOLEAN, since : 0 .. time]
    /\ queued \in BOOLEAN
    /\ due \in Nat \cup {Never}
    /\ r \in [step : {"idle", "probe", "status", "patch"}, read : Workspace,
              ws : Workspace, now : 0 .. time, pause : BOOLEAN,
              requeue : Nat \cup {Never}, fresh : BOOLEAN, wrote : BOOLEAN,
              used : 0 .. time]
    /\ lastUse \in 0 .. time
    /\ reported \in 0 .. time
    /\ spent \in [edits : 0 .. MaxEdits, disturbs : 0 .. MaxDisturb,
                  faults : 0 .. MaxFaults]

\* The controller sets spec.paused.
AutoPaused == r.step = "patch" /\ r'.step = "idle" /\ Ws' # Ws

\* The controller never pauses a Workspace over an edit it has not seen: the
\* spec it decided on is the one that is stored (nobody has resumed the
\* Workspace meanwhile, say), although the cache it read from may be stale and
\* the patch itself names no resourceVersion.
PauseKeepsEdits == [][AutoPaused => r.read.generation = Ws.generation]_vars

\* The controller never pauses a Workspace whose user was active within
\* secondsSinceActive of the moment it started to look, provided the probe
\* script reports the time of the last activity.
PauseConfirmedIdle ==
    [][AutoPaused => r.used = 0 \/ r.now - r.used >= SecondsSinceActive]_vars

\* "it guarantees we never pause an actively-used Workspace based on stale
\* activity data" (reconcileActivity): whatever a successful probe - this one
\* or an earlier one - has said about the user's activity counts.
ReportedActivityCounts ==
    [][AutoPaused => reported = 0 \/ r.now - reported >= SecondsSinceActive]_vars

\* "the minimum duration in seconds a Workspace must be running before it can be
\* paused due to inactivity" (minRunningSeconds in the WorkspaceKind's API).
PauseAfterMinRunning ==
    [][AutoPaused /\ pod.ready => time - pod.since >= MinRunningSeconds]_vars

Latest(a, b) == IF a > b THEN a ELSE b

\* When the Workspace may be paused, unless it is used again.
Eligible ==
    Latest(lastUse + SecondsSinceActive,
           pod.since + Latest(SecondsSinceActive, MinRunningSeconds))

\* The Workspace is still running long after that.
Overdue(delay) == pod.ready /\ sts.replicas = 1 /\ time > Eligible + delay

\* How long after that the first probe that finds the Workspace idle may end, and what an
\* edit, a fault or a stop of the Pod may cost: the run may count as a new one.
Slack == ProbeInterval + 2 * ProbeTimeout
Respite == Latest(SecondsSinceActive, MinRunningSeconds) + Slack

\* When the controller keeps up, an idle Workspace is paused: every path
\* through Reconcile asks for the next probe.  The probe that finds an eligible Workspace
\* idle starts within probeIntervalSeconds of the one before it; an edit, a fault or a
\* failed probe costs no more than one further idle period (a Workspace that is resumed
\* before its Pod has stopped starts a new run).
PausedInTime == prompt => ~Overdue(Mishaps * Respite + Slack)
=============================================================================
