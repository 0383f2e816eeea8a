------------------------- MODULE ActivityPauseProofs -------------------------
(***************************************************************************)
(* Proofs about ActivityPause.                                             *)
(*                                                                         *)
(* The pause rests on three things a reconcile holds in its hands: the     *)
(* Workspace as it read it (Reading), the status it is about to write      *)
(* (Deciding) and the use it has seen (Confirming).  That an idle          *)
(* Workspace is paused in time rests on the work queue: a cluster with     *)
(* nothing to do has reconciled what is stored, and the next probe is due  *)
(* (Following, Settling).  KeepingUp adds up what time may have passed.    *)
(***************************************************************************)
EXTENDS ActivityPause, InformerProofs, TLAPS

States == {"Running", "Paused", "Pending"}
Steps == {"idle", "probe", "status", "patch"}

ReconcileType(t) ==
    [step : Steps, read : Workspace, ws : Workspace, now : 0 .. t, pause : BOOLEAN,
     requeue : Nat \cup {Never}, fresh : BOOLEAN, wrote : BOOLEAN, used : 0 .. t]

\* What is recorded is not in the future, and the activity is a real one or the start of the
\* run.
Timely(w) ==
    /\ w.lastRunningTime <= time /\ w.lastProbe <= time
    /\ w.lastActivity <= Latest(lastUse, w.lastRunningTime)

Timestamps ==
    /\ time >= 1
    /\ \A i \in 1 .. Len(workspaces) : Timely(workspaces[i])
    /\ Timely(r.ws)

\* What the reconcile under way knows of the stored Workspace.
Reading ==
    /\ r.ws.generation = r.read.generation /\ r.ws.paused = r.read.paused
    /\ r.fresh => r.step # "idle"
    /\ r.fresh /\ r.step \in {"probe", "status"} => Ws = r.read
    /\ r.fresh /\ r.step = "patch" => Ws = r.ws

\* A status that goes with a pause is always written: the probe has left its mark in it.
Deciding ==
    /\ r.step = "probe" =>
         /\ r.now >= 1 /\ ~r.pause
         /\ r.read.lastProbe = r.now => r.read.state # "Running" \/ r.read.lastRunningTime = 0
    /\ r.step \in {"probe", "status"} /\ r.ws.state = "Running" => r.ws.lastRunningTime >= 1
    /\ r.step = "probe" => r.ws.state = "Running"
    /\ r.step = "status" /\ r.pause => r.ws # r.read
    /\ r.step = "patch" => r.wrote /\ r.pause

\* The use that the reconcile has seen when it started to look.
Confirming ==
    /\ r.used <= lastUse
    /\ r.pause => r.used = 0 \/ r.now - r.used >= SecondsSinceActive

PauseInv == TypeOK /\ Timestamps /\ Reading /\ Deciding

Replicas(w) == IF w.paused THEN 0 ELSE 1

\* What the reconcile under way has seen of the cluster is what is there, or the Workspace
\* is queued again; the time that it takes.
Following ==
    r.step # "idle" =>
      /\ sts.replicas = Replicas(r.read)
      /\ ~queued /\ Current(workspaces) => r.fresh /\ r.step # "patch"
      /\ ~queued /\ pod.ready /\ sts.observed => r.ws.state = "Running"
      /\ prompt => time <= r.now + ProbeTimeout
      /\ prompt /\ r.step = "status" /\ r.ws = r.read /\ r.ws.state = "Running" =>
           /\ r.ws.lastProbe >= 1
           /\ r.requeue # Never /\ time + r.requeue <= r.ws.lastProbe + ProbeInterval

\* When there is nothing to do, the stored Workspace has been reconciled and the next probe
\* is due.
Settling ==
    r.step = "idle" /\ ~queued /\ Current(workspaces) =>
      /\ sts.replicas = Replicas(Ws)
      /\ pod.ready /\ sts.observed => Ws.state = "Running"
      /\ prompt /\ Ws.state = "Running" =>
           /\ Ws.lastRunningTime >= 1 /\ Ws.lastProbe >= 1
           /\ due # Never /\ due <= Ws.lastProbe + ProbeInterval

Grace == Eligible + Mishaps * Respite
IdlePeriod == Latest(SecondsSinceActive, MinRunningSeconds)

\* The Pod has just started, or an edit or a fault has just set it back.
Granted == time + IdlePeriod <= Grace

Recorded(w) == w.state = "Running" /\ w.lastRunningTime >= 1 /\ w.lastRunningTime + IdlePeriod <= Grace

Settled(w) ==
    /\ Recorded(w) /\ w.lastProbe >= 1 /\ w.lastProbe <= Grace
    /\ time <= w.lastProbe + ProbeInterval + ProbeTimeout

ProbedInTime == r.now <= Grace + ProbeInterval + ProbeTimeout

\* Nothing has gone wrong since time has passed.
Calm ==
    \/ Ws.paused /\ time <= Grace + Slack
    \/ /\ sts.replicas = 1 /\ sts.observed
       /\ \A i \in 1 .. Len(workspaces) : ~workspaces[i].paused
       /\ ~r.fresh => Settled(Ws)
       /\ r.fresh /\ r.step = "probe" => Recorded(r.ws) /\ ProbedInTime
       /\ r.fresh /\ r.step = "status" => IF r.pause THEN ProbedInTime ELSE Settled(r.ws)
       /\ r.fresh /\ r.step = "patch" => ProbedInTime

KeepingUp == prompt /\ pod.ready => Granted \/ Calm

InTimeInv == PauseInv /\ Following /\ Settling /\ KeepingUp

-----------------------------------------------------------------------------
(***************************************************************************)
(* Types.                                                                  *)
(***************************************************************************)
LEMMA WorkspaceFields ==
    ASSUME NEW w \in Workspace
    PROVE  /\ w.paused \in BOOLEAN /\ w.generation \in Nat /\ w.state \in States
           /\ w.lastRunningTime \in Times /\ w.lastActivity \in Times /\ w.lastProbe \in Times
           /\ w.lastRunningTime \in Nat /\ w.lastActivity \in Nat /\ w.lastProbe \in Nat
           /\ w.probeOk \in BOOLEAN /\ w.eligibleAfter \in Nat
  <1>1. Times \subseteq Nat
    BY BoundsAssumption DEF Times
  <1> QED
    BY <1>1 DEF Workspace, States

LEMMA NewWorkspaceType == NewWorkspace \in Workspace
  <1>1. 0 \in Times /\ FALSE \in BOOLEAN /\ 1 \in Nat /\ 0 \in Nat /\ "Pending" \in States
    BY BoundsAssumption DEF Times, States
  <1> QED
    BY <1>1 DEF NewWorkspace, Workspace, States

LEMMA IdleType ==
    ASSUME NEW t \in Nat
    PROVE  /\ Idle \in ReconcileType(t) /\ Idle.step = "idle" /\ ~Idle.fresh /\ ~Idle.pause
           /\ Idle.ws = NewWorkspace /\ Idle.read = NewWorkspace /\ Idle.used = 0 /\ Idle.now = 0
  <1>1. 0 \in 0 .. t /\ FALSE \in BOOLEAN /\ Never \in Nat \cup {Never} /\ "idle" \in Steps
    BY DEF Steps
  <1> QED
    BY <1>1, NewWorkspaceType DEF Idle, ReconcileType

LEMMA ReconcileFields ==
    ASSUME NEW t \in Nat, NEW x \in ReconcileType(t)
    PROVE  /\ x.step \in Steps /\ x.read \in Workspace /\ x.ws \in Workspace /\ x.now \in 0 .. t
           /\ x.now \in Nat /\ x.now <= t /\ x.pause \in BOOLEAN /\ x.requeue \in Nat \cup {Never}
           /\ x.fresh \in BOOLEAN /\ x.wrote \in BOOLEAN
           /\ x.used \in 0 .. t /\ x.used \in Nat /\ x.used <= t
  <1>1. /\ x.step \in Steps /\ x.read \in Workspace /\ x.ws \in Workspace /\ x.now \in 0 .. t
        /\ x.pause \in BOOLEAN /\ x.requeue \in Nat \cup {Never} /\ x.fresh \in BOOLEAN
        /\ x.wrote \in BOOLEAN /\ x.used \in 0 .. t
    BY DEF ReconcileType
  <1> QED
    BY <1>1

\* A later time allows more.
LEMMA ReconcileLater ==
    ASSUME NEW t \in Nat, NEW x \in ReconcileType(t)
    PROVE  x \in ReconcileType(t + 1)
  <1>1. 0 .. t \subseteq 0 .. (t + 1)
    OBVIOUS
  <1> QED
    BY <1>1 DEF ReconcileType

LEMMA PauseTypes ==
    ASSUME TypeOK
    PROVE  /\ prompt \in BOOLEAN /\ time \in Times /\ time \in Nat
           /\ workspaces \in Versions(Workspace) /\ Ws \in Workspace /\ Cached(workspaces) \in Workspace
           /\ Len(workspaces) \in Nat \ {0}
           /\ \A i \in 1 .. Len(workspaces) : workspaces[i] \in Workspace
           /\ sts.replicas \in {0, 1} /\ sts.observed \in BOOLEAN
           /\ pod.ready \in BOOLEAN /\ pod.since \in Nat /\ pod.since <= time
           /\ queued \in BOOLEAN /\ due \in Nat \cup {Never}
           /\ r \in ReconcileType(time)
           /\ lastUse \in Nat /\ lastUse <= time /\ reported \in 0 .. time
           /\ spent.edits \in Nat /\ spent.disturbs \in Nat /\ spent.faults \in Nat
  <1>1. Times \subseteq Nat
    BY BoundsAssumption DEF Times
  <1>2. /\ prompt \in BOOLEAN /\ time \in Times /\ workspaces \in Versions(Workspace)
        /\ queued \in BOOLEAN /\ due \in Nat \cup {Never}
        /\ r \in ReconcileType(time) /\ lastUse \in 0 .. time /\ reported \in 0 .. time
    BY DEF TypeOK, ReconcileType, Steps
  <1>3. sts.replicas \in {0, 1} /\ sts.observed \in BOOLEAN
    BY DEF TypeOK
  <1>4. pod.ready \in BOOLEAN /\ pod.since \in 0 .. time
    BY DEF TypeOK
  <1>5. spent.edits \in Nat /\ spent.disturbs \in Nat /\ spent.faults \in Nat
    BY DEF TypeOK
  <1>6. Ws \in Workspace /\ Cached(workspaces) \in Workspace
    BY <1>2, ReadType DEF Ws
  <1>7. Len(workspaces) \in Nat \ {0} /\ \A i \in 1 .. Len(workspaces) : workspaces[i] \in Workspace
    BY <1>2 DEF Versions
  <1>8. time \in Nat
    BY <1>1, <1>2
  <1>9. pod.since \in Nat /\ pod.since <= time /\ lastUse \in Nat /\ lastUse <= time
    BY <1>2, <1>4, <1>8
  <1> QED
    BY <1>2, <1>3, <1>4, <1>5, <1>6, <1>7, <1>8, <1>9

-----------------------------------------------------------------------------
(***************************************************************************)
(* The decisions.                                                          *)
(***************************************************************************)
LEMMA TransitionFacts ==
    ASSUME time \in Times, NEW w \in Workspace, NEW st \in States
    PROVE  LET v == recordRunningTransition(w, st)
           IN  /\ v \in Workspace
               /\ v.paused = w.paused /\ v.generation = w.generation /\ v.state = st
               /\ \/ /\ st = "Running" => w.state = "Running" /\ w.lastRunningTime # 0
                     /\ v = [w EXCEPT !.state = st]
                     /\ v.lastRunningTime = w.lastRunningTime /\ v.lastProbe = w.lastProbe
                     /\ v.lastActivity = w.lastActivity
                  \/ /\ st = "Running" /\ (w.state # "Running" \/ w.lastRunningTime = 0)
                     /\ v.lastRunningTime = time /\ v.lastProbe = 0 /\ v.lastActivity = 0
  <1>1. 0 \in Times /\ 0 \in Nat /\ FALSE \in BOOLEAN
    BY BoundsAssumption DEF Times
  <1>2. CASE st = "Running" /\ (w.state # "Running" \/ w.lastRunningTime = 0)
    <2> DEFINE v == [w EXCEPT !.state = st, !.lastRunningTime = time, !.lastActivity = 0,
                              !.lastProbe = 0, !.probeOk = FALSE, !.eligibleAfter = 0]
    <2>1. v \in Workspace
      BY <1>1 DEF Workspace, States
    <2>2. /\ v.paused = w.paused /\ v.generation = w.generation /\ v.state = st
          /\ v.lastRunningTime = time /\ v.lastProbe = 0 /\ v.lastActivity = 0
      BY DEF Workspace
    <2>3. recordRunningTransition(w, st) = v
      BY <1>2 DEF recordRunningTransition
    <2> HIDE DEF v
    <2> QED
      BY <1>2, <2>1, <2>2, <2>3
  <1>3. CASE ~(st = "Running" /\ (w.state # "Running" \/ w.lastRunningTime = 0))
    <2> DEFINE v == [w EXCEPT !.state = st]
    <2>1. v \in Workspace
      BY DEF Workspace, States
    <2>2. /\ v.paused = w.paused /\ v.generation = w.generation /\ v.state = st
          /\ v.lastRunningTime = w.lastRunningTime /\ v.lastProbe = w.lastProbe
          /\ v.lastActivity = w.lastActivity
      BY DEF Workspace
    <2>3. recordRunningTransition(w, st) = v
      BY <1>3 DEF recordRunningTransition
    <2> QED
      BY <1>3, <2>1, <2>2, <2>3
  <1> QED
    BY <1>2, <1>3

LEMMA EligibleAfterFacts ==
    ASSUME NEW w \in Workspace, NEW now, NEW allow
    PROVE  LET d == evaluatePauseDecision(w, now, allow)
           IN  /\ d.ws \in Workspace
               /\ d.ws.paused = w.paused /\ d.ws.generation = w.generation /\ d.ws.state = w.state
               /\ d.ws.lastRunningTime = w.lastRunningTime /\ d.ws.lastProbe = w.lastProbe
               /\ d.ws.lastActivity = w.lastActivity
               /\ d.pause = (IsEligibleForPause(w, now) /\ allow)
  <1>1. CalculateEligibleAfter(w) \in Nat
    BY WorkspaceFields, IntervalsAssumption DEF CalculateEligibleAfter
  <1> DEFINE e == CalculateEligibleAfter(w)
             v == [w EXCEPT !.eligibleAfter = e]
  <1>2. evaluatePauseDecision(w, now, allow).ws = v
    BY DEF evaluatePauseDecision
  <1>3. evaluatePauseDecision(w, now, allow).pause = (IsEligibleForPause(w, now) /\ allow)
    BY DEF evaluatePauseDecision
  <1> HIDE DEF e
  <1>4. e \in Nat
    BY <1>1 DEF e
  <1>5. v \in Workspace
    BY <1>4 DEF Workspace
  <1>6. /\ v.paused = w.paused /\ v.generation = w.generation /\ v.state = w.state
        /\ v.lastRunningTime = w.lastRunningTime /\ v.lastProbe = w.lastProbe
        /\ v.lastActivity = w.lastActivity
    BY DEF Workspace
  <1> HIDE DEF v
  <1> QED
    BY <1>2, <1>3, <1>5, <1>6

LEMMA ProbeStatusFacts ==
    ASSUME NEW w \in Workspace, NEW start \in Times, NEW ok \in BOOLEAN, NEW activity \in Times
    PROVE  LET v == updateActivityStatusFromProbe(w, start, ok, activity)
           IN  /\ v \in Workspace
               /\ v.paused = w.paused /\ v.generation = w.generation /\ v.state = w.state
               /\ v.lastRunningTime = w.lastRunningTime /\ v.lastProbe = start
               /\ v.lastActivity \in {activity, w.lastRunningTime, w.lastActivity}
               /\ ok => v.lastActivity = IF activity > 0 THEN activity
                                         ELSE IF w.lastActivity = 0 THEN w.lastRunningTime
                                         ELSE w.lastActivity
  <1> DEFINE a == IF ~ok THEN w.lastActivity
                  ELSE IF activity > 0 THEN activity
                  ELSE IF w.lastActivity = 0 THEN w.lastRunningTime ELSE w.lastActivity
             v == [w EXCEPT !.lastProbe = start, !.probeOk = ok, !.lastActivity = a]
  <1>1. a \in Times
    BY WorkspaceFields
  <1>2. updateActivityStatusFromProbe(w, start, ok, activity) = v
    BY DEF updateActivityStatusFromProbe, Workspace
  <1>3. /\ a \in {activity, w.lastRunningTime, w.lastActivity}
        /\ ok => a = IF activity > 0 THEN activity
                     ELSE IF w.lastActivity = 0 THEN w.lastRunningTime ELSE w.lastActivity
    OBVIOUS
  <1> HIDE DEF a
  <1>4. v \in Workspace
    BY <1>1 DEF Workspace
  <1>5. /\ v.paused = w.paused /\ v.generation = w.generation /\ v.state = w.state
        /\ v.lastRunningTime = w.lastRunningTime /\ v.lastProbe = start /\ v.lastActivity = a
    BY DEF Workspace
  <1> HIDE DEF v
  <1> QED
    BY <1>2, <1>3, <1>4, <1>5

LEMMA ProbeDueFacts ==
    ASSUME NEW w \in Workspace, NEW now \in Nat
    PROVE  LET d == timeUntilProbeDue(w, now)
           IN  /\ d > 0 => /\ d \in Nat /\ w.lastProbe >= 1
                           /\ now + d <= w.lastProbe + ProbeInterval
               /\ ~(d > 0) => w.lastProbe = 0 \/ now - w.lastProbe >= 1
  <1> DEFINE i == requiredInterval(w)
  <1>1. i \in Nat /\ i >= 1 /\ i <= ProbeInterval
    BY IntervalsAssumption DEF requiredInterval
  <1>2. timeUntilProbeDue(w, now) = IF w.lastProbe = 0 \/ now - w.lastProbe >= i
                                    THEN 0 ELSE i - (now - w.lastProbe)
    BY DEF timeUntilProbeDue
  <1> HIDE DEF i
  <1>3. w.lastProbe \in Nat
    BY WorkspaceFields
  <1> QED
    BY <1>1, <1>2, <1>3, IntervalsAssumption

LEMMA StateFacts ==
    ASSUME NEW w, NEW observed \in BOOLEAN, pod.ready \in BOOLEAN
    PROVE  LET st == generateWorkspaceState(w, observed)
           IN  st \in States /\ (st = "Running" <=> observed /\ pod.ready)
  BY DEF generateWorkspaceState, States

\* How the versions change keeps what all of them have in common.
LEMMA VersionsKept ==
    ASSUME NEW S, NEW T, NEW q \in Versions(S), \A i \in 1 .. Len(q) : q[i] \in T
    PROVE  /\ Stored(q) \in T /\ Cached(q) \in T
           /\ \A v \in S : v \in T => \A i \in 1 .. Len(Put(q, v)) : Put(q, v)[i] \in T
           /\ Behind(q) => \A i \in 1 .. Len(Tail(q)) : Tail(q)[i] \in T
           /\ \A i \in 1 .. Len(Relisted(q)) : Relisted(q)[i] \in T
  <1> DEFINE B == S \cap T
  <1>1. \A p \in Versions(B) : \A i \in 1 .. Len(p) : p[i] \in T
    BY DEF Versions
  <1>2. q \in Versions(B)
    BY DEF Versions
  <1> HIDE DEF B
  <1>3. Stored(q) \in B /\ Cached(q) \in B
    BY <1>2, ReadType
  <1>4. \A v \in B : Put(q, v) \in Versions(B)
    BY <1>2, PutFacts
  <1>5. Behind(q) => Tail(q) \in Versions(B)
    BY <1>2, TailFacts
  <1>6. Relisted(q) \in Versions(B)
    BY <1>2, RelistedFacts
  <1>7. Stored(q) \in T /\ Cached(q) \in T
    BY <1>3 DEF B
  <1>8. \A v \in S : v \in T => v \in B
    BY DEF B
  <1> QED
    BY <1>1, <1>4, <1>5, <1>6, <1>7, <1>8

\* A write is on its way; a restart leaves nothing under way.
LEMMA WriteUnderWay ==
    ASSUME NEW S, NEW q \in Versions(S), NEW v \in S
    PROVE  ~Current(Put(q, v)) /\ Behind(Put(q, v)) /\ Current(Relisted(q))
  <1>1. Len(q) \in Nat /\ Len(q) > 0
    BY DEF Versions
  <1>2. Len(Put(q, v)) = Len(q) + 1 /\ Len(Relisted(q)) = 1
    BY PutFacts, RelistedFacts
  <1> QED
    BY <1>1, <1>2 DEF Current, Behind

-----------------------------------------------------------------------------
(***************************************************************************)
(* What the steps of a reconcile leave in hand.                            *)
(***************************************************************************)
LEMMA BeginFacts ==
    ASSUME PauseInv, Begin
    PROVE  LET read == Cached(workspaces)
           IN  /\ r' \in ReconcileType(time) /\ r'.step \in {"status", "probe"}
               /\ r'.read = read /\ r'.now = time /\ r'.used = lastUse
               /\ r'.fresh = Current(workspaces) /\ ~r'.pause
               /\ r'.ws.paused = read.paused /\ r'.ws.generation = read.generation
               /\ sts' \in [replicas : {0, 1}, observed : BOOLEAN]
               /\ sts'.replicas = Replicas(read)
               /\ sts'.observed = (sts.observed /\ sts.replicas = Replicas(read))
               /\ r'.ws.state = "Running" <=> sts'.observed /\ pod.ready
               /\ \/ /\ r'.ws.state = "Running" => read.state = "Running" /\ read.lastRunningTime # 0
                     /\ r'.ws.lastRunningTime = read.lastRunningTime
                     /\ r'.ws.lastProbe = read.lastProbe /\ r'.ws.lastActivity = read.lastActivity
                  \/ /\ r'.ws.state = "Running" /\ (read.state # "Running" \/ read.lastRunningTime = 0)
                     /\ r'.ws.lastRunningTime = time
                     /\ r'.ws.lastProbe = 0 /\ r'.ws.lastActivity = 0
               /\ r'.step = "probe" =>
                    /\ r'.ws.state = "Running"
                    /\ r'.ws.lastProbe = 0 \/ time - r'.ws.lastProbe >= 1
               /\ r'.step = "status" /\ r'.ws.state = "Running" =>
                    /\ r'.ws.lastProbe >= 1
                    /\ r'.requeue \in Nat /\ time + r'.requeue <= r'.ws.lastProbe + ProbeInterval
  <1> DEFINE read == Cached(workspaces)
             replicas == IF read.paused THEN 0 ELSE 1
             observed == sts.observed /\ sts.replicas = replicas
             st == generateWorkspaceState(read, observed)
             v == recordRunningTransition(read, st)
             d == timeUntilProbeDue(v, time)
             e == evaluatePauseDecision(v, time, FALSE)
             next == [Idle EXCEPT !.read = read, !.now = time, !.used = lastUse,
                                  !.fresh = Current(workspaces)]
             fresh == Current(workspaces)
  <1>1. TypeOK
    BY DEF PauseInv
  <1>2. /\ time \in Times /\ time \in Nat /\ read \in Workspace /\ lastUse \in 0 .. time
        /\ pod.ready \in BOOLEAN /\ sts.observed \in BOOLEAN
    BY <1>1, PauseTypes
  <1>3. observed \in BOOLEAN /\ replicas \in {0, 1} /\ replicas = Replicas(read)
    BY DEF Replicas
  <1>4. sts' = [replicas |-> replicas, observed |-> observed]
    BY DEF Begin
  <1>5. r' = IF st # "Running"
             THEN [next EXCEPT !.step = "status", !.ws = v,
                               !.requeue = IF st = "Paused" THEN Never ELSE 1]
             ELSE IF d > 0
             THEN [next EXCEPT !.step = "status", !.requeue = d, !.ws = e.ws, !.pause = e.pause]
             ELSE [next EXCEPT !.step = "probe", !.ws = v]
    BY DEF Begin
  <1>6. st \in States /\ (st = "Running" <=> observed /\ pod.ready)
    BY <1>2, <1>3, StateFacts
  <1>7. /\ v \in Workspace /\ v.paused = read.paused /\ v.generation = read.generation
        /\ v.state = st
        /\ \/ /\ st = "Running" => read.state = "Running" /\ read.lastRunningTime # 0
              /\ v.lastRunningTime = read.lastRunningTime /\ v.lastProbe = read.lastProbe
              /\ v.lastActivity = read.lastActivity
           \/ /\ st = "Running" /\ (read.state # "Running" \/ read.lastRunningTime = 0)
              /\ v.lastRunningTime = time /\ v.lastProbe = 0 /\ v.lastActivity = 0
    BY <1>2, <1>6, TransitionFacts
  <1>8. /\ d > 0 => /\ d \in Nat /\ v.lastProbe >= 1
                    /\ time + d <= v.lastProbe + ProbeInterval
        /\ ~(d > 0) => v.lastProbe = 0 \/ time - v.lastProbe >= 1
    BY <1>2, <1>7, ProbeDueFacts
  <1>9. /\ e.ws \in Workspace
        /\ e.ws.paused = v.paused /\ e.ws.generation = v.generation /\ e.ws.state = v.state
        /\ e.ws.lastRunningTime = v.lastRunningTime /\ e.ws.lastProbe = v.lastProbe
        /\ e.ws.lastActivity = v.lastActivity
        /\ e.pause = FALSE
    <2>1. v \in Workspace
      BY <1>7
    <2> HIDE DEF v
    <2>2. e.pause = FALSE
      BY DEF evaluatePauseDecision
    <2>3. PICK a : a = FALSE
      OBVIOUS
    <2>4. e = evaluatePauseDecision(v, time, a)
      BY <2>3
    <2> HIDE DEF e
    <2> QED
      BY <2>1, <2>2, <2>4, EligibleAfterFacts
  <1>10. fresh \in BOOLEAN
    BY DEF Current
  <1>11. sts' \in [replicas : {0, 1}, observed : BOOLEAN] /\ sts'.replicas = replicas /\ sts'.observed = observed
    BY <1>3, <1>4
  <1>12. /\ next \in ReconcileType(time) /\ next.read = read /\ next.now = time /\ next.used = lastUse
         /\ next.fresh = fresh /\ next.pause = FALSE
    <2>0. Idle.pause = FALSE
      BY DEF Idle
    <2>1. Idle \in ReconcileType(time) /\ time \in 0 .. time /\ Idle.pause = FALSE
      BY <1>2, <2>0, IdleType
    <2> HIDE DEF read, fresh
    <2>2. next = [Idle EXCEPT !.read = read, !.now = time, !.used = lastUse, !.fresh = fresh]
      BY DEF read, fresh
    <2> HIDE DEF next
    <2> QED
      BY <1>2, <1>10, <2>1, <2>2 DEF ReconcileType
  <1> HIDE DEF next, e, d, v, st, observed, replicas, read, fresh
  <1>13. CASE st # "Running"
    <2> DEFINE q == IF st = "Paused" THEN Never ELSE 1
    <2>1. r' = [next EXCEPT !.step = "status", !.ws = v, !.requeue = q]
      BY <1>5, <1>13
    <2>2. q \in Nat \cup {Never} /\ "status" \in Steps
      BY DEF Steps
    <2> HIDE DEF q
    <2>3. /\ r' \in ReconcileType(time) /\ r'.step = "status" /\ r'.read = next.read /\ r'.now = next.now
          /\ r'.used = next.used /\ r'.fresh = next.fresh /\ r'.pause = next.pause /\ r'.ws = v
      BY <1>7, <1>12, <2>1, <2>2 DEF ReconcileType
    <2> QED
      BY <1>3, <1>6, <1>7, <1>11, <1>12, <1>13, <2>3 DEF read, fresh, observed
  <1>14. CASE st = "Running" /\ d > 0
    <2>1. r' = [next EXCEPT !.step = "status", !.requeue = d, !.ws = e.ws, !.pause = e.pause]
      BY <1>5, <1>14
    <2>2. d \in Nat \cup {Never} /\ "status" \in Steps /\ e.pause \in BOOLEAN
      BY <1>8, <1>9, <1>14 DEF Steps
    <2>3. /\ r' \in ReconcileType(time) /\ r'.step = "status" /\ r'.read = next.read /\ r'.now = next.now
          /\ r'.used = next.used /\ r'.fresh = next.fresh /\ r'.pause = e.pause /\ r'.ws = e.ws
          /\ r'.requeue = d
      BY <1>9, <1>12, <2>1, <2>2 DEF ReconcileType
    <2> QED
      BY <1>3, <1>6, <1>7, <1>8, <1>9, <1>11, <1>12, <1>14, <2>3 DEF read, fresh, observed
  <1>15. CASE st = "Running" /\ ~(d > 0)
    <2>1. r' = [next EXCEPT !.step = "probe", !.ws = v]
      BY <1>5, <1>15
    <2>2. "probe" \in Steps
      BY DEF Steps
    <2>3. /\ r' \in ReconcileType(time) /\ r'.step = "probe" /\ r'.read = next.read /\ r'.now = next.now
          /\ r'.used = next.used /\ r'.fresh = next.fresh /\ r'.pause = next.pause /\ r'.ws = v
      BY <1>7, <1>12, <2>1, <2>2 DEF ReconcileType
    <2> QED
      BY <1>3, <1>6, <1>7, <1>8, <1>11, <1>12, <1>15, <2>3 DEF read, fresh, observed
  <1> QED
    BY <1>13, <1>14, <1>15

\* A probe that found `activity`, or failed.
LEMMA ProbeFacts ==
    ASSUME PauseInv, NEW ok \in BOOLEAN, NEW activity \in 0 .. time, ProbeDone(ok, activity)
    PROVE  /\ r.step = "probe" /\ r' \in ReconcileType(time) /\ r'.step = "status"
           /\ r'.read = r.read /\ r'.now = r.now /\ r'.used = r.used /\ r'.fresh = r.fresh
           /\ r'.ws.paused = r.ws.paused /\ r'.ws.generation = r.ws.generation
           /\ r'.ws.state = r.ws.state /\ r'.ws.lastRunningTime = r.ws.lastRunningTime
           /\ r'.ws.lastProbe = r.now
           /\ r'.ws.lastActivity \in {activity, r.ws.lastRunningTime, r.ws.lastActivity}
           /\ ok => r'.ws.lastActivity = IF activity > 0 THEN activity
                                         ELSE IF r.ws.lastActivity = 0 THEN r.ws.lastRunningTime
                                         ELSE r.ws.lastActivity
           /\ r'.pause => ok /\ r'.ws.lastActivity > 0
                          /\ r.now >= r'.ws.lastActivity + SecondsSinceActive
           /\ ok /\ r'.ws.lastActivity > 0 /\ r.now >= r'.ws.lastActivity + SecondsSinceActive
                 /\ r.ws.lastRunningTime > 0 /\ r.now - r.ws.lastRunningTime >= MinRunningSeconds
              => r'.pause
  <1> DEFINE v == updateActivityStatusFromProbe(r.ws, r.now, ok, activity)
             d == evaluatePauseDecision(v, r.now, ok)
             q == IF ok THEN ProbeInterval ELSE MinProbeInterval
  <1>1. TypeOK
    BY DEF PauseInv
  <1>2. r \in ReconcileType(time) /\ time \in Nat /\ time \in Times
    BY <1>1, PauseTypes
  <1>3. r.ws \in Workspace /\ r.now \in 0 .. time
    BY <1>2, ReconcileFields
  <1>4. 0 .. time \subseteq Times
    BY <1>2, BoundsAssumption DEF Times
  <1>5. /\ v \in Workspace
        /\ v.paused = r.ws.paused /\ v.generation = r.ws.generation /\ v.state = r.ws.state
        /\ v.lastRunningTime = r.ws.lastRunningTime /\ v.lastProbe = r.now
        /\ v.lastActivity \in {activity, r.ws.lastRunningTime, r.ws.lastActivity}
        /\ ok => v.lastActivity = IF activity > 0 THEN activity
                                  ELSE IF r.ws.lastActivity = 0 THEN r.ws.lastRunningTime
                                  ELSE r.ws.lastActivity
    BY <1>3, <1>4, ProbeStatusFacts
  <1>6. r.step = "probe" /\ r' = [r EXCEPT !.step = "status", !.ws = d.ws, !.pause = d.pause, !.requeue = q]
    BY DEF ProbeDone
  <1> HIDE DEF v, q
  <1>7. /\ d.ws \in Workspace
        /\ d.ws.paused = v.paused /\ d.ws.generation = v.generation /\ d.ws.state = v.state
        /\ d.ws.lastRunningTime = v.lastRunningTime /\ d.ws.lastProbe = v.lastProbe
        /\ d.ws.lastActivity = v.lastActivity
        /\ d.pause = (IsEligibleForPause(v, r.now) /\ ok)
    BY <1>5, EligibleAfterFacts
  <1> HIDE DEF d
  <1>8. q \in Nat \cup {Never} /\ "status" \in Steps /\ d.pause \in BOOLEAN
    BY <1>7, IntervalsAssumption DEF q, Steps
  <1>9. /\ r' \in ReconcileType(time) /\ r'.step = "status"
        /\ r'.read = r.read /\ r'.now = r.now /\ r'.used = r.used /\ r'.fresh = r.fresh
        /\ r'.ws = d.ws /\ r'.pause = d.pause
    BY <1>2, <1>6, <1>7, <1>8 DEF ReconcileType
  <1>10. IsEligibleForPause(v, r.now) <=>
           /\ v.lastActivity > 0 /\ r.now >= v.lastActivity + SecondsSinceActive
           /\ MinRunningSeconds > 0 => v.lastRunningTime > 0 /\ r.now - v.lastRunningTime >= MinRunningSeconds
    <2>1. v.lastActivity \in Nat
      BY <1>5, WorkspaceFields
    <2> QED
      BY <2>1 DEF IsEligibleForPause, CalculateEligibleAfter
  <1> QED
    BY <1>5, <1>6, <1>7, <1>9, <1>10

\* The ways in which the reconcile writes its status, or does not.
LEMMA UpdateFacts ==
    ASSUME PauseInv, UpdateStatus
    PROVE  /\ r.step = "status" /\ UNCHANGED <<prompt, time, sts, pod, lastUse, reported>>
           /\ \/ /\ r.ws = r.read /\ ~r.pause /\ r' = Idle /\ workspaces' = workspaces
                 /\ due' = Earlier(due, IF r.requeue = Never THEN Never ELSE time + r.requeue)
                 /\ UNCHANGED <<queued, spent>>
              \/ /\ r.ws # r.read /\ r.fresh /\ ~r.pause /\ r' = Idle
                 /\ workspaces' = Put(workspaces, r.ws)
                 /\ due' = Earlier(due, IF r.requeue = Never THEN Never ELSE time + r.requeue)
                 /\ UNCHANGED <<queued, spent>>
              \/ /\ r.ws # r.read /\ r.fresh /\ r.pause
                 /\ workspaces' = Put(workspaces, r.ws)
                 /\ r' = [r EXCEPT !.step = "patch", !.wrote = TRUE]
                 /\ UNCHANGED <<queued, due, spent>>
              \/ /\ r' = Idle /\ queued' = TRUE /\ UNCHANGED <<workspaces, due>>
                 /\ \/ r.ws # r.read /\ ~r.fresh /\ UNCHANGED spent
                    \/ Fault
  <1> DEFINE next == IF r.pause
                     THEN /\ r' = [r EXCEPT !.step = "patch", !.wrote = (r.ws # r.read)]
                          /\ UNCHANGED <<queued, due>>
                     ELSE Return(r.requeue)
  <1>1. r.step = "status" /\ UNCHANGED <<prompt, time, sts, pod, lastUse, reported>>
    BY DEF UpdateStatus
  <1>2. r.pause => r.ws # r.read
    BY <1>1 DEF PauseInv, Deciding
  <1>3. \/ r.ws = r.read /\ next /\ UNCHANGED <<workspaces, spent>>
        \/ r.ws # r.read /\ r.fresh /\ workspaces' = Put(workspaces, r.ws) /\ next /\ UNCHANGED spent
        \/ r.ws # r.read /\ ~r.fresh /\ ReturnAgain /\ UNCHANGED <<workspaces, spent>>
        \/ r.ws # r.read /\ Fault /\ ReturnAgain /\ UNCHANGED workspaces
    BY DEF UpdateStatus
  <1>4. ~r.pause /\ next => /\ r' = Idle /\ UNCHANGED queued
                            /\ due' = Earlier(due, IF r.requeue = Never THEN Never ELSE time + r.requeue)
    BY DEF Return
  <1>5. r.pause /\ next => /\ r' = [r EXCEPT !.step = "patch", !.wrote = (r.ws # r.read)]
                           /\ UNCHANGED <<queued, due>>
    OBVIOUS
  <1>6. r.ws # r.read => (r.ws # r.read) = TRUE
    OBVIOUS
  <1>7. ReturnAgain => r' = Idle /\ queued' = TRUE /\ UNCHANGED due
    BY DEF ReturnAgain
  <1> HIDE DEF next
  <1>8. CASE r.ws = r.read /\ next /\ UNCHANGED <<workspaces, spent>>
    BY <1>1, <1>2, <1>4, <1>8
  <1>9. CASE r.ws # r.read /\ r.fresh /\ workspaces' = Put(workspaces, r.ws) /\ next /\ UNCHANGED spent
    <2>1. CASE r.pause
      <3>1. r' = [r EXCEPT !.step = "patch", !.wrote = TRUE]
        BY <1>5, <1>6, <1>9, <2>1
      <3> QED
        BY <1>1, <1>5, <1>9, <2>1, <3>1
    <2>2. CASE ~r.pause
      BY <1>1, <1>4, <1>9, <2>2
    <2> QED
      BY <2>1, <2>2
  <1>10. CASE r.ws # r.read /\ ~r.fresh /\ ReturnAgain /\ UNCHANGED <<workspaces, spent>>
    BY <1>1, <1>7, <1>10
  <1>11. CASE r.ws # r.read /\ Fault /\ ReturnAgain /\ UNCHANGED workspaces
    BY <1>1, <1>7, <1>11
  <1> QED
    BY <1>3, <1>8, <1>9, <1>10, <1>11

Paused(w) == [w EXCEPT !.paused = TRUE, !.generation = @ + 1]

LEMMA PatchFacts ==
    ASSUME PauseInv, PatchPaused
    PROVE  /\ r.step = "patch" /\ r' = Idle /\ UNCHANGED <<prompt, time, sts, pod, lastUse, reported>>
           /\ \/ /\ r.fresh /\ workspaces' = Put(workspaces, Paused(Ws))
                 /\ due' = Earlier(due, Never) /\ UNCHANGED <<queued, spent>>
              \/ /\ queued' = TRUE /\ UNCHANGED <<workspaces, due>>
                 /\ \/ ~r.fresh /\ UNCHANGED spent
                    \/ Fault
  <1>1. r.step = "patch" /\ UNCHANGED <<prompt, time, sts, pod, lastUse, reported>>
    BY DEF PatchPaused
  <1>2. r.wrote
    BY <1>1 DEF PauseInv, Deciding
  <1>3. PatchAccepted <=> r.fresh
    BY <1>2 DEF PatchAccepted
  <1>4. \/ /\ PatchAccepted /\ workspaces' = Put(workspaces, Paused(Ws))
           /\ Return(Never) /\ UNCHANGED spent
        \/ ~PatchAccepted /\ ReturnAgain /\ UNCHANGED <<workspaces, spent>>
        \/ Fault /\ ReturnAgain /\ UNCHANGED workspaces
    BY DEF PatchPaused, Paused
  <1>5. Return(Never) => r' = Idle /\ due' = Earlier(due, Never) /\ UNCHANGED queued
    BY DEF Return
  <1>6. ReturnAgain => r' = Idle /\ queued' = TRUE /\ UNCHANGED due
    BY DEF ReturnAgain
  <1> QED
    BY <1>1, <1>3, <1>4, <1>5, <1>6

-----------------------------------------------------------------------------
(***************************************************************************)
(* The small parts of a step.                                              *)
(***************************************************************************)
SpentType == [edits : 0 .. MaxEdits, disturbs : 0 .. MaxDisturb, faults : 0 .. MaxFaults]

LEMMA FaultFacts ==
    ASSUME TypeOK, Fault
    PROVE  spent' \in SpentType /\ Mishaps' = Mishaps + 1
  BY BoundsAssumption DEF TypeOK, Fault, SpentType, Mishaps

LEMMA DisturbFacts ==
    ASSUME TypeOK, Disturb
    PROVE  spent' \in SpentType /\ Mishaps' = Mishaps + 1
  BY BoundsAssumption DEF TypeOK, Disturb, SpentType, Mishaps

LEMMA EditSpentFacts ==
    ASSUME TypeOK, spent.edits < MaxEdits, spent' = [spent EXCEPT !.edits = @ + 1]
    PROVE  spent' \in SpentType /\ Mishaps' = Mishaps + 1
  BY BoundsAssumption DEF TypeOK, SpentType, Mishaps

LEMMA SpentFacts ==
    ASSUME TypeOK
    PROVE  spent \in SpentType /\ Mishaps \in Nat
  BY PauseTypes DEF TypeOK, SpentType, Mishaps

LEMMA EarlierFacts ==
    ASSUME NEW a \in Nat \cup {Never}, NEW b \in Nat \cup {Never}
    PROVE  /\ Earlier(a, b) \in Nat \cup {Never}
           /\ b # Never => Earlier(a, b) # Never /\ Earlier(a, b) <= b
  BY BoundsAssumption DEF Earlier

LEMMA PausedFacts ==
    ASSUME NEW w \in Workspace
    PROVE  /\ Paused(w) \in Workspace /\ Paused(w).paused
           /\ Paused(w).lastRunningTime = w.lastRunningTime /\ Paused(w).lastProbe = w.lastProbe
           /\ Paused(w).lastActivity = w.lastActivity
  <1> DEFINE g == w.generation + 1
  <1>1. g \in Nat /\ TRUE \in BOOLEAN
    BY WorkspaceFields
  <1>2. Paused(w) = [w EXCEPT !.paused = TRUE, !.generation = g]
    BY DEF Paused, Workspace
  <1> HIDE DEF g
  <1>3. Paused(w) \in Workspace
    BY <1>1, <1>2 DEF Workspace
  <1> QED
    BY <1>2, <1>3 DEF Workspace

\* What is timely stays so.
LEMMA TimelyLater ==
    ASSUME TypeOK, time' \in Nat, lastUse' \in Nat, time <= time', lastUse <= lastUse',
           NEW w \in Workspace, Timely(w)
    PROVE  Timely(w)'
  <1>1. /\ w.lastRunningTime \in Nat /\ w.lastProbe \in Nat /\ w.lastActivity \in Nat
        /\ time \in Nat /\ lastUse \in Nat
    BY WorkspaceFields, PauseTypes
  <1> QED
    BY <1>1 DEF Timely, Latest

LEMMA VersionsTimely ==
    ASSUME PauseInv, time' \in Nat, lastUse' \in Nat, time <= time', lastUse <= lastUse',
           \/ workspaces' = workspaces
           \/ \E v \in Workspace : Timely(v)' /\ workspaces' = Put(workspaces, v)
           \/ Behind(workspaces) /\ workspaces' = Tail(workspaces)
           \/ workspaces' = Relisted(workspaces)
    PROVE  /\ workspaces' \in Versions(Workspace)
           /\ \A i \in 1 .. Len(workspaces') : workspaces'[i] \in {w \in Workspace : Timely(w)'}
  <1> DEFINE T == {w \in Workspace : Timely(w)'}
  <1>1. TypeOK /\ workspaces \in Versions(Workspace)
        /\ \A i \in 1 .. Len(workspaces) : workspaces[i] \in Workspace /\ Timely(workspaces[i])
    BY PauseTypes DEF PauseInv, Timestamps
  <1>2. \A w \in Workspace : Timely(w) => w \in T
    BY <1>1, TimelyLater
  <1>3. \A i \in 1 .. Len(workspaces) : workspaces[i] \in T
    BY <1>1, <1>2
  <1> HIDE DEF T
  <1>4. CASE workspaces' = workspaces
    BY <1>1, <1>3, <1>4 DEF T
  <1>5. ASSUME NEW v \in Workspace, Timely(v)', workspaces' = Put(workspaces, v)
        PROVE  /\ workspaces' \in Versions(Workspace)
               /\ \A i \in 1 .. Len(workspaces') : workspaces'[i] \in T
    <2>1. v \in T
      BY <1>5 DEF T
    <2>2. Put(workspaces, v) \in Versions(Workspace)
      BY <1>1, PutFacts
    <2>3. \A i \in 1 .. Len(Put(workspaces, v)) : Put(workspaces, v)[i] \in T
      BY <1>1, <1>3, <2>1, VersionsKept
    <2> QED
      BY <1>5, <2>2, <2>3
  <1>6. CASE Behind(workspaces) /\ workspaces' = Tail(workspaces)
    <2>1. Tail(workspaces) \in Versions(Workspace)
      BY <1>1, <1>6, TailFacts
    <2>2. \A i \in 1 .. Len(Tail(workspaces)) : Tail(workspaces)[i] \in T
      BY <1>1, <1>3, <1>6, VersionsKept
    <2> QED
      BY <1>6, <2>1, <2>2 DEF T
  <1>7. CASE workspaces' = Relisted(workspaces)
    <2>1. Relisted(workspaces) \in Versions(Workspace)
      BY <1>1, RelistedFacts
    <2>2. \A i \in 1 .. Len(Relisted(workspaces)) : Relisted(workspaces)[i] \in T
      BY <1>1, <1>3, VersionsKept
    <2> QED
      BY <1>7, <2>1, <2>2 DEF T
  <1> QED
    BY <1>4, <1>5, <1>6, <1>7 DEF T

-----------------------------------------------------------------------------
(***************************************************************************)
(* PauseInv is inductive.                                                  *)
(***************************************************************************)
PauseInvStep ==
    /\ prompt' = prompt /\ time' \in Times /\ time <= time' /\ lastUse <= lastUse'
    /\ sts' \in [replicas : {0, 1}, observed : BOOLEAN]
    /\ pod' \in [ready : BOOLEAN, since : 0 .. time']
    /\ queued' \in BOOLEAN /\ due' \in Nat \cup {Never} /\ r' \in ReconcileType(time')
    /\ lastUse' \in 0 .. time' /\ reported' \in 0 .. time' /\ spent' \in SpentType
    /\ \/ workspaces' = workspaces
       \/ \E v \in Workspace : Timely(v)' /\ workspaces' = Put(workspaces, v)
       \/ Behind(workspaces) /\ workspaces' = Tail(workspaces)
       \/ workspaces' = Relisted(workspaces)
    /\ Timely(r.ws)'

LEMMA PauseInvNext ==
    ASSUME PauseInv, PauseInvStep, Reading', Deciding'
    PROVE  PauseInv'
  <1>1. time' \in Nat /\ lastUse' \in Nat /\ time \in Nat
    BY PauseTypes, BoundsAssumption DEF PauseInv, PauseInvStep, Times
  <1>2. /\ workspaces' \in Versions(Workspace)
        /\ \A i \in 1 .. Len(workspaces') : workspaces'[i] \in {w \in Workspace : Timely(w)'}
    BY <1>1, VersionsTimely DEF PauseInvStep
  <1>3. TypeOK'
    <2>1. prompt \in BOOLEAN
      BY PauseTypes DEF PauseInv
    <2> QED
      BY <1>2, <2>1 DEF PauseInvStep, TypeOK, ReconcileType, Steps, SpentType
  <1>4. Timestamps'
    <2>1. time >= 1 /\ time <= time'
      BY DEF PauseInv, Timestamps, PauseInvStep
    <2>2. time' >= 1
      BY <1>1, <2>1
    <2>3. (\A i \in 1 .. Len(workspaces) : Timely(workspaces[i]))'
      BY <1>2 DEF Timely
    <2> QED
      BY <2>2, <2>3 DEF Timestamps, PauseInvStep
  <1> QED
    BY <1>3, <1>4 DEF PauseInv

\* What a step that leaves nearly everything alone needs.
LEMMA PauseParts ==
    ASSUME PauseInv
    PROVE  /\ time \in Times /\ time <= time /\ lastUse <= lastUse /\ time \in Nat
           /\ sts \in [replicas : {0, 1}, observed : BOOLEAN]
           /\ pod \in [ready : BOOLEAN, since : 0 .. time]
           /\ queued \in BOOLEAN /\ due \in Nat \cup {Never} /\ r \in ReconcileType(time)
           /\ lastUse \in 0 .. time /\ reported \in 0 .. time /\ spent \in SpentType
           /\ Timely(r.ws) /\ Timely(Ws) /\ Timely(Cached(workspaces)) /\ time >= 1
           /\ Ws \in Workspace /\ Cached(workspaces) \in Workspace
           /\ r.ws \in Workspace /\ r.read \in Workspace /\ workspaces \in Versions(Workspace)
           /\ Timely(NewWorkspace)
  <1>1. TypeOK /\ Timestamps
    BY DEF PauseInv
  <1>2. time \in Nat /\ time <= time /\ lastUse \in Nat /\ lastUse <= lastUse /\ time >= 1
    BY <1>1, PauseTypes DEF Timestamps
  <1>3. Timely(r.ws) /\ Timely(Ws) /\ Timely(Cached(workspaces))
    <2>1. Len(workspaces) \in Nat \ {0}
      BY <1>1, PauseTypes
    <2>2. 1 \in 1 .. Len(workspaces) /\ Len(workspaces) \in 1 .. Len(workspaces)
      BY <2>1
    <2> QED
      BY <1>1, <2>2 DEF Timestamps, Ws, Stored, Cached
  <1>4. Timely(NewWorkspace)
    BY <1>2 DEF NewWorkspace, Timely, Latest
  <1>5. r \in ReconcileType(time)
    BY <1>1, PauseTypes
  <1>6. r.ws \in Workspace /\ r.read \in Workspace
    BY <1>2, <1>5, ReconcileFields
  <1>7. spent \in SpentType
    BY <1>1, SpentFacts
  <1>8. lastUse \in 0 .. time
    BY <1>2, <1>1, PauseTypes
  <1> QED
    BY <1>1, <1>2, <1>3, <1>4, <1>5, <1>6, <1>7, <1>8, PauseTypes DEF TypeOK

\* An idle reconcile holds nothing.
LEMMA IdleHolds ==
    ASSUME PauseInv, r' = Idle
    PROVE  Reading' /\ Deciding'
  <1>1. /\ r'.step = "idle" /\ ~r'.fresh /\ r'.ws = r'.read
    BY PauseParts, IdleType
  <1> QED
    BY <1>1 DEF Reading, Deciding

LEMMA BeginPause ==
    ASSUME PauseInv, Begin
    PROVE  PauseInv'
  <1> DEFINE read == Cached(workspaces)
  <1>1. /\ UNCHANGED <<prompt, time, workspaces, pod, lastUse, reported, spent>> /\ queued' = FALSE
        /\ due' = IF due # Never /\ due <= time THEN Never ELSE due
    BY DEF Begin
  <1>2. due' \in Nat \cup {Never}
    BY <1>1, PauseParts
  <1>3. /\ r'.ws \in Workspace
        /\ \/ r'.ws.lastRunningTime = read.lastRunningTime /\ r'.ws.lastProbe = read.lastProbe
              /\ r'.ws.lastActivity = read.lastActivity
           \/ r'.ws.lastRunningTime = time /\ r'.ws.lastProbe = 0 /\ r'.ws.lastActivity = 0
    <2>1. r' \in ReconcileType(time) /\ time \in Nat
      BY BeginFacts, PauseParts
    <2> QED
      BY <2>1, BeginFacts, ReconcileFields
  <1>4. Timely(r.ws)'
    <2>1. Timely(read) /\ time \in Nat /\ lastUse \in Nat
      BY PauseParts
    <2>2. /\ r'.ws.lastRunningTime <= time /\ r'.ws.lastProbe <= time
          /\ r'.ws.lastActivity <= Latest(lastUse, r'.ws.lastRunningTime)
      <3> HIDE DEF read
      <3> QED
        BY <1>3, <2>1 DEF Timely, Latest
    <2> QED
      BY <1>1, <2>2 DEF Timely
  <1>5. PauseInvStep
    BY <1>1, <1>2, <1>4, BeginFacts, PauseParts DEF PauseInvStep
  <1>6. Reading'
    <2>1. r'.fresh => Ws = read
      BY BeginFacts, PauseParts, CurrentFacts DEF Ws
    <2>2. Ws' = Ws
      BY <1>1 DEF Ws
    <2>3. /\ r'.ws.paused = r'.read.paused /\ r'.ws.generation = r'.read.generation
          /\ r'.read = read /\ r'.step \in {"status", "probe"}
      BY BeginFacts
    <2> HIDE DEF read
    <2> QED
      BY <2>1, <2>2, <2>3 DEF Reading
  <1>7. Deciding'
    <2>1. r'.step \in {"status", "probe"} /\ ~r'.pause /\ r'.read = read /\ r'.now = time
      BY BeginFacts
    <2>2. time \in Nat /\ time >= 1 /\ read.lastRunningTime \in Nat /\ read.lastProbe \in Nat
      BY PauseParts, WorkspaceFields
    <2>3. r'.ws.state = "Running" => r'.ws.lastRunningTime >= 1
      <3> HIDE DEF read
      <3>1. \/ r'.ws.lastRunningTime = time
            \/ r'.ws.state = "Running" => r'.ws.lastRunningTime = read.lastRunningTime /\ read.lastRunningTime # 0
        BY BeginFacts DEF read
      <3> QED
        BY <2>2, <3>1
    <2>4. r'.step = "probe" =>
            /\ r'.ws.state = "Running"
            /\ read.lastProbe = time => read.state # "Running" \/ read.lastRunningTime = 0
      <3>1. r'.step = "probe" =>
              /\ r'.ws.state = "Running"
              /\ r'.ws.lastProbe = 0 \/ time - r'.ws.lastProbe >= 1
        BY BeginFacts
      <3>2. \/ r'.ws.lastProbe = read.lastProbe
            \/ read.state # "Running" \/ read.lastRunningTime = 0
        BY BeginFacts
      <3> HIDE DEF read
      <3> QED
        BY <2>2, <3>1, <3>2
    <2> HIDE DEF read
    <2> QED
      BY <2>1, <2>2, <2>3, <2>4 DEF Deciding
  <1> QED
    BY <1>5, <1>6, <1>7, PauseInvNext

\* The probe of a script that reports the last use, or whether there is one right now.
LEMMA ProbePause ==
    ASSUME PauseInv, NEW ok \in BOOLEAN, NEW activity \in {0, lastUse}, ProbeDone(ok, activity),
           reported' \in 0 .. time, spent' \in SpentType
    PROVE  PauseInv'
  <1>1. UNCHANGED <<prompt, time, workspaces, sts, pod, queued, due, lastUse>>
    BY DEF ProbeDone
  <1>2. time \in Nat /\ lastUse \in 0 .. time /\ activity \in 0 .. time /\ lastUse \in Nat
    BY PauseParts
  <1>3. r \in ReconcileType(time) /\ r' \in ReconcileType(time)
    BY <1>2, ProbeFacts, PauseParts
  <1>4. /\ r.now \in Nat /\ r.now <= time /\ r.ws \in Workspace /\ r.read \in Workspace
        /\ r'.ws \in Workspace
    BY <1>2, <1>3, ReconcileFields
  <1>5. /\ r.ws.lastRunningTime \in Nat /\ r.ws.lastActivity \in Nat /\ Timely(r.ws)
    BY <1>4, WorkspaceFields, PauseParts
  <1>6. /\ r.step = "probe" /\ r'.step = "status"
        /\ r'.read = r.read /\ r'.now = r.now /\ r'.fresh = r.fresh
        /\ r'.ws.paused = r.ws.paused /\ r'.ws.generation = r.ws.generation
        /\ r'.ws.state = r.ws.state /\ r'.ws.lastRunningTime = r.ws.lastRunningTime
        /\ r'.ws.lastProbe = r.now
        /\ r'.ws.lastActivity \in {activity, r.ws.lastRunningTime, r.ws.lastActivity}
    BY <1>2, ProbeFacts
  <1>7. Timely(r.ws)'
    <2>1. /\ r'.ws.lastRunningTime <= time /\ r'.ws.lastProbe <= time
          /\ r'.ws.lastActivity <= Latest(lastUse, r'.ws.lastRunningTime)
      BY <1>2, <1>4, <1>5, <1>6 DEF Timely, Latest
    <2> QED
      BY <1>1, <2>1 DEF Timely
  <1>8. PauseInvStep
    BY <1>1, <1>3, <1>7, PauseParts DEF PauseInvStep
  <1>9. Reading'
    <2>1. Ws' = Ws
      BY <1>1 DEF Ws
    <2> QED
      BY <1>6, <2>1 DEF PauseInv, Reading
  <1>10. Deciding'
    <2>1. /\ r.ws.state = "Running" /\ r.ws.lastRunningTime >= 1
          /\ r.read.lastProbe = r.now => r.read.state # "Running" \/ r.read.lastRunningTime = 0
      BY <1>6 DEF PauseInv, Deciding
    <2>2. r'.ws # r'.read
      BY <1>6, <2>1
    <2> QED
      BY <1>6, <2>1, <2>2 DEF Deciding
  <1> QED
    BY <1>8, <1>9, <1>10, PauseInvNext

\* An idle reconcile, with the rest of the state.
LEMMA IdlePause ==
    ASSUME PauseInv, r' = Idle, UNCHANGED <<prompt, time, sts, pod, lastUse, reported>>,
           queued' \in BOOLEAN, due' \in Nat \cup {Never}, spent' \in SpentType,
           \/ workspaces' = workspaces
           \/ \E v \in Workspace : Timely(v) /\ workspaces' = Put(workspaces, v)
           \/ workspaces' = Relisted(workspaces)
    PROVE  PauseInv'
  <1>1. /\ time \in Nat /\ lastUse \in Nat /\ time <= time /\ lastUse <= lastUse /\ TypeOK
        /\ Timely(NewWorkspace)
    BY PauseParts DEF PauseInv
  <1>2. \A v \in Workspace : Timely(v) => Timely(v)'
    BY <1>1, TimelyLater
  <1>3. r' \in ReconcileType(time') /\ r'.ws = NewWorkspace
    BY <1>1, IdleType
  <1>4. Timely(r.ws)'
    BY <1>1, <1>3 DEF Timely
  <1>5. PauseInvStep
    BY <1>2, <1>3, <1>4, PauseParts DEF PauseInvStep
  <1> QED
    BY <1>5, IdleHolds, PauseInvNext

LEMMA RequeueType ==
    ASSUME PauseInv
    PROVE  /\ (IF r.requeue = Never THEN Never ELSE time + r.requeue) \in Nat \cup {Never}
           /\ Never \in Nat \cup {Never}
  <1>1. r.requeue \in Nat \cup {Never} /\ time \in Nat
    BY PauseParts, ReconcileFields
  <1> QED
    BY <1>1

LEMMA UpdatePause ==
    ASSUME PauseInv, UpdateStatus
    PROVE  PauseInv'
  <1>1. UNCHANGED <<prompt, time, sts, pod, lastUse, reported>> /\ r.step = "status"
    BY UpdateFacts
  <1>2. Earlier(due, IF r.requeue = Never THEN Never ELSE time + r.requeue) \in Nat \cup {Never}
    BY RequeueType, EarlierFacts, PauseParts
  <1>3. CASE r' = Idle
    <2>1. /\ queued' \in BOOLEAN /\ due' \in Nat \cup {Never}
      BY <1>2, UpdateFacts, PauseParts
    <2>2. spent' \in SpentType
      BY UpdateFacts, PauseParts, FaultFacts DEF PauseInv
    <2>3. workspaces' = workspaces \/ workspaces' = Put(workspaces, r.ws)
      BY UpdateFacts
    <2>4. r.ws \in Workspace /\ Timely(r.ws)
      BY PauseParts
    <2> QED
      BY <1>1, <1>3, <2>1, <2>2, <2>3, <2>4, IdlePause
  <1>4. CASE /\ r.ws # r.read /\ r.fresh /\ r.pause
             /\ workspaces' = Put(workspaces, r.ws)
             /\ r' = [r EXCEPT !.step = "patch", !.wrote = TRUE]
             /\ UNCHANGED <<queued, due, spent>>
    <2>1. /\ time \in Nat /\ lastUse \in Nat /\ time <= time /\ lastUse <= lastUse /\ TypeOK
          /\ r.ws \in Workspace /\ Timely(r.ws) /\ r \in ReconcileType(time)
          /\ workspaces \in Versions(Workspace)
      BY PauseParts DEF PauseInv
    <2>2. Timely(r.ws)
      BY <2>1
    <2>3. PICK v \in Workspace : v = r.ws
      BY <2>1
    <2>4. Timely(v)'
      BY <1>1, <2>1, <2>3, TimelyLater
    <2>5. "patch" \in Steps /\ TRUE \in BOOLEAN
      BY DEF Steps
    <2>6. /\ r' \in ReconcileType(time) /\ r'.ws = r.ws /\ r'.read = r.read /\ r'.fresh = r.fresh
          /\ r'.step = "patch" /\ r'.pause = r.pause /\ r'.now = r.now /\ r'.wrote = TRUE
      BY <1>4, <2>1, <2>5 DEF ReconcileType
    <2>7. Timely(r.ws)'
      BY <2>3, <2>4, <2>6 DEF Timely
    <2>8. workspaces' = Put(workspaces, v)
      BY <1>4, <2>3
    <2>9. PauseInvStep
      BY <1>1, <1>4, <2>4, <2>6, <2>7, <2>8, PauseParts DEF PauseInvStep
    <2>10. Ws' = r.ws
      BY <2>1, <2>3, <2>8, PutFacts DEF Ws
    <2>11. Reading'
      BY <2>6, <2>10 DEF PauseInv, Reading
    <2>12. Deciding'
      BY <1>4, <2>6 DEF Deciding
    <2> QED
      BY <2>9, <2>11, <2>12, PauseInvNext
  <1> QED
    BY <1>3, <1>4, UpdateFacts

LEMMA PatchPause ==
    ASSUME PauseInv, PatchPaused
    PROVE  PauseInv'
  <1>1. UNCHANGED <<prompt, time, sts, pod, lastUse, reported>> /\ r' = Idle
    BY PatchFacts
  <1>2. Earlier(due, Never) \in Nat \cup {Never}
    BY RequeueType, EarlierFacts, PauseParts
  <1>3. queued' \in BOOLEAN /\ due' \in Nat \cup {Never}
    BY <1>2, PatchFacts, PauseParts
  <1>4. spent' \in SpentType
    BY PatchFacts, PauseParts, FaultFacts DEF PauseInv
  <1>5. workspaces' = workspaces \/ workspaces' = Put(workspaces, Paused(Ws))
    BY PatchFacts
  <1>6. Paused(Ws) \in Workspace /\ Timely(Paused(Ws))
    BY PauseParts, PausedFacts DEF Timely
  <1> QED
    BY <1>1, <1>3, <1>4, <1>5, <1>6, IdlePause

LEMMA CrashPause ==
    ASSUME PauseInv, Crash
    PROVE  PauseInv'
  <1>1. /\ UNCHANGED <<prompt, time, sts, pod, lastUse, reported>> /\ r' = Idle /\ Fault
        /\ queued' = TRUE /\ due' = Never /\ workspaces' = Relisted(workspaces)
    BY DEF Crash
  <1>2. spent' \in SpentType
    BY <1>1, FaultFacts DEF PauseInv
  <1> QED
    BY <1>1, <1>2, IdlePause

\* Steps that leave the reconcile and the stored Workspace alone.
LEMMA AsidePause ==
    ASSUME PauseInv, UNCHANGED <<prompt, r>>, Ws' = Ws,
           time' \in {time, time + 1}, time' \in Times,
           lastUse' \in {lastUse, time}, reported' = reported,
           sts' \in [replicas : {0, 1}, observed : BOOLEAN],
           pod' \in [ready : BOOLEAN, since : 0 .. time],
           queued' \in BOOLEAN, due' = due, spent' \in SpentType,
           \/ workspaces' = workspaces
           \/ Behind(workspaces) /\ workspaces' = Tail(workspaces)
    PROVE  PauseInv'
  <1>1. /\ time \in Nat /\ lastUse \in 0 .. time /\ TypeOK
        /\ r.ws \in Workspace /\ Timely(r.ws) /\ r \in ReconcileType(time)
        /\ reported \in 0 .. time /\ due \in Nat \cup {Never}
    BY PauseParts DEF PauseInv
  <1>2. /\ time' \in Nat /\ time <= time' /\ lastUse' \in 0 .. time' /\ lastUse <= lastUse'
        /\ lastUse' \in Nat /\ reported' \in 0 .. time' /\ 0 .. time \subseteq 0 .. time'
    BY <1>1
  <1>3. r' \in ReconcileType(time')
    BY <1>1, ReconcileLater
  <1>4. pod' \in [ready : BOOLEAN, since : 0 .. time']
    BY <1>2
  <1>5. PICK v \in Workspace : v = r.ws
    BY <1>1
  <1>6. Timely(v)'
    BY <1>1, <1>2, <1>5, TimelyLater
  <1>7. Timely(r.ws)'
    BY <1>5, <1>6 DEF Timely
  <1>8. PauseInvStep
    BY <1>1, <1>2, <1>3, <1>4, <1>7 DEF PauseInvStep
  <1>9. Reading' /\ Deciding'
    BY DEF PauseInv, Reading, Deciding
  <1> QED
    BY <1>8, <1>9, PauseInvNext

LEMMA EditPause ==
    ASSUME PauseInv, NEW new \in Workspace, Timely(new), Edit(new)
    PROVE  PauseInv'
  <1>1. /\ UNCHANGED <<prompt, time, sts, pod, queued, due, lastUse, reported>>
        /\ workspaces' = Put(workspaces, new) /\ r' = [r EXCEPT !.fresh = FALSE]
        /\ spent.edits < MaxEdits /\ spent' = [spent EXCEPT !.edits = @ + 1]
    BY DEF Edit
  <1>2. /\ time \in Nat /\ lastUse \in Nat /\ time <= time /\ lastUse <= lastUse /\ TypeOK
        /\ r.ws \in Workspace /\ Timely(r.ws) /\ r \in ReconcileType(time)
    BY PauseParts DEF PauseInv
  <1>3. spent' \in SpentType
    BY <1>1, <1>2, EditSpentFacts
  <1>4. FALSE \in BOOLEAN
    OBVIOUS
  <1>5. /\ r' \in ReconcileType(time) /\ r'.ws = r.ws /\ r'.read = r.read /\ r'.fresh = FALSE
        /\ r'.step = r.step /\ r'.pause = r.pause /\ r'.now = r.now /\ r'.wrote = r.wrote
    BY <1>1, <1>2, <1>4 DEF ReconcileType
  <1>6. Timely(new)'
    BY <1>1, <1>2, TimelyLater
  <1>7. Timely(r.ws)'
    BY <1>1, <1>2, <1>5 DEF Timely
  <1>8. PauseInvStep
    BY <1>1, <1>3, <1>5, <1>6, <1>7, PauseParts DEF PauseInvStep
  <1>9. Reading' /\ Deciding'
    BY <1>5 DEF PauseInv, Reading, Deciding
  <1> QED
    BY <1>8, <1>9, PauseInvNext

\* An edit keeps the status.
LEMMA EditedFacts ==
    ASSUME NEW w \in Workspace
    PROVE  LET new == [w EXCEPT !.paused = ~@, !.generation = @ + 1]
           IN  new \in Workspace /\ (Timely(w) => Timely(new))
  <1> DEFINE p == ~w.paused
             g == w.generation + 1
             new == [w EXCEPT !.paused = p, !.generation = g]
  <1>1. p \in BOOLEAN /\ g \in Nat
    BY WorkspaceFields
  <1>2. new = [w EXCEPT !.paused = ~@, !.generation = @ + 1]
    BY DEF Workspace
  <1> HIDE DEF p, g
  <1>3. new \in Workspace
    BY <1>1 DEF Workspace
  <1>4. /\ new.lastRunningTime = w.lastRunningTime /\ new.lastProbe = w.lastProbe
        /\ new.lastActivity = w.lastActivity
    BY DEF Workspace
  <1> HIDE DEF new
  <1> QED
    BY <1>2, <1>3, <1>4 DEF Timely

LEMMA PauseInit == Init => PauseInv
  <1> SUFFICES ASSUME Init PROVE PauseInv
    OBVIOUS
  <1>1. time = 1 /\ lastUse = 0 /\ reported = 0 /\ queued = TRUE /\ due = Never
    BY DEF Init
  <1>2. workspaces = <<NewWorkspace>> /\ workspaces \in Versions(Workspace)
        /\ Len(workspaces) = 1 /\ workspaces[1] = NewWorkspace
    BY NewWorkspaceType DEF Init, Versions
  <1>3. r = Idle /\ r \in ReconcileType(time) /\ r.step = "idle" /\ ~r.fresh /\ r.ws = NewWorkspace
        /\ r.read = NewWorkspace
    BY <1>1, IdleType DEF Init
  <1>4. Timely(NewWorkspace)
    BY <1>1 DEF Timely, NewWorkspace, Latest
  <1>5. spent \in SpentType
    BY BoundsAssumption DEF Init, SpentType
  <1>6. /\ sts \in [replicas : {0, 1}, observed : BOOLEAN]
        /\ pod \in [ready : BOOLEAN, since : 0 .. time]
        /\ prompt \in BOOLEAN /\ time \in Times
    BY <1>1, BoundsAssumption DEF Init, Times
  <1>7. TypeOK
    BY <1>1, <1>2, <1>3, <1>5, <1>6 DEF TypeOK, ReconcileType, Steps, SpentType
  <1>8. Timestamps
    BY <1>1, <1>2, <1>3, <1>4 DEF Timestamps
  <1>9. Reading /\ Deciding
    BY <1>3 DEF Reading, Deciding
  <1> QED
    BY <1>7, <1>8, <1>9 DEF PauseInv

LEMMA ProbeSucceedsParts ==
    ASSUME PauseInv, NEW field \in Fields, ProbeSucceeds(field)
    PROVE  /\ parsePodExecOutput(field) \in {0, lastUse}
           /\ field = "last_activity" => parsePodExecOutput(field) = lastUse
           /\ ProbeDone(TRUE, parsePodExecOutput(field))
           /\ reported' \in 0 .. time /\ spent' = spent /\ pod.ready
  <1>1. parsePodExecOutput(field) \in {0, lastUse}
        /\ (field = "last_activity" => parsePodExecOutput(field) = lastUse)
    BY DEF parsePodExecOutput
  <1>2. /\ pod.ready /\ ProbeDone(TRUE, parsePodExecOutput(field)) /\ spent' = spent
        /\ reported' = IF parsePodExecOutput(field) > 0 THEN parsePodExecOutput(field) ELSE reported
    BY DEF ProbeSucceeds
  <1>3. reported' \in 0 .. time
    BY <1>1, <1>2, PauseParts
  <1> QED
    BY <1>1, <1>2, <1>3

LEMMA ProbeFailsParts ==
    ASSUME PauseInv, ProbeFails
    PROVE  /\ ProbeDone(FALSE, 0) /\ reported' = reported /\ spent' \in SpentType
           /\ (~pod.ready /\ spent' = spent) \/ Mishaps' = Mishaps + 1
  BY PauseParts, FaultFacts DEF ProbeFails, PauseInv

\* What the steps of the cluster and the user leave alone.
LEMMA AsideParts ==
    ASSUME PauseInv, WatchWorkspace \/ Use \/ Observe \/ PodUp \/ PodDown \/ Tick
    PROVE  /\ UNCHANGED <<prompt, r, due, reported>> /\ Ws' = Ws
           /\ time' \in {time, time + 1} /\ time' \in Times /\ lastUse' \in {lastUse, time}
           /\ sts' \in [replicas : {0, 1}, observed : BOOLEAN]
           /\ pod' \in [ready : BOOLEAN, since : 0 .. time]
           /\ queued' \in BOOLEAN /\ spent' \in SpentType
           /\ \/ workspaces' = workspaces
              \/ Behind(workspaces) /\ workspaces' = Tail(workspaces)
  <1>1. CASE WatchWorkspace
    <2>1. Stored(Tail(workspaces)) = Stored(workspaces)
      BY <1>1, PauseParts, TailFacts DEF WatchWorkspace
    <2> QED
      BY <1>1, <2>1, PauseParts DEF WatchWorkspace, Ws
  <1>2. CASE Use
    BY <1>2, PauseParts DEF Use, Ws
  <1>3. CASE Observe
    <2>1. sts' \in [replicas : {0, 1}, observed : BOOLEAN]
      BY <1>3, PauseParts DEF Observe
    <2> QED
      BY <1>3, <2>1, PauseParts DEF Observe, Ws
  <1>4. CASE PodUp
    <2>1. pod' \in [ready : BOOLEAN, since : 0 .. time]
      BY <1>4, PauseParts DEF PodUp
    <2> QED
      BY <1>4, <2>1, PauseParts DEF PodUp, Ws
  <1>5. CASE PodDown
    <2>1. pod' \in [ready : BOOLEAN, since : 0 .. time]
      BY <1>5, PauseParts DEF PodDown
    <2>2. spent' \in SpentType
      BY <1>5, PauseParts, DisturbFacts DEF PodDown, PauseInv
    <2> QED
      BY <1>5, <2>1, <2>2, PauseParts DEF PodDown, Ws
  <1>6. CASE Tick
    <2>1. time < MaxTime \/ time < MaxSlowTime
      BY <1>6 DEF Tick
    <2>2. time' = time + 1 /\ time' \in Times
      BY <1>6, <2>1, PauseParts, BoundsAssumption DEF Tick, Times
    <2> QED
      BY <1>6, <2>2, PauseParts DEF Tick, Ws
  <1> QED
    BY <1>1, <1>2, <1>3, <1>4, <1>5, <1>6

LEMMA EditParts ==
    ASSUME PauseInv, SetPaused \/ EditMetadata
    PROVE  \E new \in Workspace : Timely(new) /\ Edit(new)
  <1>1. Ws \in Workspace /\ Timely(Ws)
    BY PauseParts
  <1>2. CASE SetPaused
    BY <1>1, <1>2, EditedFacts DEF SetPaused
  <1>3. CASE EditMetadata
    BY <1>1, <1>3 DEF EditMetadata
  <1> QED
    BY <1>2, <1>3

LEMMA PauseNext == PauseInv /\ [Next]_vars => PauseInv'
  <1> SUFFICES ASSUME PauseInv, [Next]_vars PROVE PauseInv'
    OBVIOUS
  <1>1. CASE Begin
    BY <1>1, BeginPause
  <1>2. CASE UpdateStatus
    BY <1>2, UpdatePause
  <1>3. CASE PatchPaused
    BY <1>3, PatchPause
  <1>4. CASE Crash
    BY <1>4, CrashPause
  <1>5. ASSUME NEW field \in Fields, ProbeSucceeds(field)
        PROVE  PauseInv'
    <2>1. spent \in SpentType
      BY PauseParts
    <2>2. PICK ok \in BOOLEAN : ok = TRUE
      OBVIOUS
    <2>3. PICK a \in {0, lastUse} : a = parsePodExecOutput(field)
      BY <1>5, ProbeSucceedsParts
    <2>4. ProbeDone(ok, a) /\ reported' \in 0 .. time /\ spent' \in SpentType
      BY <1>5, <2>1, <2>2, <2>3, ProbeSucceedsParts
    <2> QED
      BY <2>4, ProbePause
  <1>6. CASE ProbeFails
    <2>1. PICK ok \in BOOLEAN : ok = FALSE
      OBVIOUS
    <2>2. PICK a \in {0, lastUse} : a = 0
      OBVIOUS
    <2>3. ProbeDone(ok, a) /\ reported' \in 0 .. time /\ spent' \in SpentType
      BY <1>6, <2>1, <2>2, ProbeFailsParts, PauseParts
    <2> QED
      BY <2>3, ProbePause
  <1>7. CASE SetPaused \/ EditMetadata
    BY <1>7, EditParts, EditPause
  <1>8. CASE WatchWorkspace \/ Use \/ Observe \/ PodUp \/ PodDown \/ Tick
    BY <1>8, AsideParts, AsidePause
  <1>9. CASE UNCHANGED vars
    <2>1. UNCHANGED <<prompt, time, workspaces, sts, pod, queued, due, r, lastUse, reported, spent>>
      BY <1>9 DEF vars
    <2>2. Ws' = Ws
      BY <2>1 DEF Ws
    <2> QED
      BY <2>1, <2>2, PauseParts, AsidePause
  <1> QED
    BY <1>1, <1>2, <1>3, <1>4, <1>5, <1>6, <1>7, <1>8, <1>9 DEF Next

\* What a reconcile holds in its hands is what the code that decides on a pause relies on:
\* the Workspace it read is the stored one as long as `fresh` says so, and a pause is
\* preceded by a status update that was accepted.
THEOREM PauseInvariant == Spec => []PauseInv
  BY PauseInit, PauseNext, PTL DEF Spec

\* The Workspace, its StatefulSet and Pod, the clock and the locals of the activity check
\* stay well-formed in every reachable state.
THEOREM TypeCorrect == Spec => []TypeOK
  <1>1. PauseInv => TypeOK
    BY DEF PauseInv
  <1> QED
    BY <1>1, PauseInvariant, PTL

\* Only the patch changes a Workspace when it ends the reconcile.
LEMMA AutoPausedIsPatch ==
    ASSUME PauseInv, [Next]_vars, AutoPaused
    PROVE  r.pause /\ r.fresh /\ Ws = r.ws
  <1>1. r.step = "patch" /\ r'.step = "idle" /\ Ws' # Ws
    BY DEF AutoPaused
  <1>2. CASE Begin
    BY <1>1, <1>2 DEF Begin
  <1>3. CASE UpdateStatus
    BY <1>1, <1>3 DEF UpdateStatus
  <1>4. CASE PatchPaused
    <2>1. r.fresh
      BY <1>1, <1>4, PatchFacts DEF Ws
    <2> QED
      BY <1>1, <2>1 DEF PauseInv, Reading, Deciding
  <1>5. CASE Crash
    BY <1>1, <1>5, PauseParts, RelistedFacts DEF Crash, Ws
  <1>6. CASE ProbeFails \/ \E field \in Fields : ProbeSucceeds(field)
    BY <1>1, <1>6 DEF ProbeFails, ProbeSucceeds, ProbeDone
  <1>7. CASE SetPaused \/ EditMetadata
    <2>1. PICK new : Edit(new)
      BY <1>7 DEF SetPaused, EditMetadata
    <2>2. r' = [r EXCEPT !.fresh = FALSE]
      BY <2>1 DEF Edit
    <2>3. r'.step = r.step
      BY <2>2, PauseParts DEF ReconcileType
    <2> QED
      BY <1>1, <2>3
  <1>8. CASE WatchWorkspace \/ Use \/ Observe \/ PodUp \/ PodDown \/ Tick
    BY <1>1, <1>8, AsideParts
  <1>9. CASE UNCHANGED vars
    BY <1>1, <1>9 DEF vars, Ws
  <1> QED
    BY <1>2, <1>3, <1>4, <1>5, <1>6, <1>7, <1>8, <1>9 DEF Next

\* The controller sets spec.paused only on the generation that it read: the patch follows a
\* status update of the same reconcile, which the API server accepts for the version that
\* was read and which makes the patch carry the new resourceVersion.
THEOREM PauseKeepsEveryEdit == Spec => PauseKeepsEdits
  <1>1. PauseInv /\ [Next]_vars => [AutoPaused => r.read.generation = Ws.generation]_vars
    BY AutoPausedIsPatch DEF PauseInv, Reading
  <1> QED
    BY <1>1, PauseInvariant, PTL DEF Spec, PauseKeepsEdits

-----------------------------------------------------------------------------
(***************************************************************************)
(* A probe that reports the last use confirms the pause.                   *)
(***************************************************************************)
LEMMA ConfirmNext ==
    ASSUME Fields \subseteq {"last_activity"}, PauseInv, Confirming, [Next]_vars
    PROVE  Confirming'
  <1>1. /\ time \in Nat /\ lastUse \in Nat /\ lastUse <= time /\ lastUse \in 0 .. time
        /\ r.used \in Nat /\ r.now \in Nat
    BY PauseParts, ReconcileFields
  <1>2. ASSUME r' = Idle, lastUse' = lastUse
        PROVE  Confirming'
    <2>1. r'.used = 0 /\ ~r'.pause
      BY <1>1, <1>2, IdleType
    <2> QED
      BY <1>1, <1>2, <2>1 DEF Confirming
  <1>3. CASE Begin
    <2>1. r'.used = lastUse /\ ~r'.pause /\ lastUse' = lastUse
      BY <1>3, BeginFacts DEF Begin
    <2> QED
      BY <1>1, <2>1 DEF Confirming
  <1>4. CASE UpdateStatus
    <2>1. CASE r' = Idle
      BY <1>2, <1>4, <2>1, UpdateFacts
    <2>2. CASE r' = [r EXCEPT !.step = "patch", !.wrote = TRUE]
      <3>1. r'.used = r.used /\ r'.pause = r.pause /\ r'.now = r.now
        BY <2>2, PauseParts DEF ReconcileType
      <3>2. lastUse' = lastUse
        BY <1>4, UpdateFacts
      <3> QED
        BY <3>1, <3>2 DEF Confirming
    <2> QED
      BY <1>4, <2>1, <2>2, UpdateFacts
  <1>5. CASE PatchPaused
    BY <1>2, <1>5, PatchFacts
  <1>6. CASE Crash
    BY <1>2, <1>6 DEF Crash
  <1>7. ASSUME NEW field \in Fields, ProbeSucceeds(field)
        PROVE  Confirming'
    <2>1. PICK ok \in BOOLEAN : ok = TRUE
      OBVIOUS
    <2>2. PICK a \in 0 .. time : a = lastUse
      BY <1>1
    <2>3. parsePodExecOutput(field) = a
      BY <1>7, <2>2, ProbeSucceedsParts
    <2>4. ProbeDone(ok, a) /\ lastUse' = lastUse
      BY <1>7, <2>1, <2>3, ProbeSucceedsParts DEF ProbeDone
    <2>5. /\ r'.used = r.used /\ r'.now = r.now
          /\ ok => r'.ws.lastActivity = IF a > 0 THEN a
                                        ELSE IF r.ws.lastActivity = 0 THEN r.ws.lastRunningTime
                                        ELSE r.ws.lastActivity
          /\ r'.pause => r.now >= r'.ws.lastActivity + SecondsSinceActive
      BY <2>4, ProbeFacts
    <2>6. r'.pause => r.used = 0 \/ r.now - r.used >= SecondsSinceActive
      <3> SUFFICES ASSUME r'.pause, r.used # 0 PROVE r.now - r.used >= SecondsSinceActive
        OBVIOUS
      <3>1. r.used <= lastUse
        BY DEF Confirming
      <3>2. r'.ws.lastActivity = a
        BY <1>1, <2>1, <2>2, <2>5, <3>1
      <3> QED
        BY <1>1, <2>2, <2>5, <3>1, <3>2, IntervalsAssumption
    <2> QED
      BY <2>4, <2>5, <2>6 DEF Confirming
  <1>8. CASE ProbeFails
    <2>1. PICK ok \in BOOLEAN : ok = FALSE
      OBVIOUS
    <2>2. PICK a \in 0 .. time : a = 0
      BY <1>1
    <2>3. ProbeDone(ok, a) /\ lastUse' = lastUse
      BY <1>8, <2>1, <2>2, ProbeFailsParts DEF ProbeDone
    <2>4. r'.used = r.used /\ ~r'.pause
      BY <2>1, <2>3, ProbeFacts
    <2> QED
      BY <2>3, <2>4 DEF Confirming
  <1>9. CASE SetPaused \/ EditMetadata
    <2>1. PICK new : Edit(new)
      BY <1>9 DEF SetPaused, EditMetadata
    <2>2. r' = [r EXCEPT !.fresh = FALSE] /\ lastUse' = lastUse
      BY <2>1 DEF Edit
    <2>3. r'.used = r.used /\ r'.pause = r.pause /\ r'.now = r.now
      BY <2>2, PauseParts DEF ReconcileType
    <2> QED
      BY <2>2, <2>3 DEF Confirming
  <1>10. CASE WatchWorkspace \/ Use \/ Observe \/ PodUp \/ PodDown \/ Tick
    <2>1. r' = r /\ lastUse' \in {lastUse, time}
      BY <1>10, AsideParts
    <2> QED
      BY <1>1, <2>1 DEF Confirming
  <1>11. CASE UNCHANGED vars
    BY <1>11 DEF vars, Confirming
  <1> QED
    BY <1>3, <1>4, <1>5, <1>6, <1>7, <1>8, <1>9, <1>10, <1>11 DEF Next

\* With a script that reports the time of the last activity, the controller never pauses a
\* Workspace that was in use within secondsSinceActive of the moment it started to look:
\* reconcileActivity pauses on what the probe of this reconcile has found, never on what is
\* recorded in status.activity.
THEOREM PauseIsConfirmed ==
    ASSUME Fields \subseteq {"last_activity"}
    PROVE  Spec => PauseConfirmedIdle
  <1>1. Init => Confirming
    <2> SUFFICES ASSUME Init PROVE Confirming
      OBVIOUS
    <2>1. r.used = 0 /\ ~r.pause /\ lastUse = 0
      BY DEF Init, Idle
    <2> QED
      BY <2>1 DEF Confirming
  <1>2. PauseInv /\ Confirming /\ [Next]_vars => Confirming'
    BY ConfirmNext
  <1>3. PauseInv /\ Confirming /\ [Next]_vars =>
          [AutoPaused => r.used = 0 \/ r.now - r.used >= SecondsSinceActive]_vars
    BY AutoPausedIsPatch DEF Confirming
  <1> QED
    BY <1>1, <1>2, <1>3, PauseInvariant, PTL DEF Spec, PauseConfirmedIdle

-----------------------------------------------------------------------------
(***************************************************************************)
(* The time that may pass.                                                 *)
(***************************************************************************)
LEMMA Numbers ==
    ASSUME PauseInv
    PROVE  /\ Grace \in Nat /\ IdlePeriod \in Nat /\ Slack \in Nat /\ Respite = IdlePeriod + Slack
           /\ Slack = ProbeInterval + 2 * ProbeTimeout /\ ProbeInterval \in Nat /\ ProbeTimeout \in Nat
           /\ IdlePeriod >= SecondsSinceActive /\ IdlePeriod >= MinRunningSeconds
           /\ SecondsSinceActive \in Nat /\ MinRunningSeconds \in Nat
           /\ lastUse + SecondsSinceActive <= Grace /\ pod.since + IdlePeriod <= Grace
           /\ time \in Nat /\ time >= 1 /\ r.now \in Nat /\ r.now <= time /\ lastUse \in Nat
           /\ pod.since \in Nat /\ Mishaps \in Nat /\ Grace = Eligible + Mishaps * Respite
           /\ Eligible \in Nat /\ Respite \in Nat
           /\ Eligible = Latest(lastUse + SecondsSinceActive, pod.since + IdlePeriod)
  <1>1. /\ time \in Nat /\ lastUse \in Nat /\ pod.since \in Nat /\ time >= 1
        /\ r.now \in Nat /\ r.now <= time
    BY PauseParts, PauseTypes, ReconcileFields DEF PauseInv
  <1>2. Mishaps \in Nat
    BY SpentFacts DEF PauseInv
  <1>3. /\ IdlePeriod \in Nat /\ IdlePeriod >= SecondsSinceActive /\ IdlePeriod >= MinRunningSeconds
        /\ SecondsSinceActive \in Nat /\ MinRunningSeconds \in Nat
        /\ ProbeInterval \in Nat /\ ProbeTimeout \in Nat
    BY IntervalsAssumption DEF IdlePeriod, Latest
  <1>4. /\ Slack \in Nat /\ Slack = ProbeInterval + 2 * ProbeTimeout /\ Respite = IdlePeriod + Slack
        /\ Respite \in Nat
    BY <1>3 DEF Slack, Respite, IdlePeriod
  <1>5. Eligible = Latest(lastUse + SecondsSinceActive, pod.since + IdlePeriod)
    BY DEF Eligible, IdlePeriod
  <1>6. Eligible \in Nat /\ lastUse + SecondsSinceActive <= Eligible /\ pod.since + IdlePeriod <= Eligible
    BY <1>1, <1>3, <1>5 DEF Latest
  <1>7. Mishaps * Respite \in Nat
    BY <1>2, <1>4
  <1>8. Grace = Eligible + Mishaps * Respite
    BY DEF Grace
  <1> DEFINE m == Mishaps * Respite
  <1>9. m \in Nat /\ Grace = Eligible + m
    BY <1>7, <1>8
  <1> HIDE DEF m
  <1>10. Grace \in Nat /\ Eligible <= Grace
    BY <1>6, <1>9
  <1>11. lastUse + SecondsSinceActive <= Grace /\ pod.since + IdlePeriod <= Grace
    BY <1>1, <1>3, <1>6, <1>10
  <1> QED
    BY <1>1, <1>2, <1>3, <1>4, <1>5, <1>6, <1>8, <1>10, <1>11

\* Without a mishap, use and a new Pod can only postpone the pause.
LEMMA GraceKept ==
    ASSUME PauseInv, PauseInv', lastUse <= lastUse', pod.since <= pod'.since
    PROVE  /\ Mishaps' = Mishaps => Grace <= Grace'
           /\ Mishaps' = Mishaps + 1 => Grace + Respite <= Grace'
  <1>1. /\ Grace = Eligible + Mishaps * Respite /\ Eligible \in Nat /\ Mishaps \in Nat
        /\ Respite \in Nat /\ IdlePeriod \in Nat /\ SecondsSinceActive \in Nat
        /\ lastUse \in Nat /\ pod.since \in Nat
        /\ Eligible = Latest(lastUse + SecondsSinceActive, pod.since + IdlePeriod)
    BY Numbers
  <1>2. /\ Grace' = Eligible' + Mishaps' * Respite /\ Eligible' \in Nat /\ Mishaps' \in Nat
        /\ lastUse' \in Nat /\ pod'.since \in Nat
        /\ Eligible' = Latest(lastUse' + SecondsSinceActive, pod'.since + IdlePeriod)
    <2>1. (PauseInv => /\ Grace = Eligible + Mishaps * Respite /\ Eligible \in Nat /\ Mishaps \in Nat
                       /\ lastUse \in Nat /\ pod.since \in Nat
                       /\ Eligible = Latest(lastUse + SecondsSinceActive, pod.since + IdlePeriod))'
      BY Numbers, PTL
    <2> QED
      BY <2>1 DEF Respite, IdlePeriod, Slack, Latest
  <1>3. Eligible <= Eligible'
    BY <1>1, <1>2 DEF Latest
  <1>4. (Mishaps + 1) * Respite = Mishaps * Respite + Respite /\ Mishaps * Respite \in Nat
    BY <1>1
  <1> DEFINE m == Mishaps * Respite
  <1>5. m \in Nat /\ Grace = Eligible + m
    BY <1>1, <1>4
  <1>6. Mishaps' = Mishaps => Grace' = Eligible' + m
    BY <1>2
  <1>7. Mishaps' = Mishaps + 1 => Grace' = Eligible' + (m + Respite)
    BY <1>2, <1>4
  <1> HIDE DEF m
  <1> QED
    BY <1>1, <1>2, <1>3, <1>5, <1>6, <1>7

\* How late it can be.
LEMMA NotLate ==
    ASSUME InTimeInv, prompt, pod.ready
    PROVE  time <= Grace + Slack
  <1>1. PauseInv /\ Following /\ KeepingUp
    BY DEF InTimeInv
  <1>2. /\ Grace \in Nat /\ IdlePeriod \in Nat /\ Slack = ProbeInterval + 2 * ProbeTimeout
        /\ ProbeInterval \in Nat /\ ProbeTimeout \in Nat /\ time \in Nat /\ r.now \in Nat
    BY <1>1, Numbers
  <1>3. Ws \in Workspace /\ r.ws \in Workspace /\ r.step \in Steps
    BY <1>1, PauseParts, ReconcileFields
  <1>4. r.step # "idle" => time <= r.now + ProbeTimeout
    BY <1>1 DEF Following
  <1>5. ASSUME NEW w \in Workspace, Settled(w)
        PROVE  time <= Grace + Slack
    <2>1. /\ w.lastProbe \in Nat /\ w.lastProbe <= Grace
          /\ time <= w.lastProbe + ProbeInterval + ProbeTimeout
      BY <1>5, WorkspaceFields DEF Settled
    <2> QED
      BY <1>2, <2>1
  <1>6. CASE Granted
    BY <1>2, <1>6 DEF Granted
  <1>7. CASE Ws.paused /\ time <= Grace + Slack
    BY <1>7
  <1>8. CASE /\ ~r.fresh => Settled(Ws)
             /\ r.fresh /\ r.step = "probe" => ProbedInTime
             /\ r.fresh /\ r.step = "status" => ProbedInTime \/ Settled(r.ws)
             /\ r.fresh /\ r.step = "patch" => ProbedInTime
    <2>1. r.fresh => r.step # "idle"
      BY <1>1 DEF PauseInv, Reading
    <2>2. Settled(Ws) \/ Settled(r.ws) \/ (ProbedInTime /\ r.step # "idle")
      BY <1>3, <1>8, <2>1 DEF Steps
    <2>3. CASE ProbedInTime /\ r.step # "idle"
      BY <1>2, <1>4, <2>3 DEF ProbedInTime
    <2> QED
      BY <1>3, <1>5, <2>2, <2>3
  <1>9. Calm \/ Granted
    BY <1>1 DEF KeepingUp
  <1> QED
    BY <1>6, <1>7, <1>8, <1>9 DEF Calm

\* A mishap grants one further idle period.
LEMMA MishapGrants ==
    ASSUME InTimeInv, PauseInv', prompt, pod.ready, Mishaps' = Mishaps + 1,
           UNCHANGED <<time, lastUse, pod>>
    PROVE  Granted'
  <1>1. PauseInv
    BY DEF InTimeInv
  <1>2. /\ Grace \in Nat /\ Respite = IdlePeriod + Slack /\ IdlePeriod \in Nat /\ Slack \in Nat
        /\ time \in Nat /\ lastUse <= lastUse /\ pod.since <= pod.since
    BY <1>1, Numbers
  <1>3. Grace + Respite <= Grace'
    BY <1>1, <1>2, GraceKept
  <1>4. Grace' \in Nat
    <2>1. (PauseInv => Grace \in Nat)'
      BY Numbers, PTL
    <2> QED
      BY <2>1
  <1>5. time <= Grace + Slack
    BY NotLate
  <1>6. time + IdlePeriod <= Grace'
    BY <1>2, <1>3, <1>4, <1>5
  <1> QED
    BY <1>6 DEF Granted, IdlePeriod

\* What is recorded and settled stays so while time stands still.
LEMMA SettledLater ==
    ASSUME PauseInv, PauseInv', time' = time, lastUse <= lastUse', pod.since <= pod'.since,
           Mishaps' = Mishaps
    PROVE  /\ Grace \in Nat /\ Grace' \in Nat /\ Grace <= Grace'
           /\ Granted => Granted'
           /\ \A w \in Workspace : /\ Recorded(w) => Recorded(w)'
                                   /\ Settled(w) => Settled(w)'
           /\ r'.now = r.now /\ ProbedInTime => ProbedInTime'
           /\ time <= Grace + Slack => time' <= Grace' + Slack
  <1>1. /\ Grace \in Nat /\ IdlePeriod \in Nat /\ Slack \in Nat /\ time \in Nat /\ r.now \in Nat
        /\ ProbeInterval \in Nat /\ ProbeTimeout \in Nat
    BY Numbers
  <1>2. Grace' \in Nat
    <2>1. (PauseInv => Grace \in Nat)'
      BY Numbers, PTL
    <2> QED
      BY <2>1
  <1>3. Grace <= Grace'
    BY GraceKept
  <1>4. Granted => Granted'
    BY <1>1, <1>2, <1>3 DEF Granted, IdlePeriod
  <1>5. ASSUME NEW w \in Workspace, Recorded(w)
        PROVE  Recorded(w)'
    <2>1. w.lastRunningTime \in Nat
      BY WorkspaceFields
    <2>2. w.lastRunningTime + IdlePeriod <= Grace'
      BY <1>1, <1>2, <1>3, <1>5, <2>1 DEF Recorded
    <2> QED
      BY <1>5, <2>2 DEF Recorded, IdlePeriod
  <1>6. ASSUME NEW w \in Workspace, Settled(w)
        PROVE  Settled(w)'
    <2>1. w.lastProbe \in Nat
      BY WorkspaceFields
    <2>2. w.lastProbe <= Grace'
      BY <1>1, <1>2, <1>3, <1>6, <2>1 DEF Settled
    <2> QED
      BY <1>5, <1>6, <2>2 DEF Settled
  <1>7. ASSUME r'.now = r.now, ProbedInTime
        PROVE  ProbedInTime'
    <2>1. r.now <= Grace + ProbeInterval + ProbeTimeout
      BY <1>7 DEF ProbedInTime
    <2>2. r.now <= Grace' + ProbeInterval + ProbeTimeout
      BY <1>1, <1>2, <1>3, <2>1
    <2> QED
      BY <1>7, <2>2 DEF ProbedInTime
  <1>8. ASSUME time <= Grace + Slack
        PROVE  time' <= Grace' + Slack
    <2>1. \A a, b, c, d \in Nat : a <= b + c /\ b <= d => a <= d + c
      OBVIOUS
    <2> QED
      BY <1>1, <1>2, <1>3, <1>8, <2>1
  <1> QED
    BY <1>1, <1>2, <1>3, <1>4, <1>5, <1>6, <1>7, <1>8

-----------------------------------------------------------------------------
(***************************************************************************)
(* InTimeInv is inductive: one lemma per action.                           *)
(***************************************************************************)
\* A probe always leaves its mark in the status.
LEMMA ProbeMarks ==
    ASSUME PauseInv, NEW ok \in BOOLEAN, NEW activity \in 0 .. time, ProbeDone(ok, activity)
    PROVE  r'.ws # r'.read
  <1>1. /\ r.step = "probe" /\ r'.read = r.read /\ r'.ws.state = r.ws.state
        /\ r'.ws.lastRunningTime = r.ws.lastRunningTime /\ r'.ws.lastProbe = r.now
    BY ProbeFacts
  <1>2. /\ r.ws.state = "Running" /\ r.ws.lastRunningTime >= 1
        /\ r.read.lastProbe = r.now => r.read.state # "Running" \/ r.read.lastRunningTime = 0
    BY <1>1 DEF PauseInv, Deciding
  <1> QED
    BY <1>1, <1>2

LEMMA BeginInTime ==
    ASSUME InTimeInv, Begin
    PROVE  InTimeInv'
  <1> DEFINE read == Cached(workspaces)
  <1>1. PauseInv /\ PauseInv'
    BY BeginPause DEF InTimeInv
  <1>2. /\ UNCHANGED <<prompt, time, workspaces, pod, lastUse, reported, spent>> /\ queued' = FALSE
        /\ r.step = "idle"
    BY DEF Begin
  <1>3. /\ r'.step \in {"status", "probe"} /\ r'.read = read /\ r'.now = time
        /\ r'.fresh = Current(workspaces) /\ ~r'.pause
        /\ sts'.replicas = Replicas(read)
        /\ sts'.observed = (sts.observed /\ sts.replicas = Replicas(read))
        /\ r'.ws.state = "Running" <=> sts'.observed /\ pod.ready
    BY <1>1, BeginFacts
  <1>4. r'.step = "status" /\ r'.ws.state = "Running" =>
          /\ r'.ws.lastProbe >= 1
          /\ r'.requeue \in Nat /\ time + r'.requeue <= r'.ws.lastProbe + ProbeInterval
    BY <1>1, BeginFacts
  <1>5. Ws' = Ws
    BY <1>2 DEF Ws
  <1>6. /\ time \in Nat /\ ProbeTimeout \in Nat /\ ProbeInterval \in Nat /\ Grace \in Nat
        /\ IdlePeriod \in Nat
    BY <1>1, Numbers
  <1>7. Following'
    <2>1. time <= time + ProbeTimeout
      BY <1>6
    <2>2. Never \notin Nat
      BY BoundsAssumption
    <2> HIDE DEF read
    <2> QED
      BY <1>2, <1>3, <1>4, <2>1, <2>2 DEF Following, Replicas
  <1>8. Settling'
    BY <1>3 DEF Settling
  <1>9. KeepingUp'
    <2> SUFFICES ASSUME prompt, pod.ready PROVE Granted' \/ Calm'
      BY <1>2 DEF KeepingUp
    <2>1. Mishaps' = Mishaps
      BY <1>2 DEF Mishaps
    <2>2. lastUse <= lastUse' /\ pod.since <= pod'.since
      BY <1>1, <1>2, Numbers
    <2>3. /\ Granted => Granted'
          /\ \A w \in Workspace : (Recorded(w) => Recorded(w)') /\ (Settled(w) => Settled(w)')
          /\ time <= Grace + Slack => time' <= Grace' + Slack
      BY <1>1, <1>2, <2>1, <2>2, SettledLater
    <2>4. CASE Granted
      BY <2>3, <2>4
    <2>5. CASE Ws.paused /\ time <= Grace + Slack
      BY <1>5, <2>3, <2>5 DEF Calm
    <2>6. CASE /\ sts.replicas = 1 /\ sts.observed
               /\ \A i \in 1 .. Len(workspaces) : ~workspaces[i].paused
               /\ ~r.fresh => Settled(Ws)
      <3>1. Settled(Ws) /\ Ws \in Workspace
        BY <1>1, <1>2, <2>6, PauseParts DEF PauseInv, Reading
      <3>2. ~read.paused
        <4>1. 1 \in 1 .. Len(workspaces)
          BY <1>1, PauseTypes DEF PauseInv
        <4> QED
          BY <2>6, <4>1 DEF Cached
      <3>3. sts'.replicas = 1 /\ sts'.observed
        BY <1>3, <2>6, <3>2 DEF Replicas
      <3>4. r'.ws.state = "Running"
        BY <1>3, <3>3
      <3>5. Settled(Ws)'
        <4>1. PICK w \in Workspace : w = Ws
          BY <3>1
        <4>2. Settled(w)'
          BY <2>3, <3>1, <4>1
        <4> QED
          BY <1>5, <4>1, <4>2 DEF Settled, Recorded
      <3>6. ASSUME r'.fresh
            PROVE  /\ r'.step = "probe" => Recorded(r.ws)' /\ ProbedInTime'
                   /\ r'.step = "status" => Settled(r.ws)'
        <4>1. read = Ws
          BY <1>1, <1>3, <3>6, PauseParts, CurrentFacts DEF Ws
        <4>2. Ws.state = "Running" /\ Ws.lastRunningTime >= 1
          BY <3>1 DEF Settled, Recorded
        <4>3. /\ r'.ws.lastRunningTime = Ws.lastRunningTime /\ r'.ws.lastProbe = Ws.lastProbe
          BY <1>1, <4>1, <4>2, BeginFacts
        <4>4. Settled(r.ws)' /\ Recorded(r.ws)'
          BY <3>4, <3>5, <4>2, <4>3, <1>5 DEF Settled, Recorded
        <4>5. ProbedInTime'
          <5>1. /\ Ws.lastProbe' <= Grace' /\ time' <= Ws.lastProbe' + ProbeInterval + ProbeTimeout
            BY <3>5 DEF Settled
          <5>2. Grace' \in Nat /\ Ws.lastProbe \in Nat
            BY <1>1, <1>2, <2>1, <2>2, <3>1, SettledLater, WorkspaceFields
          <5>3. \A a, b, c, d, g \in Nat : a <= b + c + d /\ b <= g => a <= g + c + d
            OBVIOUS
          <5>4. time <= Grace' + ProbeInterval + ProbeTimeout
            BY <1>2, <1>5, <1>6, <5>1, <5>2, <5>3
          <5> QED
            BY <1>3, <5>4 DEF ProbedInTime
        <4> QED
          BY <4>4, <4>5
      <3>7. \A i \in 1 .. Len(workspaces') : ~workspaces'[i].paused
        BY <1>2, <2>6
      <3> QED
        BY <1>3, <3>3, <3>5, <3>6, <3>7 DEF Calm
    <2> QED
      BY <2>4, <2>5, <2>6 DEF InTimeInv, KeepingUp, Calm
  <1> QED
    BY <1>1, <1>7, <1>8, <1>9 DEF InTimeInv

\* A probe that has succeeded after the Workspace has become eligible leads to a pause.
LEMMA EligibleIsPaused ==
    ASSUME PauseInv, NEW ok \in BOOLEAN, ok, NEW activity \in {0, lastUse},
           ProbeDone(ok, activity), Recorded(r.ws), r.now > Grace
    PROVE  r'.pause
  <1>1. /\ Grace \in Nat /\ IdlePeriod \in Nat /\ IdlePeriod >= SecondsSinceActive
        /\ IdlePeriod >= MinRunningSeconds /\ SecondsSinceActive \in Nat /\ MinRunningSeconds \in Nat
        /\ lastUse + SecondsSinceActive <= Grace /\ lastUse \in Nat /\ r.now \in Nat
    BY Numbers
  <1>2. activity \in 0 .. time
    BY PauseParts
  <1>3. /\ r.ws.lastRunningTime \in Nat /\ r.ws.lastActivity \in Nat
        /\ r.ws.lastActivity <= Latest(lastUse, r.ws.lastRunningTime)
    BY PauseParts, WorkspaceFields DEF Timely
  <1>4. r.ws.lastRunningTime >= 1 /\ r.ws.lastRunningTime + IdlePeriod <= Grace
    BY DEF Recorded
  <1>5. r'.ws.lastActivity = IF activity > 0 THEN activity
                             ELSE IF r.ws.lastActivity = 0 THEN r.ws.lastRunningTime
                             ELSE r.ws.lastActivity
    BY <1>2, ProbeFacts
  <1>6. /\ r'.ws.lastActivity \in Nat /\ r'.ws.lastActivity > 0
        /\ r'.ws.lastActivity <= lastUse \/ r'.ws.lastActivity <= r.ws.lastRunningTime
    BY <1>1, <1>3, <1>4, <1>5 DEF Latest
  <1>7. r.now >= r'.ws.lastActivity + SecondsSinceActive
    BY <1>1, <1>3, <1>4, <1>6
  <1>8. r.now - r.ws.lastRunningTime >= MinRunningSeconds /\ r.ws.lastRunningTime > 0
    BY <1>1, <1>3, <1>4
  <1> QED
    BY <1>2, <1>6, <1>7, <1>8, ProbeFacts

LEMMA ProbeInTime ==
    ASSUME InTimeInv, NEW ok \in BOOLEAN, NEW activity \in {0, lastUse}, ProbeDone(ok, activity),
           PauseInv', \/ ok /\ spent' = spent
                      \/ ~pod.ready
                      \/ Mishaps' = Mishaps + 1
    PROVE  InTimeInv'
  <1>1. PauseInv
    BY DEF InTimeInv
  <1>2. UNCHANGED <<prompt, time, workspaces, sts, pod, queued, due, lastUse>>
    BY DEF ProbeDone
  <1>3. /\ r.step = "probe" /\ r'.step = "status"
        /\ r'.read = r.read /\ r'.now = r.now /\ r'.fresh = r.fresh
        /\ r'.ws.state = r.ws.state /\ r'.ws.lastRunningTime = r.ws.lastRunningTime
        /\ r'.ws.lastProbe = r.now /\ r'.ws # r'.read
    BY <1>1, PauseParts, ProbeFacts, ProbeMarks
  <1>4. Following'
    BY <1>2, <1>3 DEF InTimeInv, Following
  <1>5. Settling'
    BY <1>3 DEF Settling
  <1>6. KeepingUp'
    <2> SUFFICES ASSUME prompt, pod.ready PROVE Granted' \/ Calm'
      BY <1>2 DEF KeepingUp
    <2>1. CASE Mishaps' = Mishaps + 1
      BY <1>2, <2>1, MishapGrants
    <2>2. CASE ok /\ spent' = spent
      <3>1. Mishaps' = Mishaps
        BY <2>2 DEF Mishaps
      <3>2. lastUse <= lastUse' /\ pod.since <= pod'.since
        BY <1>1, <1>2, Numbers
      <3>3. /\ Grace \in Nat /\ Grace' \in Nat /\ Grace <= Grace'
            /\ Granted => Granted'
            /\ \A w \in Workspace : (Recorded(w) => Recorded(w)') /\ (Settled(w) => Settled(w)')
            /\ time <= Grace + Slack => time' <= Grace' + Slack
            /\ ProbedInTime => ProbedInTime'
        BY <1>1, <1>2, <1>3, <3>1, <3>2, SettledLater
      <3>4. Ws' = Ws /\ Ws \in Workspace /\ r.ws \in Workspace
        BY <1>1, <1>2, PauseParts DEF Ws
      <3>5. CASE Granted
        BY <3>3, <3>5
      <3>6. CASE Ws.paused /\ time <= Grace + Slack
        BY <3>3, <3>4, <3>6 DEF Calm
      <3>7. CASE /\ sts.replicas = 1 /\ sts.observed
                 /\ \A i \in 1 .. Len(workspaces) : ~workspaces[i].paused
                 /\ ~r.fresh => Settled(Ws)
                 /\ r.fresh /\ r.step = "probe" => Recorded(r.ws) /\ ProbedInTime
        <4>1. /\ sts'.replicas = 1 /\ sts'.observed
              /\ \A i \in 1 .. Len(workspaces') : ~workspaces'[i].paused
          BY <1>2, <3>7
        <4>2. ASSUME ~r'.fresh
              PROVE  Settled(Ws)'
          <5>1. PICK w \in Workspace : w = Ws
            BY <3>4
          <5>2. Settled(w)'
            BY <1>3, <3>3, <3>7, <4>2, <5>1
          <5> QED
            BY <3>4, <5>1, <5>2 DEF Settled, Recorded
        <4>3. ASSUME r'.fresh, ~r'.pause
              PROVE  Settled(r.ws)'
          <5>1. Recorded(r.ws)
            BY <1>3, <3>7, <4>3
          <5>2. PICK w \in Workspace : w = r.ws
            BY <3>4
          <5>3. Recorded(w)'
            BY <3>3, <5>1, <5>2
          <5>4. Recorded(r.ws)'
            BY <1>3, <5>2, <5>3 DEF Recorded
          <5>5. r.now <= Grace
            <6>1. ~(r.now > Grace)
              BY <1>1, <2>2, <4>3, <5>1, EligibleIsPaused
            <6> QED
              BY <1>1, <6>1, Numbers
          <5>6. r.now >= 1 /\ time <= r.now + ProbeTimeout
            BY <1>3 DEF InTimeInv, PauseInv, Deciding, Following
          <5>7. r.now <= Grace' /\ time <= r.now + ProbeInterval + ProbeTimeout
            <6>1. r.now \in Nat /\ time \in Nat /\ ProbeInterval \in Nat /\ ProbeTimeout \in Nat
              BY <1>1, Numbers
            <6>2. r.now <= Grace'
              BY <3>3, <5>5, <6>1
            <6>3. \A a, b, c, d \in Nat : a <= b + c => a <= b + d + c
              OBVIOUS
            <6> QED
              BY <5>6, <6>1, <6>2, <6>3
          <5> QED
            BY <1>2, <1>3, <5>4, <5>6, <5>7 DEF Settled
        <4>4. r'.fresh => ProbedInTime'
          BY <1>3, <3>3, <3>7
        <4> QED
          BY <1>3, <4>1, <4>2, <4>3, <4>4 DEF Calm
      <3> QED
        BY <3>5, <3>6, <3>7 DEF InTimeInv, KeepingUp, Calm
    <2> QED
      BY <2>1, <2>2
  <1> QED
    BY <1>4, <1>5, <1>6 DEF InTimeInv

LEMMA UpdateInTime ==
    ASSUME InTimeInv, UpdateStatus
    PROVE  InTimeInv'
  <1>1. PauseInv /\ PauseInv' /\ TypeOK
    BY UpdatePause DEF InTimeInv, PauseInv
  <1>2. UNCHANGED <<prompt, time, sts, pod, lastUse, reported>> /\ r.step = "status"
    BY <1>1, UpdateFacts
  <1>3. /\ Ws \in Workspace /\ r.ws \in Workspace /\ workspaces \in Versions(Workspace)
        /\ r \in ReconcileType(time) /\ time \in Nat
    BY <1>1, PauseParts
  <1>4. lastUse <= lastUse' /\ pod.since <= pod'.since
    BY <1>1, <1>2, Numbers
  <1>5. r' = Idle => r'.step = "idle" /\ ~r'.fresh
    BY <1>3, IdleType
  \* What the others have in common: nothing goes wrong.
  <1>6. ASSUME spent' = spent
        PROVE  /\ Granted => Granted'
               /\ \A w \in Workspace : (Recorded(w) => Recorded(w)') /\ (Settled(w) => Settled(w)')
               /\ time <= Grace + Slack => time' <= Grace' + Slack
               /\ r'.now = r.now /\ ProbedInTime => ProbedInTime'
    <2>1. Mishaps' = Mishaps
      BY <1>6 DEF Mishaps
    <2> QED
      BY <1>1, <1>2, <1>4, <2>1, SettledLater
  <1>7. ASSUME r' = Idle, NEW w \in Workspace, Ws' = w, spent' = spent,
               Ws.paused => w.paused,
               ~Ws.paused => \A i \in 1 .. Len(workspaces') :
                                workspaces'[i] = w \/ \E j \in 1 .. Len(workspaces) : workspaces'[i] = workspaces[j],
               ~Ws.paused => ~w.paused,
               ~r.fresh => w = Ws, r.fresh => w = r.ws /\ ~r.pause
        PROVE  KeepingUp'
    <2> SUFFICES ASSUME prompt, pod.ready PROVE Granted' \/ Calm'
      BY <1>2 DEF KeepingUp
    <2>1. CASE Granted
      BY <1>6, <1>7, <2>1
    <2>2. CASE Ws.paused /\ time <= Grace + Slack
      BY <1>6, <1>7, <2>2 DEF Calm
    <2>3. CASE /\ sts.replicas = 1 /\ sts.observed
               /\ \A i \in 1 .. Len(workspaces) : ~workspaces[i].paused
               /\ ~r.fresh => Settled(Ws)
               /\ r.fresh /\ r.step = "status" => IF r.pause THEN ProbedInTime ELSE Settled(r.ws)
      <3>1. ~Ws.paused
        <4>1. Len(workspaces) \in 1 .. Len(workspaces)
          BY <1>1, PauseTypes
        <4> QED
          BY <2>3, <4>1 DEF Ws, Stored
      <3>2. Settled(w)
        BY <1>2, <1>7, <2>3
      <3>3. Settled(w)'
        BY <1>6, <1>7, <3>2
      <3>4. Settled(Ws)'
        BY <1>7, <3>3 DEF Settled, Recorded
      <3>5. \A i \in 1 .. Len(workspaces') : ~workspaces'[i].paused
        BY <1>7, <2>3, <3>1
      <3> QED
        BY <1>2, <1>5, <1>7, <2>3, <3>4, <3>5 DEF Calm
    <2> QED
      BY <2>1, <2>2, <2>3 DEF InTimeInv, KeepingUp, Calm
  <1>8. ASSUME r.fresh
        PROVE  Ws = r.read /\ r.ws.paused = Ws.paused
    BY <1>1, <1>2, <1>8 DEF PauseInv, Reading
  <1>9. CASE /\ r.ws = r.read /\ ~r.pause /\ r' = Idle /\ workspaces' = workspaces
             /\ due' = Earlier(due, IF r.requeue = Never THEN Never ELSE time + r.requeue)
             /\ UNCHANGED <<queued, spent>>
    <2>1. Ws' = Ws /\ (r.fresh => Ws = r.ws)
      BY <1>8, <1>9 DEF Ws
    <2>2. Following'
      BY <1>5, <1>9 DEF Following
    <2>3. Settling'
      <3> SUFFICES ASSUME ~queued, Current(workspaces)
                   PROVE  /\ sts.replicas = Replicas(Ws)
                          /\ pod.ready /\ sts.observed => Ws.state = "Running"
                          /\ prompt /\ Ws.state = "Running" =>
                               /\ Ws.lastRunningTime >= 1 /\ Ws.lastProbe >= 1
                               /\ due' # Never /\ due' <= Ws.lastProbe + ProbeInterval
        BY <1>2, <1>9, <2>1 DEF Settling, Replicas
      <3>1. r.fresh
        BY <1>2 DEF InTimeInv, Following
      <3>2. Ws = r.ws /\ r.ws = r.read
        BY <1>9, <2>1, <3>1
      <3>3. sts.replicas = Replicas(Ws) /\ (pod.ready /\ sts.observed => Ws.state = "Running")
        BY <1>2, <3>2 DEF InTimeInv, Following
      <3>4. ASSUME prompt, Ws.state = "Running"
            PROVE  /\ Ws.lastRunningTime >= 1 /\ Ws.lastProbe >= 1
                   /\ due' # Never /\ due' <= Ws.lastProbe + ProbeInterval
        <4>1. Ws.lastRunningTime >= 1
          BY <1>1, <1>2, <3>2, <3>4 DEF PauseInv, Deciding
        <4>2. /\ Ws.lastProbe >= 1
              /\ r.requeue # Never /\ time + r.requeue <= Ws.lastProbe + ProbeInterval
          BY <1>2, <3>2, <3>4 DEF InTimeInv, Following
        <4>3. r.requeue \in Nat /\ due \in Nat \cup {Never} /\ time + r.requeue \in Nat
          BY <1>1, <1>3, <4>2, PauseParts, ReconcileFields
        <4>4. due' = Earlier(due, time + r.requeue)
          BY <1>9, <4>2
        <4>5. due' # Never /\ due' <= time + r.requeue /\ due' \in Nat \cup {Never}
          <5>1. time + r.requeue # Never
            BY <4>3, BoundsAssumption
          <5>2. PICK b \in Nat \cup {Never} : b = time + r.requeue /\ b # Never
            BY <4>3, <5>1
          <5>3. due' = Earlier(due, b)
            BY <4>4, <5>2
          <5>4. Earlier(due, b) \in Nat \cup {Never} /\ Earlier(due, b) # Never /\ Earlier(due, b) <= b
            BY <4>3, <5>2, EarlierFacts
          <5> QED
            BY <5>2, <5>3, <5>4
        <4>6. Ws.lastProbe \in Nat /\ ProbeInterval \in Nat /\ due' \in Nat
          BY <1>3, <4>5, WorkspaceFields, IntervalsAssumption
        <4>7. \A a, b, c \in Nat : a <= b /\ b <= c => a <= c
          OBVIOUS
        <4>8. Ws.lastProbe + ProbeInterval \in Nat
          BY <4>6
        <4>9. due' <= Ws.lastProbe + ProbeInterval
          BY <4>2, <4>3, <4>5, <4>6, <4>7, <4>8
        <4> QED
          BY <4>1, <4>2, <4>5, <4>9
      <3> QED
        BY <3>3, <3>4
    <2>4. KeepingUp'
      <3>1. \A i \in 1 .. Len(workspaces') : \E j \in 1 .. Len(workspaces) : workspaces'[i] = workspaces[j]
        BY <1>9
      <3> QED
        BY <1>3, <1>7, <1>9, <2>1, <3>1
    <2> QED
      BY <1>1, <2>2, <2>3, <2>4 DEF InTimeInv
  <1>10. ASSUME r.fresh, workspaces' = Put(workspaces, r.ws)
         PROVE  /\ Ws' = r.ws /\ ~Current(workspaces')
                /\ \A i \in 1 .. Len(workspaces') :
                     workspaces'[i] = r.ws \/ \E j \in 1 .. Len(workspaces) : workspaces'[i] = workspaces[j]
    <2>1. Ws' = r.ws /\ ~Current(workspaces')
      BY <1>3, <1>10, PutFacts, WriteUnderWay DEF Ws
    <2>2. /\ Len(workspaces') = Len(workspaces) + 1 /\ workspaces'[Len(workspaces) + 1] = r.ws
          /\ \A i \in 1 .. Len(workspaces) : workspaces'[i] = workspaces[i]
      BY <1>3, <1>10, PutFacts
    <2>3. Len(workspaces) \in Nat
      BY <1>1, PauseTypes
    <2>4. \A i \in 1 .. Len(workspaces') : i \in 1 .. Len(workspaces) \/ i = Len(workspaces) + 1
      <3>1. Len(workspaces') = Len(workspaces) + 1
        BY <2>2
      <3> QED
        BY <2>3, <3>1
    <2> QED
      BY <2>1, <2>2, <2>4
  <1>11. CASE /\ r.ws # r.read /\ r.fresh /\ ~r.pause /\ r' = Idle
              /\ workspaces' = Put(workspaces, r.ws) /\ UNCHANGED <<queued, spent>>
    <2>1. Following'
      BY <1>5, <1>11 DEF Following
    <2>2. Settling'
      BY <1>10, <1>11 DEF Settling
    <2>3. KeepingUp'
      BY <1>3, <1>7, <1>8, <1>10, <1>11
    <2> QED
      BY <1>1, <2>1, <2>2, <2>3 DEF InTimeInv
  <1>12. CASE /\ r.ws # r.read /\ r.fresh /\ r.pause /\ workspaces' = Put(workspaces, r.ws)
              /\ r' = [r EXCEPT !.step = "patch", !.wrote = TRUE]
              /\ UNCHANGED <<queued, due, spent>>
    <2>1. /\ r'.ws = r.ws /\ r'.read = r.read /\ r'.fresh = r.fresh /\ r'.step = "patch"
          /\ r'.now = r.now /\ r'.pause = r.pause
      BY <1>3, <1>12 DEF ReconcileType
    <2>2. Following'
      BY <1>2, <1>10, <1>12, <2>1 DEF InTimeInv, Following, Replicas
    <2>3. Settling'
      BY <2>1 DEF Settling
    <2>4. KeepingUp'
      <3> SUFFICES ASSUME prompt, pod.ready PROVE Granted' \/ Calm'
        BY <1>2 DEF KeepingUp
      <3>1. CASE Granted
        BY <1>6, <1>12, <3>1
      <3>2. CASE Ws.paused /\ time <= Grace + Slack
        BY <1>6, <1>8, <1>10, <1>12, <3>2 DEF Calm
      <3>3. CASE /\ sts.replicas = 1 /\ sts.observed
                 /\ \A i \in 1 .. Len(workspaces) : ~workspaces[i].paused
                 /\ r.fresh /\ r.step = "status" => IF r.pause THEN ProbedInTime ELSE Settled(r.ws)
        <4>1. ~r.ws.paused
          <5>1. Len(workspaces) \in 1 .. Len(workspaces)
            BY <1>1, PauseTypes
          <5> QED
            BY <1>8, <1>12, <3>3, <5>1 DEF Ws, Stored
        <4>2. \A i \in 1 .. Len(workspaces') : ~workspaces'[i].paused
          BY <1>10, <1>12, <3>3, <4>1
        <4>3. ProbedInTime'
          BY <1>2, <1>6, <1>12, <2>1, <3>3
        <4> QED
          BY <1>2, <1>12, <2>1, <3>3, <4>2, <4>3 DEF Calm
      <3> QED
        BY <3>1, <3>2, <3>3 DEF InTimeInv, KeepingUp, Calm
    <2> QED
      BY <1>1, <2>2, <2>3, <2>4 DEF InTimeInv
  <1>13. CASE /\ r' = Idle /\ queued' = TRUE /\ UNCHANGED <<workspaces, due>>
              /\ \/ r.ws # r.read /\ ~r.fresh /\ UNCHANGED spent
                 \/ Fault
    <2>1. Following' /\ Settling'
      BY <1>5, <1>13 DEF Following, Settling
    <2>2. KeepingUp'
      <3>1. CASE Fault
        <4>1. Mishaps' = Mishaps + 1
          BY <1>1, <3>1, FaultFacts
        <4> QED
          BY <1>1, <1>2, <4>1, MishapGrants DEF KeepingUp
      <3>2. CASE ~r.fresh /\ UNCHANGED spent
        <4>1. Ws' = Ws
          BY <1>13 DEF Ws
        <4>2. \A i \in 1 .. Len(workspaces') : \E j \in 1 .. Len(workspaces) : workspaces'[i] = workspaces[j]
          BY <1>13
        <4> QED
          BY <1>3, <1>7, <1>13, <3>2, <4>1, <4>2
      <3> QED
        BY <1>13, <3>1, <3>2
    <2> QED
      BY <1>1, <2>1, <2>2 DEF InTimeInv
  <1> QED
    BY <1>1, <1>9, <1>11, <1>12, <1>13, UpdateFacts

LEMMA PatchInTime ==
    ASSUME InTimeInv, PatchPaused
    PROVE  InTimeInv'
  <1>1. PauseInv /\ PauseInv' /\ TypeOK
    BY PatchPause DEF InTimeInv, PauseInv
  <1>2. UNCHANGED <<prompt, time, sts, pod, lastUse, reported>> /\ r.step = "patch" /\ r' = Idle
    BY <1>1, PatchFacts
  <1>3. Ws \in Workspace /\ workspaces \in Versions(Workspace) /\ time \in Nat
    BY <1>1, PauseParts
  <1>4. r'.step = "idle" /\ ~r'.fresh
    BY <1>2, <1>3, IdleType
  <1>5. Following'
    BY <1>4 DEF Following
  <1>6. ASSUME spent' = spent
        PROVE  /\ Granted => Granted'
               /\ \A w \in Workspace : Settled(w) => Settled(w)'
               /\ time <= Grace + Slack => time' <= Grace' + Slack
    <2>1. Mishaps' = Mishaps
      BY <1>6 DEF Mishaps
    <2>2. lastUse <= lastUse' /\ pod.since <= pod'.since
      BY <1>1, <1>2, Numbers
    <2> QED
      BY <1>1, <1>2, <2>1, <2>2, SettledLater
  <1>7. CASE workspaces' = Put(workspaces, Paused(Ws)) /\ UNCHANGED spent
    <2>1. Paused(Ws) \in Workspace /\ Paused(Ws).paused
      BY <1>3, PausedFacts
    <2>2. Ws' = Paused(Ws) /\ ~Current(workspaces')
      BY <1>3, <1>7, <2>1, PutFacts, WriteUnderWay DEF Ws
    <2>3. Settling'
      BY <2>2 DEF Settling
    <2>4. KeepingUp'
      <3> SUFFICES ASSUME prompt, pod.ready PROVE Calm'
        BY <1>2 DEF KeepingUp
      <3>1. time' <= Grace' + Slack
        BY <1>6, <1>7, NotLate
      <3> QED
        BY <2>1, <2>2, <3>1 DEF Calm
    <2> QED
      BY <1>1, <1>5, <2>3, <2>4 DEF InTimeInv
  <1>8. CASE /\ queued' = TRUE /\ UNCHANGED <<workspaces, due>>
             /\ \/ ~r.fresh /\ UNCHANGED spent
                \/ Fault
    <2>1. Settling'
      BY <1>8 DEF Settling
    <2>2. KeepingUp'
      <3> SUFFICES ASSUME prompt, pod.ready PROVE Granted' \/ Calm'
        BY <1>2 DEF KeepingUp
      <3>1. CASE Fault
        <4>1. Mishaps' = Mishaps + 1
          BY <1>1, <3>1, FaultFacts
        <4> QED
          BY <1>1, <1>2, <4>1, MishapGrants
      <3>2. CASE ~r.fresh /\ UNCHANGED spent
        <4>1. Ws' = Ws
          BY <1>8 DEF Ws
        <4>2. CASE Granted
          BY <1>6, <3>2, <4>2
        <4>3. CASE Ws.paused /\ time <= Grace + Slack
          BY <1>6, <3>2, <4>1, <4>3 DEF Calm
        <4>4. CASE /\ sts.replicas = 1 /\ sts.observed
                   /\ \A i \in 1 .. Len(workspaces) : ~workspaces[i].paused
                   /\ ~r.fresh => Settled(Ws)
          <5>1. PICK w \in Workspace : w = Ws
            BY <1>3
          <5>2. Settled(w)'
            BY <1>6, <3>2, <4>4, <5>1
          <5>3. Settled(Ws)'
            BY <4>1, <5>1, <5>2 DEF Settled, Recorded
          <5> QED
            BY <1>2, <1>4, <1>8, <4>4, <5>3 DEF Calm
        <4> QED
          BY <4>2, <4>3, <4>4 DEF InTimeInv, KeepingUp, Calm
      <3> QED
        BY <1>8, <3>1, <3>2
    <2> QED
      BY <1>1, <1>5, <2>1, <2>2 DEF InTimeInv
  <1> QED
    BY <1>1, <1>7, <1>8, PatchFacts

LEMMA CrashInTime ==
    ASSUME InTimeInv, Crash
    PROVE  InTimeInv'
  <1>1. PauseInv /\ PauseInv' /\ TypeOK
    BY CrashPause DEF InTimeInv, PauseInv
  <1>2. /\ UNCHANGED <<prompt, time, sts, pod, lastUse, reported>> /\ r' = Idle /\ queued' = TRUE
        /\ Fault
    BY DEF Crash
  <1>3. r'.step = "idle"
    BY <1>1, <1>2, PauseParts, IdleType
  <1>4. Following' /\ Settling'
    BY <1>2, <1>3 DEF Following, Settling
  <1>5. Mishaps' = Mishaps + 1
    BY <1>1, <1>2, FaultFacts
  <1>6. KeepingUp'
    BY <1>1, <1>2, <1>5, MishapGrants DEF KeepingUp
  <1> QED
    BY <1>1, <1>4, <1>6 DEF InTimeInv

LEMMA EditInTime ==
    ASSUME InTimeInv, NEW new \in Workspace, Timely(new), Edit(new)
    PROVE  InTimeInv'
  <1>1. PauseInv /\ PauseInv' /\ TypeOK
    BY EditPause DEF InTimeInv, PauseInv
  <1>2. /\ UNCHANGED <<prompt, time, sts, pod, queued, due, lastUse, reported>>
        /\ workspaces' = Put(workspaces, new) /\ r' = [r EXCEPT !.fresh = FALSE]
        /\ spent.edits < MaxEdits /\ spent' = [spent EXCEPT !.edits = @ + 1]
    BY DEF Edit
  <1>3. /\ r'.ws = r.ws /\ r'.read = r.read /\ r'.step = r.step /\ r'.now = r.now
        /\ r'.requeue = r.requeue
    BY <1>1, <1>2, PauseParts DEF ReconcileType
  <1>4. ~Current(workspaces')
    BY <1>1, <1>2, PauseParts, WriteUnderWay
  <1>5. Following'
    BY <1>2, <1>3, <1>4 DEF InTimeInv, Following, Replicas
  <1>6. Settling'
    BY <1>4 DEF Settling
  <1>7. Mishaps' = Mishaps + 1
    BY <1>1, <1>2, EditSpentFacts
  <1>8. KeepingUp'
    BY <1>1, <1>2, <1>7, MishapGrants DEF KeepingUp
  <1> QED
    BY <1>1, <1>5, <1>6, <1>8 DEF InTimeInv

\* The Pod comes or goes, or its controller has acted: the Workspace is queued.
LEMMA ClusterInTime ==
    ASSUME InTimeInv, WatchWorkspace \/ Observe \/ PodUp \/ PodDown \/ Use
    PROVE  InTimeInv'
  <1>1. PauseInv /\ PauseInv' /\ TypeOK
    BY AsideParts, AsidePause DEF InTimeInv, PauseInv
  <1>2. /\ UNCHANGED <<prompt, time, r, due>> /\ Ws' = Ws /\ sts'.replicas = sts.replicas
        /\ Len(workspaces) \in Nat /\ Ws \in Workspace
    <2>1. UNCHANGED <<prompt, r, due>> /\ Ws' = Ws
      BY <1>1, AsideParts
    <2>2. time' = time
      BY DEF WatchWorkspace, Use, Observe, PodUp, PodDown
    <2>3. sts'.replicas = sts.replicas
      <3>1. sts \in [replicas : {0, 1}, observed : BOOLEAN]
        BY <1>1, PauseParts
      <3>2. sts' = sts \/ sts' = [sts EXCEPT !.observed = TRUE]
        BY DEF WatchWorkspace, Use, Observe, PodUp, PodDown
      <3> QED
        BY <3>1, <3>2
    <2> QED
      BY <1>1, <2>1, <2>2, <2>3, PauseTypes
  <1>3. \/ queued' = TRUE
        \/ Use /\ UNCHANGED <<queued, workspaces, sts, pod>>
    BY DEF WatchWorkspace, Use, Observe, PodUp, PodDown
  <1>4. Following'
    BY <1>2, <1>3 DEF InTimeInv, Following, Replicas
  <1>5. Settling'
    BY <1>2, <1>3 DEF InTimeInv, Settling, Replicas
  <1>6. KeepingUp'
    <2> SUFFICES ASSUME prompt, pod'.ready PROVE Granted' \/ Calm'
      BY <1>2 DEF KeepingUp
    <2>1. CASE PodUp
      <3>1. pod'.since = time
        BY <2>1 DEF PodUp
      <3>2. (PauseInv => pod.since + IdlePeriod <= Grace)'
        BY Numbers, PTL
      <3>3. pod'.since + IdlePeriod <= Grace'
        BY <1>1, <3>2 DEF IdlePeriod, Latest
      <3> QED
        BY <1>2, <3>1, <3>3 DEF Granted, IdlePeriod
    <2>2. CASE PodDown
      <3>1. pod'.ready = FALSE
        BY <1>1, <2>2, PauseParts DEF PodDown
      <3> QED
        BY <3>1
    <2>3. CASE WatchWorkspace \/ Observe \/ Use
      <3>1. UNCHANGED <<pod, spent>> /\ lastUse' \in {lastUse, time}
        BY <1>2, <2>3 DEF WatchWorkspace, Use, Observe
      <3>2. Mishaps' = Mishaps
        BY <3>1 DEF Mishaps
      <3>3. lastUse <= lastUse' /\ pod.since <= pod'.since
        <4>1. lastUse \in Nat /\ time \in Nat /\ lastUse <= time /\ pod.since \in Nat
          BY <1>1, PauseTypes
        <4> QED
          BY <3>1, <4>1
      <3>4. /\ Granted => Granted'
            /\ \A w \in Workspace : (Recorded(w) => Recorded(w)') /\ (Settled(w) => Settled(w)')
            /\ time <= Grace + Slack => time' <= Grace' + Slack
            /\ ProbedInTime => ProbedInTime'
        BY <1>1, <1>2, <3>2, <3>3, SettledLater
      <3>5. CASE Granted
        BY <3>4, <3>5
      <3>6. CASE Ws.paused /\ time <= Grace + Slack
        BY <1>2, <3>4, <3>6 DEF Calm
      <3>7. CASE /\ sts.replicas = 1 /\ sts.observed
                 /\ \A i \in 1 .. Len(workspaces) : ~workspaces[i].paused
                 /\ ~r.fresh => Settled(Ws)
                 /\ r.fresh /\ r.step = "probe" => Recorded(r.ws) /\ ProbedInTime
                 /\ r.fresh /\ r.step = "status" => IF r.pause THEN ProbedInTime ELSE Settled(r.ws)
                 /\ r.fresh /\ r.step = "patch" => ProbedInTime
        <4>1. sts' = sts
          BY <2>3, <3>7 DEF WatchWorkspace, Use, Observe
        <4>2. \A i \in 1 .. Len(workspaces') : ~workspaces'[i].paused
          <5> DEFINE T == {w \in Workspace : ~w.paused}
          <5>1. workspaces \in Versions(Workspace) /\ \A i \in 1 .. Len(workspaces) : workspaces[i] \in T
            BY <1>1, <3>7, PauseTypes
          <5>2. \/ workspaces' = workspaces
                \/ Behind(workspaces) /\ workspaces' = Tail(workspaces)
            BY <1>1, AsideParts
          <5> HIDE DEF T
          <5>3. \A i \in 1 .. Len(workspaces') : workspaces'[i] \in T
            BY <5>1, <5>2, VersionsKept
          <5> QED
            BY <5>3 DEF T
        <4>3. PICK w \in Workspace : w = Ws
          BY <1>2
        <4>4. PICK v \in Workspace : v = r.ws
          BY <1>1, PauseParts
        <4>5. Settled(Ws) => Settled(Ws)'
          BY <1>2, <3>4, <4>3 DEF Settled, Recorded
        <4>6. (Settled(r.ws) => Settled(r.ws)') /\ (Recorded(r.ws) => Recorded(r.ws)')
          BY <1>2, <3>4, <4>4 DEF Settled, Recorded
        <4> QED
          BY <1>2, <3>4, <3>7, <4>1, <4>2, <4>5, <4>6 DEF Calm
      <3> QED
        BY <2>3, <1>2, <3>1, <3>5, <3>6, <3>7 DEF InTimeInv, KeepingUp, Calm
    <2> QED
      BY <2>1, <2>2, <2>3
  <1> QED
    BY <1>1, <1>4, <1>5, <1>6 DEF InTimeInv

\* Time passes when there is nothing to do: the next probe is due, or runs.
LEMMA TickInTime ==
    ASSUME InTimeInv, Tick
    PROVE  InTimeInv'
  <1>1. PauseInv /\ PauseInv' /\ TypeOK
    BY AsideParts, AsidePause DEF InTimeInv, PauseInv
  <1>2. /\ UNCHANGED <<prompt, workspaces, sts, pod, queued, due, r, lastUse, spent>> /\ time' = time + 1
        /\ r.step = "probe" => time - r.now < ProbeTimeout
        /\ prompt => NothingToDo
    BY DEF Tick
  <1>3. Ws' = Ws /\ Mishaps' = Mishaps /\ Grace' = Grace /\ Ws \in Workspace /\ r.ws \in Workspace
    <2>1. Ws' = Ws /\ Mishaps' = Mishaps
      BY <1>2 DEF Ws, Mishaps
    <2>2. Eligible' = Eligible
      BY <1>2 DEF Eligible
    <2> QED
      BY <1>1, <2>1, <2>2, PauseParts DEF Grace
  <1>4. /\ time \in Nat /\ r.now \in Nat /\ r.now <= time /\ ProbeTimeout \in Nat
        /\ ProbeInterval \in Nat /\ Grace \in Nat /\ IdlePeriod \in Nat
    BY <1>1, Numbers
  <1>5. Following'
    <2>1. prompt /\ r.step # "idle" => r.step = "probe"
      BY <1>2 DEF NothingToDo
    <2>2. r.step = "probe" => time' <= r.now + ProbeTimeout
      BY <1>2, <1>4
    <2>3. /\ r.step # "idle" => sts.replicas = Replicas(r.read)
          /\ r.step # "idle" /\ ~queued /\ Current(workspaces) => r.fresh /\ r.step # "patch"
          /\ r.step # "idle" /\ ~queued /\ pod.ready /\ sts.observed => r.ws.state = "Running"
      BY DEF InTimeInv, Following
    <2> QED
      BY <1>2, <2>1, <2>2, <2>3 DEF Following, Replicas
  <1>6. Settling'
    BY <1>2, <1>3 DEF InTimeInv, Settling, Replicas
  <1>7. KeepingUp'
    <2> SUFFICES ASSUME prompt, pod.ready PROVE Calm'
      BY <1>2 DEF KeepingUp
    <2>1. /\ r.step \in {"idle", "probe"} /\ ~queued /\ (due # Never => due > time)
          /\ ~Behind(workspaces) /\ sts.observed /\ pod.ready = (sts.replicas = 1)
      BY <1>2 DEF NothingToDo
    <2>2. Len(workspaces) = 1 /\ Current(workspaces)
      <3>1. Len(workspaces) \in Nat \ {0} /\ ~(Len(workspaces) > 1)
        BY <1>1, <2>1, PauseTypes DEF Behind
      <3>2. \A n \in Nat \ {0} : ~(n > 1) => n = 1
        OBVIOUS
      <3>3. Len(workspaces) = 1
        BY <3>1, <3>2
      <3> QED
        BY <3>3 DEF Current
    <2>3. sts.replicas = 1
      BY <2>1
    <2>4. Granted \/ Calm
      BY DEF InTimeInv, KeepingUp
    <2>5. Timely(Ws) /\ Timely(r.ws)
      BY <1>1, PauseParts
    <2>6. ASSUME NEW w \in Workspace, w.lastRunningTime <= time, Granted
          PROVE  w.lastRunningTime + IdlePeriod <= Grace
      BY <1>4, <2>6, WorkspaceFields DEF Granted
    <2>7. ~Ws.paused => \A i \in 1 .. Len(workspaces') : ~workspaces'[i].paused
      BY <1>2, <2>2 DEF Ws, Stored
    <2>8. CASE r.step = "idle"
      <3>1. /\ sts.replicas = Replicas(Ws) /\ Ws.state = "Running"
            /\ Ws.lastRunningTime >= 1 /\ Ws.lastProbe >= 1
            /\ due # Never /\ due <= Ws.lastProbe + ProbeInterval
        BY <2>1, <2>2, <2>8 DEF InTimeInv, Settling
      <3>2. ~Ws.paused
        BY <2>3, <3>1 DEF Replicas
      <3>3. ~r.fresh
        BY <1>1, <2>8 DEF PauseInv, Reading
      <3>4. Ws.lastRunningTime + IdlePeriod <= Grace /\ Ws.lastProbe <= Grace
        <4>1. CASE Granted
          <5>1. Ws.lastRunningTime + IdlePeriod <= Grace
            BY <1>3, <2>5, <2>6, <4>1 DEF Timely
          <5>2. Ws.lastProbe \in Nat /\ Ws.lastProbe <= time
            BY <1>3, <2>5, WorkspaceFields DEF Timely
          <5>3. Ws.lastProbe <= Grace
            BY <1>4, <4>1, <5>2 DEF Granted
          <5> QED
            BY <5>1, <5>3
        <4>2. CASE Calm
          BY <3>2, <3>3, <4>2 DEF Calm, Settled, Recorded
        <4> QED
          BY <2>4, <4>1, <4>2
      <3>5. time' <= Ws.lastProbe + ProbeInterval + ProbeTimeout
        <4>1. due \in Nat /\ due > time /\ Ws.lastProbe \in Nat
          BY <1>1, <1>3, <2>1, <3>1, PauseTypes, WorkspaceFields
        <4> QED
          BY <1>2, <1>4, <3>1, <4>1
      <3>6. Settled(Ws)'
        BY <1>3, <3>1, <3>4, <3>5 DEF Settled, Recorded, IdlePeriod
      <3> QED
        BY <1>2, <2>1, <2>3, <2>7, <3>2, <3>3, <3>6 DEF Calm
    <2>9. CASE r.step = "probe"
      <3>1. r.fresh /\ sts.replicas = Replicas(r.read)
        BY <2>1, <2>2, <2>9 DEF InTimeInv, Following
      <3>2. Ws = r.read
        BY <1>1, <2>9, <3>1 DEF PauseInv, Reading
      <3>3. ~Ws.paused
        BY <2>3, <3>1, <3>2 DEF Replicas
      <3>4. r.ws.state = "Running" /\ r.ws.lastRunningTime >= 1
        BY <1>1, <2>9 DEF PauseInv, Deciding
      <3>5. r.ws.lastRunningTime + IdlePeriod <= Grace /\ ProbedInTime
        <4>1. CASE Granted
          <5>1. r.ws.lastRunningTime + IdlePeriod <= Grace
            BY <1>3, <2>5, <2>6, <4>1 DEF Timely
          <5>2. ProbedInTime
            BY <1>4, <4>1 DEF Granted, ProbedInTime
          <5> QED
            BY <5>1, <5>2
        <4>2. CASE Calm
          BY <2>9, <3>1, <3>3, <4>2 DEF Calm, Recorded
        <4> QED
          BY <2>4, <4>1, <4>2
      <3>6. Recorded(r.ws)' /\ ProbedInTime'
        BY <1>2, <1>3, <3>4, <3>5 DEF Recorded, ProbedInTime, IdlePeriod
      <3> QED
        BY <1>2, <2>1, <2>3, <2>7, <2>9, <3>1, <3>3, <3>6 DEF Calm
    <2> QED
      BY <2>1, <2>8, <2>9
  <1> QED
    BY <1>1, <1>5, <1>6, <1>7 DEF InTimeInv

LEMMA InTimeNext == InTimeInv /\ [Next]_vars => InTimeInv'
  <1> SUFFICES ASSUME InTimeInv, [Next]_vars PROVE InTimeInv'
    OBVIOUS
  <1>1. PauseInv /\ PauseInv'
    BY PauseNext DEF InTimeInv
  <1>2. CASE Begin
    BY <1>2, BeginInTime
  <1>3. CASE UpdateStatus
    BY <1>3, UpdateInTime
  <1>4. CASE PatchPaused
    BY <1>4, PatchInTime
  <1>5. CASE Crash
    BY <1>5, CrashInTime
  <1>6. ASSUME NEW field \in Fields, ProbeSucceeds(field)
        PROVE  InTimeInv'
    <2>1. PICK ok \in BOOLEAN : ok = TRUE
      OBVIOUS
    <2>2. PICK a \in {0, lastUse} : a = parsePodExecOutput(field)
      BY <1>1, <1>6, ProbeSucceedsParts
    <2>3. ProbeDone(ok, a) /\ spent' = spent /\ ok
      BY <1>1, <1>6, <2>1, <2>2, ProbeSucceedsParts
    <2> QED
      BY <1>1, <2>3, ProbeInTime
  <1>7. CASE ProbeFails
    <2>1. PICK ok \in BOOLEAN : ok = FALSE
      OBVIOUS
    <2>2. PICK a \in {0, lastUse} : a = 0
      OBVIOUS
    <2>3. ProbeDone(ok, a) /\ (~pod.ready \/ Mishaps' = Mishaps + 1)
      BY <1>1, <1>7, <2>1, <2>2, ProbeFailsParts
    <2> QED
      BY <1>1, <2>3, ProbeInTime
  <1>8. CASE SetPaused \/ EditMetadata
    BY <1>1, <1>8, EditParts, EditInTime
  <1>9. CASE WatchWorkspace \/ Observe \/ PodUp \/ PodDown \/ Use
    BY <1>9, ClusterInTime
  <1>10. CASE Tick
    BY <1>10, TickInTime
  <1>11. CASE UNCHANGED vars
    <2>1. UNCHANGED <<prompt, time, workspaces, sts, pod, queued, due, r, lastUse, spent>>
      BY <1>11 DEF vars
    <2>2. Ws' = Ws /\ Mishaps' = Mishaps
      BY <2>1 DEF Ws, Mishaps
    <2>3. Eligible' = Eligible
      BY <2>1 DEF Eligible
    <2>4. Grace' = Grace
      BY <2>2, <2>3 DEF Grace
    <2>5. Following' /\ Settling'
      BY <2>1, <2>2 DEF InTimeInv, Following, Settling, Replicas
    <2>6. Granted' = Granted /\ Calm' = Calm
      BY <2>1, <2>2, <2>4 DEF Granted, Calm, Settled, Recorded, ProbedInTime, IdlePeriod
    <2> QED
      BY <1>1, <2>1, <2>5, <2>6 DEF InTimeInv, KeepingUp
  <1> QED
    BY <1>2, <1>3, <1>4, <1>5, <1>6, <1>7, <1>8, <1>9, <1>10, <1>11 DEF Next

LEMMA InTimeInit == Init => InTimeInv
  <1> SUFFICES ASSUME Init PROVE InTimeInv
    OBVIOUS
  <1>1. PauseInv
    BY PauseInit
  <1>2. r.step = "idle" /\ queued /\ ~pod.ready
    BY DEF Init, Idle
  <1> QED
    BY <1>1, <1>2 DEF InTimeInv, Following, Settling, KeepingUp

\* As long as the controller keeps up, a cluster with nothing to do has reconciled the
\* Workspace that is stored and a probe of it runs or is due.
THEOREM InTimeInvariant == Spec => []InTimeInv
  BY InTimeInit, InTimeNext, PTL DEF Spec

\* An idle Workspace is paused in time, for all intervals, timeouts and numbers of edits and
\* faults: reconcileActivity asks for the next probe on every path that does not write the
\* status, and what it writes brings the Workspace back to the queue.
THEOREM IdleIsPausedInTime == Spec => []PausedInTime
  <1>1. InTimeInv => PausedInTime
    <2> SUFFICES ASSUME InTimeInv, prompt, pod.ready
                 PROVE  ~(time > Eligible + (Mishaps * Respite + Slack))
      BY DEF PausedInTime, Overdue
    <2>1. /\ Grace = Eligible + Mishaps * Respite /\ Eligible \in Nat /\ Mishaps \in Nat
          /\ Respite \in Nat /\ Slack \in Nat /\ time \in Nat
      BY Numbers DEF InTimeInv
    <2>2. Mishaps * Respite \in Nat
      BY <2>1
    <2>3. time <= (Eligible + Mishaps * Respite) + Slack
      BY <2>1, NotLate
    <2> DEFINE m == Mishaps * Respite
    <2>4. m \in Nat /\ time <= (Eligible + m) + Slack
      BY <2>2, <2>3
    <2> HIDE DEF m
    <2>5. ~(time > Eligible + (m + Slack))
      BY <2>1, <2>4
    <2> QED
      BY <2>5 DEF m
  <1> QED
    BY <1>1, InTimeInvariant, PTL
=============================================================================
