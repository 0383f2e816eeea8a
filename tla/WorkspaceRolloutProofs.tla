----------------------- MODULE WorkspaceRolloutProofs -----------------------
(***************************************************************************)
(* Proofs about WorkspaceRollout, for every set of options and all bounds. *)
(***************************************************************************)
EXTENDS WorkspaceRollout, InformerProofs

-----------------------------------------------------------------------------
(***************************************************************************)
(* Types.                                                                  *)
(***************************************************************************)
\* The locals of a reconcile that has ended are well-formed and say so.
LEMMA IdleType ==
    /\ Idle \in Reconcile
    /\ Idle.step = "idle" /\ ~Idle.fresh
  <1> DEFINE option == CHOOSE o \in Options : TRUE
  <1>1. option \in Options
    BY OptionsAssumption
  <1>2. NewWorkspace(option, FALSE) \in Workspace
    BY <1>1 DEF NewWorkspace, Workspace, States
  <1>3. NewStatefulSet(option, 0) \in StatefulSet
    BY <1>1 DEF NewStatefulSet, StatefulSet, Revisions
  <1>4. NoPod(option) \in Pod
    BY <1>1 DEF NoPod, Pod, Conditions
  <1> HIDE DEF option
  <1>5. QED
    BY <1>2, <1>3, <1>4 DEF Idle, option, Reconcile, Steps, States

\* generateWorkspaceState returns a state, and generateWorkspaceStatus a
\* Workspace with the spec it was given.
LEMMA StatusType ==
    ASSUME NEW ws \in Workspace, NEW sts \in StatefulSet, NEW pod \in Pod,
           NEW warned \in SUBSET Nat
    PROVE  /\ generateWorkspaceState(ws.paused, sts, pod, warned).state \in States
           /\ generateWorkspaceState(ws.paused, sts, pod, warned).requeue \in BOOLEAN
           /\ generateWorkspaceStatus(ws, sts, pod, warned) \in Workspace
  <1>1. generateWorkspaceState(ws.paused, sts, pod, warned).state \in States
    BY DEF generateWorkspaceState, PodState, Report, States
  <1>2. generateWorkspaceState(ws.paused, sts, pod, warned).requeue \in BOOLEAN
    BY DEF generateWorkspaceState, PodState, Report
  <1>3. {StsUID} \cup (IF pod.exists THEN {pod.uid} ELSE {}) \in SUBSET Nat
    BY DEF Pod, StsUID
  <1>4. QED
    BY <1>1, <1>2, <1>3 DEF generateWorkspaceStatus, Workspace

\* The initial state is well-formed.
LEMMA InitType == Init => TypeOK
  <1> SUFFICES ASSUME NEW option \in Options, NEW paused \in BOOLEAN,
                      NEW replicas \in {0, 1},
                      workspaces = <<NewWorkspace(option, paused)>>,
                      statefulSets = <<NewStatefulSet(option, replicas)>>,
                      pods = <<NoPod(option)>>, events = {}, queued = TRUE, r = Idle,
                      stsView = [template |-> option, replicas |-> 0, generation |-> 0],
                      spent = [edits |-> 0, mishaps |-> 0]
               PROVE  TypeOK
    BY DEF Init, generateStatefulSet
  <1>1. NewWorkspace(option, paused) \in Workspace
    BY DEF NewWorkspace, Workspace, States
  <1>3. NewStatefulSet(option, replicas) \in StatefulSet
    BY DEF NewStatefulSet, StatefulSet, Revisions
  <1>4. NoPod(option) \in Pod
    BY DEF NoPod, Pod, Conditions
  <1>5. workspaces \in Versions(Workspace) /\ statefulSets \in Versions(StatefulSet)
        /\ pods \in Versions(Pod)
    BY <1>1, <1>3, <1>4 DEF Versions
  <1>6. QED
    BY <1>5, IdleType, BoundsAssumption DEF TypeOK, View

\* A reconcile that returns leaves well-formed locals and a Boolean `queued`.
LEMMA ReturnType ==
    ASSUME TypeOK, NEW requeue \in BOOLEAN, Return(requeue)
    PROVE  r' \in Reconcile /\ queued' \in BOOLEAN
  BY IdleType DEF Return, TypeOK

\* So does one that goes on to updateWorkspaceState.
LEMMA ReturnStateType ==
    ASSUME TypeOK, NEW state \in States, NEW requeue \in BOOLEAN,
           ReturnState(state, requeue)
    PROVE  /\ r' \in Reconcile /\ queued' \in BOOLEAN
           /\ r'.step = "state" /\ r'.ws = r.ws /\ r'.fresh = r.fresh
           /\ r'.next = state
  BY IdleType DEF ReturnState, TypeOK, Reconcile, Steps

\* The bound on mishaps is kept.
LEMMA MishapType ==
    ASSUME TypeOK, Mishap
    PROVE  spent' \in [edits : 0 .. MaxEdits, mishaps : 0 .. MaxMishaps]
  BY BoundsAssumption DEF Mishap, TypeOK

\* Status().Update, in all its outcomes, keeps the types of what it changes.
LEMMA UpdateType ==
    ASSUME TypeOK, NEW new \in Workspace, NEW requeue \in BOOLEAN,
           UpdateWorkspaceStatus(new, requeue)
    PROVE  /\ workspaces' \in Versions(Workspace)
           /\ r' \in Reconcile /\ queued' \in BOOLEAN
           /\ spent' \in [edits : 0 .. MaxEdits, mishaps : 0 .. MaxMishaps]
  <1>1. workspaces \in Versions(Workspace)
    BY DEF TypeOK
  <1> DEFINE written == [Ws EXCEPT !.state = new.state, !.owned = new.owned]
  <1>2. Put(workspaces, written) \in Versions(Workspace)
    <2>1. Ws \in Workspace
      BY <1>1, ReadType DEF Ws
    <2>2. written \in Workspace
      BY <2>1 DEF Workspace
    <2>3. QED
      BY <1>1, <2>2, PutFacts
  <1>3. \E b \in BOOLEAN : Return(b)
    BY DEF UpdateWorkspaceStatus
  <1>4. UNCHANGED spent \/ Mishap
    BY DEF UpdateWorkspaceStatus
  <1>5. workspaces' = workspaces \/ workspaces' = Put(workspaces, written)
    BY DEF UpdateWorkspaceStatus, PutStatus
  <1>6. r' \in Reconcile /\ queued' \in BOOLEAN
    BY <1>3, ReturnType
  <1>7. spent' \in [edits : 0 .. MaxEdits, mishaps : 0 .. MaxMishaps]
    BY <1>4, MishapType DEF TypeOK
  <1>8. QED
    BY <1>1, <1>2, <1>5, <1>6, <1>7

\* Every action keeps every variable in its type.
LEMMA TypeStep == TypeOK /\ [Next]_vars => TypeOK'
  <1> SUFFICES ASSUME TypeOK, [Next]_vars
               PROVE  TypeOK'
    OBVIOUS
  <1> DEFINE Spent == [edits : 0 .. MaxEdits, mishaps : 0 .. MaxMishaps]
  <1>1. /\ workspaces \in Versions(Workspace) /\ statefulSets \in Versions(StatefulSet)
        /\ pods \in Versions(Pod) /\ r \in Reconcile /\ stsView \in View
        /\ events \in SUBSET Nat /\ queued \in BOOLEAN /\ spent \in Spent
    BY DEF TypeOK
  <1>2. /\ Ws \in Workspace /\ Sts \in StatefulSet /\ ThePod \in Pod
        /\ Cached(workspaces) \in Workspace /\ Cached(statefulSets) \in StatefulSet
        /\ Cached(pods) \in Pod
    BY <1>1, ReadType DEF Ws, Sts, ThePod
  <1>3. /\ r.ws \in Workspace /\ r.sts \in StatefulSet /\ r.pod \in Pod
        /\ r.next \in States /\ r.requeue \in BOOLEAN /\ r.fresh \in BOOLEAN
    BY <1>1 DEF Reconcile
  <1>4. ASSUME NEW v \in Workspace PROVE Put(workspaces, v) \in Versions(Workspace)
    BY <1>1, PutFacts
  <1>5. ASSUME NEW v \in StatefulSet PROVE Put(statefulSets, v) \in Versions(StatefulSet)
    BY <1>1, PutFacts
  <1>6. ASSUME NEW v \in Pod PROVE Put(pods, v) \in Versions(Pod)
    BY <1>1, PutFacts
  <1>7. Mishap => spent' \in Spent
    BY MishapType
  <1>8. ASSUME MarkDeleted PROVE pods' \in Versions(Pod)
    <2>1. [ThePod EXCEPT !.deleting = TRUE] \in Pod
      BY <1>2 DEF Pod
    <2>2. QED
      BY <1>8, <2>1, <1>6 DEF MarkDeleted
  <1> HIDE DEF Spent
  <1>10. CASE Begin
    <2>1. r' \in Reconcile
      <3>1. Current(workspaces) \in BOOLEAN
        BY DEF Current
      <3>2. QED
        BY <1>10, <1>1, <1>2, <3>1 DEF Begin, Reconcile, Steps
    <2>2. QED
      BY <1>10, <1>1, <2>1 DEF Begin, TypeOK, Spent
  <1>11. CASE ReconcileStatefulSet
    <2> DEFINE found == Cached(statefulSets)
               desired == CopyStatefulSetFields(generateStatefulSet(r.ws), found)
               updated == [desired EXCEPT !.generation = @ + 1]
    <2>1. desired \in StatefulSet
      <3>1. /\ generateStatefulSet(r.ws).replicas \in {0, 1}
            /\ generateStatefulSet(r.ws).template \in Options
        BY <1>3 DEF generateStatefulSet, Workspace
      <3>2. QED
        BY <3>1, <1>2 DEF CopyStatefulSetFields, StatefulSet
    <2> HIDE DEF desired
    <2>2. updated \in StatefulSet
      BY <2>1 DEF StatefulSet
    <2> HIDE DEF updated
    <2>3. /\ [r EXCEPT !.step = "pod", !.sts = found] \in Reconcile
          /\ [r EXCEPT !.step = "pod", !.sts = updated] \in Reconcile
      BY <1>1, <1>2, <2>2 DEF Reconcile, Steps
    <2>4. statefulSets' = statefulSets \/ statefulSets' = Put(statefulSets, updated)
      BY <1>11 DEF ReconcileStatefulSet, desired, updated
    <2>5. \/ r' = [r EXCEPT !.step = "pod", !.sts = found] /\ UNCHANGED queued
          \/ r' = [r EXCEPT !.step = "pod", !.sts = updated] /\ UNCHANGED queued
          \/ Return(TRUE)
          \/ ReturnState("Error", TRUE)
      BY <1>11 DEF ReconcileStatefulSet, desired, updated
    <2>6. r' \in Reconcile /\ queued' \in BOOLEAN
      BY <2>3, <2>5, <1>1, ReturnType, ReturnStateType DEF States
    <2>7. UNCHANGED spent \/ Mishap
      BY <1>11 DEF ReconcileStatefulSet
    <2>8. UNCHANGED <<workspaces, pods, events, stsView>>
      BY <1>11 DEF ReconcileStatefulSet
    <2>9. statefulSets' \in Versions(StatefulSet) /\ spent' \in Spent
      BY <2>2, <2>4, <2>7, <1>1, <1>5, <1>7
    <2>10. QED
      BY <1>1, <2>6, <2>8, <2>9 DEF TypeOK, Spent
  <1>12. CASE ReconcilePod
    <2>1. pods' = pods \/ MarkDeleted
      BY <1>12 DEF ReconcilePod
    <2>2. \/ r' = [r EXCEPT !.step = "status", !.pod = Cached(pods)] /\ UNCHANGED queued
          \/ ReturnState("Terminating", TRUE)
          \/ ReturnState("Error", TRUE)
          \/ Return(TRUE)
      BY <1>12 DEF ReconcilePod
    <2>3. [r EXCEPT !.step = "status", !.pod = Cached(pods)] \in Reconcile
      BY <1>1, <1>2 DEF Reconcile, Steps
    <2>4. r' \in Reconcile /\ queued' \in BOOLEAN
      BY <2>2, <2>3, <1>1, ReturnType, ReturnStateType DEF States
    <2>5. UNCHANGED spent \/ Mishap
      BY <1>12 DEF ReconcilePod
    <2>6. UNCHANGED <<workspaces, statefulSets, events, stsView>>
      BY <1>12 DEF ReconcilePod
    <2>7. QED
      BY <1>1, <1>7, <1>8, <2>1, <2>4, <2>5, <2>6 DEF TypeOK, Spent
  <1>13. CASE UpdateStatus
    <2> DEFINE new == generateWorkspaceStatus(r.ws, r.sts, r.pod, events)
               requeue == generateWorkspaceState(r.ws.paused, r.sts, r.pod, events).requeue
    <2>1. new \in Workspace /\ requeue \in BOOLEAN
      BY <1>1, <1>3, StatusType
    <2>2. /\ \/ Return(requeue) /\ UNCHANGED workspaces /\ UNCHANGED spent
             \/ UpdateWorkspaceStatus(new, requeue)
             \/ Mishap /\ ReturnState("Error", TRUE) /\ UNCHANGED workspaces
          /\ UNCHANGED <<statefulSets, pods, events, stsView>>
      BY <1>13 DEF UpdateStatus
    <2> HIDE DEF new, requeue
    <2>3. /\ workspaces' \in Versions(Workspace) /\ r' \in Reconcile
          /\ queued' \in BOOLEAN /\ spent' \in Spent
      <3>1. CASE Return(requeue) /\ UNCHANGED workspaces /\ UNCHANGED spent
        BY <1>1, <2>1, <3>1, ReturnType DEF Spent
      <3>2. CASE UpdateWorkspaceStatus(new, requeue)
        BY <2>1, <3>2, UpdateType DEF Spent
      <3>3. CASE Mishap /\ ReturnState("Error", TRUE) /\ UNCHANGED workspaces
        BY <1>1, <3>3, MishapType, ReturnStateType DEF Spent, States
      <3>4. QED
        BY <2>2, <3>1, <3>2, <3>3
    <2>4. QED
      BY <1>1, <2>2, <2>3 DEF TypeOK, Spent
  <1>14. CASE updateWorkspaceState
    <2>1. [r.ws EXCEPT !.state = r.next] \in Workspace
      BY <1>3 DEF Workspace
    <2>2. /\ \/ Return(r.requeue) /\ UNCHANGED workspaces /\ UNCHANGED spent
             \/ UpdateWorkspaceStatus([r.ws EXCEPT !.state = r.next], r.requeue)
          /\ UNCHANGED <<statefulSets, pods, events, stsView>>
      BY <1>14 DEF updateWorkspaceState
    <2>3. /\ workspaces' \in Versions(Workspace) /\ r' \in Reconcile
          /\ queued' \in BOOLEAN /\ spent' \in Spent
      BY <1>1, <1>3, <2>1, <2>2, ReturnType, UpdateType DEF Spent
    <2>4. QED
      BY <1>1, <2>2, <2>3 DEF TypeOK, Spent
  <1>15. CASE Crash
    <2>1. /\ workspaces' \in Versions(Workspace) /\ pods' \in Versions(Pod)
          /\ statefulSets' \in Versions(StatefulSet)
      BY <1>1, <1>15, RelistedFacts DEF Crash
    <2>2. QED
      BY <1>1, <1>7, <1>15, <2>1, IdleType DEF Crash, TypeOK, Spent
  <1>16. CASE QueueNext
    <2>1. /\ Behind(workspaces) => Tail(workspaces) \in Versions(Workspace)
          /\ Behind(statefulSets) => Tail(statefulSets) \in Versions(StatefulSet)
          /\ Behind(pods) => Tail(pods) \in Versions(Pod)
      BY <1>1, TailFacts
    <2>2. QED
      BY <1>1, <1>16, <2>1
      DEF QueueNext, ServedAgain, WatchWorkspace, WatchStatefulSet, WatchPod, TypeOK, Spent
  <1>17. CASE UserNext
    <2>1. Edit
      BY <1>17 DEF UserNext, SelectOption, SetPaused
    <2>2. r' \in Reconcile
      BY <1>1, <2>1 DEF Edit, Reconcile
    <2>3. spent' \in Spent
      BY <1>1, <2>1, BoundsAssumption DEF Edit, Spent
    <2>4. workspaces' \in Versions(Workspace)
      <3>1. ASSUME NEW option \in Options
            PROVE  [Ws EXCEPT !.option = option] \in Workspace
        BY <1>2 DEF Workspace
      <3>2. ASSUME NEW paused \in BOOLEAN
            PROVE  [Ws EXCEPT !.paused = paused] \in Workspace
        BY <1>2 DEF Workspace
      <3>3. QED
        BY <1>17, <1>4, <3>1, <3>2 DEF UserNext, SelectOption, SetPaused
    <2>5. QED
      BY <1>1, <2>1, <2>2, <2>3, <2>4 DEF Edit, TypeOK, Spent
  <1>18. CASE ClusterNext
    <2>1. CASE StsSync
      BY <1>1, <1>2, <2>1 DEF StsSync, View, StatefulSet, TypeOK, Spent
    <2>2. CASE StsCreatePod
      <3>1. NextUID(ThePod.uid) \in Nat
        BY <1>2 DEF NextUID, Pod
      <3>2. [exists |-> TRUE, uid |-> NextUID(ThePod.uid), rev |-> stsView.template,
             cond |-> "Pending", deleting |-> FALSE] \in Pod
        BY <1>1, <3>1 DEF Pod, View, Conditions
      <3>3. QED
        BY <1>1, <1>6, <2>2, <3>2 DEF StsCreatePod, TypeOK, Spent
    <2>3. CASE StsDeletePod
      BY <1>1, <1>8, <2>3 DEF StsDeletePod, TypeOK, Spent
    <2>4. CASE StsUpdateStatus
      <3>1. [Sts EXCEPT !.observedGeneration = stsView.generation,
                        !.updateRevision = stsView.template] \in StatefulSet
        BY <1>1, <1>2 DEF View, StatefulSet, Revisions
      <3>2. QED
        BY <1>1, <1>5, <2>4, <3>1 DEF StsUpdateStatus, TypeOK, Spent
    <2>5. ASSUME NEW cond \in Conditions, SetCondition(cond)
          PROVE  /\ pods' \in Versions(Pod)
                 /\ UNCHANGED <<workspaces, statefulSets, events, queued, r, stsView>>
      <3>1. [ThePod EXCEPT !.cond = cond] \in Pod
        BY <1>2 DEF Pod
      <3>2. QED
        BY <2>5, <3>1, <1>6 DEF SetCondition
    <2>6. CASE PodReady
      <3>1. "Ready" \in Conditions
        BY DEF Conditions
      <3>2. QED
        BY <1>1, <2>5, <2>6, <3>1 DEF PodReady, TypeOK, Spent
    <2>7. CASE PodRemoved
      <3>1. [ThePod EXCEPT !.exists = FALSE] \in Pod
        BY <1>2 DEF Pod
      <3>2. QED
        BY <1>1, <1>6, <2>7, <3>1 DEF PodRemoved, TypeOK, Spent
    <2>8. CASE \E cond \in Conditions : PodDisturbed(cond)
      BY <1>1, <1>7, <2>5, <2>8 DEF PodDisturbed, TypeOK, Spent
    <2>9. CASE \E uid \in {StsUID, ThePod.uid} : WarningEvent(uid)
      <3>1. StsUID \in Nat /\ ThePod.uid \in Nat
        BY <1>2 DEF StsUID, Pod
      <3>2. PICK uid \in {StsUID, ThePod.uid} : WarningEvent(uid)
        BY <2>9
      <3>3. events' \in SUBSET Nat
        BY <1>1, <3>1, <3>2 DEF WarningEvent
      <3>4. queued' \in BOOLEAN
        BY <3>2 DEF WarningEvent
      <3>5. QED
        BY <1>1, <1>7, <3>2, <3>3, <3>4 DEF WarningEvent, TypeOK, Spent
    <2>10. CASE \E uid \in events : EventExpires(uid)
      BY <1>1, <2>10 DEF EventExpires, TypeOK, Spent
    <2>11. QED
      BY <1>18, <2>1, <2>2, <2>3, <2>4, <2>6, <2>7, <2>8, <2>9, <2>10 DEF ClusterNext
  <1>19. CASE UNCHANGED vars
    BY <1>1, <1>19 DEF vars, TypeOK, Spent
  <1>20. QED
    BY <1>10, <1>11, <1>12, <1>13, <1>14, <1>15, <1>16, <1>17, <1>18, <1>19
    DEF Next, ReconcileNext

\* Type correctness of the controller, its caches and its locals: every
\* behaviour of Reconcile and its surroundings stays within the types.
THEOREM TypeCorrect == Spec => []TypeOK
  <1>1. QED
    BY InitType, TypeStep, PTL DEF Spec
-----------------------------------------------------------------------------
(***************************************************************************)
(* The inductive invariant.  What Reconcile may conclude from the          *)
(* StatefulSet's status rests on facts about versions it does not read:    *)
(* the ones under way, and the StatefulSet controller's own view.          *)
(***************************************************************************)
\* A StatefulSet whose status has caught up reports the revision of its spec.
Coherent(sts) ==
    /\ sts.observedGeneration <= sts.generation
    /\ sts.observedGeneration = sts.generation => sts.updateRevision = sts.template

\* That is so in the cache, in every watch event and in the API server.
VersionsCoherent == \A i \in 1 .. Len(statefulSets) : Coherent(statefulSets[i])

\* The StatefulSet controller is never ahead, and what it knows of the current
\* generation is right.
ViewCoherent ==
    /\ stsView.generation <= Sts.generation
    /\ stsView.generation = Sts.generation => stsView.template = Sts.template

\* The StatefulSet in the reconcile's hands was generated from the Workspace
\* in its hands.
LocalsCoherent ==
    r.step \in {"pod", "status"} => r.sts.template = r.ws.option /\ Coherent(r.sts)

\* A Workspace with the stored resourceVersion is the stored Workspace.
FreshRead == r.fresh => r.ws = Ws

\* The early returns report Error or Terminating.
EarlyReport == r.step = "state" => r.next # "Running"

RolloutInv ==
    /\ VersionsCoherent
    /\ ViewCoherent
    /\ LocalsCoherent
    /\ FreshRead
    /\ EarlyReport

\* The facts about stored and cached StatefulSets that the actions use.
LEMMA CoherentReads ==
    ASSUME TypeOK, VersionsCoherent
    PROVE  Coherent(Sts) /\ Coherent(Cached(statefulSets))
  BY DEF TypeOK, VersionsCoherent, Versions, Sts, Stored, Cached

\* Writing a coherent version keeps all versions coherent.
LEMMA CoherentPut ==
    ASSUME TypeOK, VersionsCoherent, NEW v \in StatefulSet, Coherent(v),
           statefulSets' = Put(statefulSets, v)
    PROVE  VersionsCoherent' /\ Sts' = v
  <1>1. statefulSets \in Versions(StatefulSet)
    BY DEF TypeOK
  <1>2. /\ Len(statefulSets') = Len(statefulSets) + 1
        /\ statefulSets'[Len(statefulSets) + 1] = v
        /\ \A i \in 1 .. Len(statefulSets) : statefulSets'[i] = statefulSets[i]
        /\ Stored(statefulSets') = v
    BY <1>1, PutFacts
  <1>3. Len(statefulSets) \in Nat
    BY <1>1 DEF Versions
  <1>4. ASSUME NEW i \in 1 .. Len(statefulSets) + 1
        PROVE  Coherent(statefulSets'[i])
    <2>1. CASE i = Len(statefulSets) + 1
      BY <1>2, <2>1
    <2>2. CASE i # Len(statefulSets) + 1
      <3>1. i \in 1 .. Len(statefulSets)
        BY <1>3, <2>2
      <3>2. QED
        BY <1>2, <3>1 DEF VersionsCoherent
    <2>3. QED
      BY <2>1, <2>2
  <1>5. QED
    BY <1>2, <1>4 DEF VersionsCoherent, Sts

\* Status().Update leaves an idle reconcile, and what it stores is `new` or
\* nothing.
LEMMA UpdateFacts ==
    ASSUME TypeOK, FreshRead, NEW new \in Workspace, NEW requeue \in BOOLEAN,
           new.option = r.ws.option, new.paused = r.ws.paused,
           UpdateWorkspaceStatus(new, requeue)
    PROVE  r' = Idle /\ (Ws' = Ws \/ (Ws' = new /\ r.fresh))
  <1> DEFINE written == [Ws EXCEPT !.state = new.state, !.owned = new.owned]
  <1>1. workspaces \in Versions(Workspace) /\ Ws \in Workspace
    BY ReadType DEF TypeOK, Ws
  <1>2. r' = Idle
    BY DEF UpdateWorkspaceStatus, Return
  <1>3. workspaces' = workspaces \/ (workspaces' = Put(workspaces, written) /\ r.fresh)
    BY DEF UpdateWorkspaceStatus, PutStatus
  <1>4. written \in Workspace
    BY <1>1 DEF Workspace
  <1>5. r.fresh => written = new
    BY <1>1 DEF FreshRead, Workspace
  <1>6. Stored(Put(workspaces, written)) = written
    BY <1>1, <1>4, PutFacts
  <1>7. QED
    BY <1>2, <1>3, <1>5, <1>6 DEF Ws

\* A reconcile that has ended claims nothing.
LEMMA IdleClaimsNothing ==
    ASSUME r' = Idle
    PROVE  LocalsCoherent' /\ FreshRead' /\ EarlyReport'
  BY IdleType DEF LocalsCoherent, FreshRead, EarlyReport

\* An action that leaves the StatefulSet, the reconcile and the stored
\* Workspace alone disturbs nothing.
LEMMA Undisturbed ==
    ASSUME RolloutInv, UNCHANGED <<statefulSets, stsView, r>>, Ws' = Ws
    PROVE  RolloutInv'
  BY DEF RolloutInv, VersionsCoherent, ViewCoherent, LocalsCoherent, FreshRead,
         EarlyReport, Sts, Coherent

\* The initial state satisfies the invariant.
LEMMA InitInv == Init => RolloutInv
  <1> SUFFICES ASSUME Init PROVE RolloutInv
    OBVIOUS
  <1>1. PICK option \in Options, replicas \in {0, 1} :
            /\ statefulSets = <<NewStatefulSet(option, replicas)>>
            /\ r = Idle
            /\ stsView = [template |-> option, replicas |-> 0, generation |-> 0]
    BY DEF Init, generateStatefulSet
  <1>2. Coherent(NewStatefulSet(option, replicas))
    BY DEF Coherent, NewStatefulSet
  <1>3. VersionsCoherent
    BY <1>1, <1>2 DEF VersionsCoherent
  <1>4. Sts = NewStatefulSet(option, replicas)
    BY <1>1 DEF Sts, Stored
  <1>5. ViewCoherent
    BY <1>1, <1>4 DEF ViewCoherent, NewStatefulSet
  <1>6. LocalsCoherent /\ FreshRead /\ EarlyReport
    BY <1>1, IdleType DEF LocalsCoherent, FreshRead, EarlyReport
  <1>7. QED
    BY <1>3, <1>5, <1>6 DEF RolloutInv

\* Every action keeps the invariant.
LEMMA InvStep == TypeOK /\ RolloutInv /\ [Next]_vars => RolloutInv'
  <1> SUFFICES ASSUME TypeOK, RolloutInv, [Next]_vars
               PROVE  RolloutInv'
    OBVIOUS
  <1>1. /\ workspaces \in Versions(Workspace) /\ statefulSets \in Versions(StatefulSet)
        /\ r \in Reconcile /\ stsView \in View
    BY DEF TypeOK
  <1>2. /\ Sts \in StatefulSet /\ Cached(statefulSets) \in StatefulSet
        /\ Ws \in Workspace /\ Cached(workspaces) \in Workspace
        /\ r.ws \in Workspace /\ r.sts \in StatefulSet
    BY <1>1, ReadType DEF Sts, Ws, Reconcile
  <1>3. VersionsCoherent /\ ViewCoherent /\ LocalsCoherent /\ FreshRead /\ EarlyReport
    BY DEF RolloutInv
  <1>4. Coherent(Sts) /\ Coherent(Cached(statefulSets))
    BY <1>3, CoherentReads
  <1>5. UNCHANGED <<statefulSets, stsView>> => VersionsCoherent' /\ ViewCoherent'
    BY <1>3 DEF VersionsCoherent, ViewCoherent, Sts, Coherent
  <1>6. UNCHANGED workspaces => Ws' = Ws
    BY DEF Ws
  <1>7. CASE Begin
    <2>1. UNCHANGED <<workspaces, statefulSets, stsView>>
      BY <1>7 DEF Begin
    <2>2. /\ r'.step = "statefulSet" /\ r'.ws = Cached(workspaces)
          /\ r'.fresh = Current(workspaces)
      BY <1>1, <1>7 DEF Begin, Reconcile
    <2>3. FreshRead'
      <3>1. Current(workspaces) => Cached(workspaces) = Ws
        BY <1>1, CurrentFacts DEF Ws
      <3>2. QED
        BY <2>1, <2>2, <3>1, <1>6 DEF FreshRead
    <2>4. LocalsCoherent' /\ EarlyReport'
      BY <2>2 DEF LocalsCoherent, EarlyReport
    <2>5. QED
      BY <1>5, <2>1, <2>3, <2>4 DEF RolloutInv
  <1>8. CASE ReconcileStatefulSet
    <2> DEFINE found == Cached(statefulSets)
               desired == CopyStatefulSetFields(generateStatefulSet(r.ws), found)
               updated == [desired EXCEPT !.generation = @ + 1]
    <2>1. desired \in StatefulSet /\ desired.template = r.ws.option
          /\ desired.generation = found.generation
          /\ desired.observedGeneration = found.observedGeneration
      <3>1. /\ generateStatefulSet(r.ws).replicas \in {0, 1}
            /\ generateStatefulSet(r.ws).template = r.ws.option /\ r.ws.option \in Options
        BY <1>2 DEF generateStatefulSet, Workspace
      <3>2. QED
        BY <3>1, <1>2 DEF CopyStatefulSetFields, StatefulSet
    <2> HIDE DEF desired
    <2>2. /\ updated \in StatefulSet /\ updated.template = r.ws.option
          /\ updated.generation = found.generation + 1
          /\ updated.observedGeneration = found.observedGeneration
      BY <2>1 DEF StatefulSet
    <2> HIDE DEF updated
    <2>3. Coherent(updated)
      BY <1>2, <1>4, <2>2 DEF Coherent, StatefulSet
    <2>4. UNCHANGED <<workspaces, stsView>>
      BY <1>8 DEF ReconcileStatefulSet
    <2>5. \/ statefulSets' = statefulSets
          \/ Current(statefulSets) /\ statefulSets' = Put(statefulSets, updated)
      BY <1>8 DEF ReconcileStatefulSet, desired, updated
    <2>6. VersionsCoherent' /\ ViewCoherent'
      <3>1. CASE statefulSets' = statefulSets
        BY <1>5, <2>4, <3>1
      <3>2. CASE Current(statefulSets) /\ statefulSets' = Put(statefulSets, updated)
        <4>1. VersionsCoherent' /\ Sts' = updated
          BY <1>3, <2>2, <2>3, <3>2, CoherentPut
        <4>2. found = Sts
          BY <1>1, <3>2, CurrentFacts DEF Sts
        <4>3. stsView.generation < Sts'.generation
          BY <1>1, <1>2, <1>3, <2>2, <4>1, <4>2 DEF ViewCoherent, StatefulSet, View
        <4>4. QED
          BY <1>1, <1>2, <2>2, <2>4, <4>1, <4>3 DEF ViewCoherent, StatefulSet, View
      <3>3. QED
        BY <2>5, <3>1, <3>2
    <2>7. \/ r' = [r EXCEPT !.step = "pod", !.sts = found] /\ desired = found
          \/ r' = [r EXCEPT !.step = "pod", !.sts = updated]
          \/ Return(TRUE)
          \/ ReturnState("Error", TRUE)
      BY <1>8 DEF ReconcileStatefulSet, desired, updated
    <2>8. LocalsCoherent' /\ FreshRead' /\ EarlyReport'
      <3>1. CASE r' = [r EXCEPT !.step = "pod", !.sts = found] /\ desired = found
        <4>1. /\ r'.step = "pod" /\ r'.sts = found /\ r'.ws = r.ws
              /\ r'.fresh = r.fresh
          BY <1>1, <3>1 DEF Reconcile
        <4>2. QED
          BY <1>3, <1>4, <1>6, <2>1, <2>4, <3>1, <4>1
          DEF LocalsCoherent, FreshRead, EarlyReport, Coherent
      <3>2. CASE r' = [r EXCEPT !.step = "pod", !.sts = updated]
        <4>1. /\ r'.step = "pod" /\ r'.sts = updated /\ r'.ws = r.ws
              /\ r'.fresh = r.fresh
          BY <1>1, <3>2 DEF Reconcile
        <4>2. QED
          BY <1>3, <1>6, <2>2, <2>3, <2>4, <4>1
          DEF LocalsCoherent, FreshRead, EarlyReport, Coherent
      <3>3. CASE Return(TRUE)
        BY <3>3, IdleClaimsNothing DEF Return
      <3>4. CASE ReturnState("Error", TRUE)
        <4>1. /\ r'.step = "state" /\ r'.ws = r.ws /\ r'.fresh = r.fresh
              /\ r'.next = "Error"
          BY <3>4, ReturnStateType DEF States
        <4>2. QED
          BY <1>3, <1>6, <2>4, <4>1 DEF LocalsCoherent, FreshRead, EarlyReport
      <3>5. QED
        BY <2>7, <3>1, <3>2, <3>3, <3>4
    <2>9. QED
      BY <2>6, <2>8 DEF RolloutInv
  <1>9. CASE ReconcilePod
    <2>1. UNCHANGED <<workspaces, statefulSets, stsView>>
      BY <1>9 DEF ReconcilePod
    <2>2. /\ r.step = "pod"
          /\ \/ r' = [r EXCEPT !.step = "status", !.pod = Cached(pods)]
             \/ ReturnState("Terminating", TRUE)
             \/ ReturnState("Error", TRUE)
             \/ Return(TRUE)
      BY <1>9 DEF ReconcilePod
    <2>3. CASE r' = [r EXCEPT !.step = "status", !.pod = Cached(pods)]
      <3>1. /\ r'.step = "status" /\ r'.sts = r.sts /\ r'.ws = r.ws
            /\ r'.fresh = r.fresh
        BY <1>1, <2>3 DEF Reconcile
      <3>2. QED
        BY <1>3, <1>5, <1>6, <2>1, <2>2, <3>1
        DEF LocalsCoherent, FreshRead, EarlyReport, Coherent, RolloutInv
    <2>4. CASE ReturnState("Terminating", TRUE) \/ ReturnState("Error", TRUE)
      <3>1. /\ r'.step = "state" /\ r'.ws = r.ws /\ r'.fresh = r.fresh
            /\ r'.next # "Running"
        BY <2>4, ReturnStateType DEF States
      <3>2. QED
        BY <1>3, <1>5, <1>6, <2>1, <3>1
        DEF LocalsCoherent, FreshRead, EarlyReport, RolloutInv
    <2>5. CASE Return(TRUE)
      BY <1>5, <2>1, <2>5, IdleClaimsNothing DEF Return, RolloutInv
    <2>6. QED
      BY <2>2, <2>3, <2>4, <2>5
  <1>10. CASE UpdateStatus \/ updateWorkspaceState
    <2>1. UNCHANGED <<statefulSets, stsView>>
      BY <1>10 DEF UpdateStatus, updateWorkspaceState
    <2>2. r' = Idle \/ (ReturnState("Error", TRUE) /\ UNCHANGED workspaces)
      BY <1>10 DEF UpdateStatus, updateWorkspaceState, UpdateWorkspaceStatus, Return
    <2>3. CASE r' = Idle
      BY <1>5, <2>1, <2>3, IdleClaimsNothing DEF RolloutInv
    <2>4. CASE ReturnState("Error", TRUE) /\ UNCHANGED workspaces
      <3>1. /\ r'.step = "state" /\ r'.ws = r.ws /\ r'.fresh = r.fresh
            /\ r'.next = "Error"
        BY <2>4, ReturnStateType DEF States
      <3>2. Ws' = Ws
        BY <2>4 DEF Ws
      <3>3. QED
        BY <1>3, <1>5, <2>1, <3>1, <3>2
        DEF LocalsCoherent, FreshRead, EarlyReport, RolloutInv
    <2>5. QED
      BY <2>2, <2>3, <2>4
  <1>11. CASE Crash
    <2>1. /\ Sts' = Sts /\ Len(statefulSets') = 1 /\ statefulSets'[1] = Sts
      BY <1>1, <1>11, RelistedFacts DEF Crash, Sts
    <2>2. VersionsCoherent'
      BY <1>4, <2>1 DEF VersionsCoherent
    <2>3. ViewCoherent'
      BY <1>3, <1>11, <2>1 DEF Crash, ViewCoherent
    <2>4. QED
      BY <1>11, <2>2, <2>3, IdleClaimsNothing DEF Crash, RolloutInv
  <1>12. CASE QueueNext
    <2>1. CASE ServedAgain \/ WatchPod
      BY <1>6, <2>1, Undisturbed DEF ServedAgain, WatchPod
    <2>2. CASE WatchWorkspace
      <3>1. Ws' = Ws
        BY <1>1, <2>2, TailFacts DEF WatchWorkspace, Ws
      <3>2. QED
        BY <2>2, <3>1, Undisturbed DEF WatchWorkspace
    <2>3. CASE WatchStatefulSet
      <3>1. /\ Sts' = Sts /\ Len(statefulSets') = Len(statefulSets) - 1
            /\ \A i \in 1 .. Len(statefulSets) - 1 : statefulSets'[i] = statefulSets[i + 1]
        BY <1>1, <2>3, TailFacts DEF WatchStatefulSet, Sts
      <3>2. Len(statefulSets) \in Nat
        BY <1>1 DEF Versions
      <3>3. ASSUME NEW i \in 1 .. Len(statefulSets')
            PROVE  Coherent(statefulSets'[i])
        <4>1. i \in 1 .. Len(statefulSets) - 1 /\ i + 1 \in 1 .. Len(statefulSets)
          BY <3>1, <3>2
        <4>2. QED
          BY <1>3, <3>1, <4>1 DEF VersionsCoherent
      <3>4. VersionsCoherent'
        BY <3>3 DEF VersionsCoherent
      <3>5. QED
        BY <1>3, <1>6, <2>3, <3>1, <3>4
        DEF WatchStatefulSet, ViewCoherent, LocalsCoherent, FreshRead, EarlyReport,
            Coherent, RolloutInv
    <2>4. QED
      BY <1>12, <2>1, <2>2, <2>3 DEF QueueNext
  <1>13. CASE UserNext
    <2>1. Edit
      BY <1>13 DEF UserNext, SelectOption, SetPaused
    <2>2. /\ r'.step = r.step /\ r'.sts = r.sts /\ r'.ws = r.ws /\ r'.next = r.next
          /\ ~r'.fresh
      BY <1>1, <2>1 DEF Edit, Reconcile
    <2>3. UNCHANGED <<statefulSets, stsView>>
      BY <2>1 DEF Edit
    <2>4. QED
      BY <1>3, <1>5, <2>2, <2>3
      DEF LocalsCoherent, FreshRead, EarlyReport, Coherent, RolloutInv
  <1>14. CASE ClusterNext
    <2>1. CASE StsSync
      <3>1. stsView'.generation = Sts.generation /\ stsView'.template = Sts.template
        BY <2>1 DEF StsSync
      <3>2. Sts' = Sts /\ VersionsCoherent'
        BY <1>3, <2>1 DEF StsSync, Sts, VersionsCoherent, Coherent
      <3>3. ViewCoherent'
        BY <1>2, <3>1, <3>2 DEF ViewCoherent, StatefulSet
      <3>4. QED
        BY <1>3, <1>6, <2>1, <3>2, <3>3
        DEF StsSync, LocalsCoherent, FreshRead, EarlyReport, Coherent, RolloutInv
    <2>2. CASE StsUpdateStatus
      <3> DEFINE synced == [Sts EXCEPT !.observedGeneration = stsView.generation,
                                       !.updateRevision = stsView.template]
      <3>1. /\ synced \in StatefulSet
            /\ synced.template = Sts.template /\ synced.generation = Sts.generation
            /\ synced.observedGeneration = stsView.generation
            /\ synced.updateRevision = stsView.template
        BY <1>1, <1>2 DEF StatefulSet, View, Revisions
      <3>2. statefulSets' = Put(statefulSets, synced)
        BY <2>2 DEF StsUpdateStatus
      <3> HIDE DEF synced
      <3>3. Coherent(synced)
        BY <1>3, <3>1 DEF Coherent, ViewCoherent
      <3>4. VersionsCoherent' /\ Sts' = synced
        BY <1>3, <3>1, <3>2, <3>3, CoherentPut
      <3>5. ViewCoherent'
        BY <1>3, <2>2, <3>1, <3>4 DEF StsUpdateStatus, ViewCoherent
      <3>6. QED
        BY <1>3, <1>6, <2>2, <3>4, <3>5
        DEF StsUpdateStatus, LocalsCoherent, FreshRead, EarlyReport, Coherent, RolloutInv
    <2>3. CASE ~StsSync /\ ~StsUpdateStatus
      <3>1. UNCHANGED <<statefulSets, stsView, r>> /\ UNCHANGED workspaces
        BY <1>14, <2>3
        DEF ClusterNext, StsCreatePod, StsDeletePod, PodReady, PodDisturbed, SetCondition,
            PodRemoved, WarningEvent, EventExpires
      <3>2. QED
        BY <1>6, <3>1, Undisturbed
    <2>4. QED
      BY <2>1, <2>2, <2>3
  <1>15. CASE UNCHANGED vars
    BY <1>6, <1>15, Undisturbed DEF vars
  <1>16. QED
    BY <1>7, <1>8, <1>9, <1>10, <1>11, <1>12, <1>13, <1>14, <1>15
    DEF Next, ReconcileNext

\* What the StatefulSet's status and the reconcile's locals may be relied on
\* for holds throughout, however far the caches lag.
THEOREM RolloutInvariant == Spec => []RolloutInv
  <1>1. QED
    BY TypeCorrect, InitInv, InvStep, PTL DEF Spec
-----------------------------------------------------------------------------
(***************************************************************************)
(* What the invariant is for.                                              *)
(***************************************************************************)
\* The Delete call of the rollout step hits only a Pod of another option than
\* the one this reconcile read.
LEMMA DeleteStep ==
    ASSUME TypeOK, RolloutInv, [Next]_vars,
           r.step = "pod", r'.step = "state", pods' # pods
    PROVE  ThePod.rev # r.ws.option
  <1>1. r \in Reconcile /\ pods \in Versions(Pod)
    BY DEF TypeOK
  <1>2. ReconcilePod
    <2>1. ~(UNCHANGED r)
      OBVIOUS
    <2>2. r' # Idle
      BY IdleType
    <2>3. ~(ReconcileStatefulSet \/ Begin \/ UpdateStatus \/ updateWorkspaceState \/ Crash)
      BY <2>2 DEF ReconcileStatefulSet, Begin, UpdateStatus, updateWorkspaceState, Crash
    <2>4. ~QueueNext
      BY <2>1 DEF QueueNext, ServedAgain, WatchWorkspace, WatchStatefulSet, WatchPod
    <2>5. ~UserNext
      BY DEF UserNext, SelectOption, SetPaused, Edit
    <2>6. ~ClusterNext
      BY <2>1 DEF ClusterNext, StsSync, StsUpdateStatus, StsCreatePod, StsDeletePod, PodReady,
             PodDisturbed, SetCondition, PodRemoved, WarningEvent, EventExpires
    <2>7. QED
      BY <2>1, <2>3, <2>4, <2>5, <2>6 DEF Next, ReconcileNext, vars
  <1>3. PendingRevision(r.sts, Cached(pods)) /\ DeletePreconditions(Cached(pods))
    BY <1>2 DEF ReconcilePod
  <1>4. Cached(pods) = ThePod
    BY <1>1, <1>3, CurrentFacts DEF DeletePreconditions, ThePod
  <1>5. r.sts.updateRevision = r.ws.option
    BY <1>3 DEF PendingRevision, RolloutInv, LocalsCoherent, Coherent
  <1>6. QED
    BY <1>3, <1>4, <1>5 DEF PendingRevision

\* The Delete call of Reconcile's rollout step never hits a Pod that already
\* has the option the reconcile read, for any number of options, edits,
\* mishaps and watch events under way.
THEOREM DeletesOnlyOutdated == Spec => DeletesOnlyOutdatedPod
  <1>1. TypeOK /\ RolloutInv /\ [Next]_vars
          => [r.step = "pod" /\ r'.step = "state" /\ pods' # pods
                => ThePod.rev # r.ws.option]_vars
    BY DeleteStep
  <1>2. QED
    BY <1>1, TypeCorrect, RolloutInvariant, PTL DEF Spec, DeletesOnlyOutdatedPod

\* generateWorkspaceState says Running only of a Pod that exists, is not being
\* deleted and is of a revision that is up to date.
LEMMA RunningState ==
    ASSUME NEW paused, NEW sts, NEW pod, NEW warned,
           generateWorkspaceState(paused, sts, pod, warned).state = "Running"
    PROVE  /\ sts.generation = sts.observedGeneration
           /\ pod.exists /\ ~pod.deleting /\ pod.rev = sts.updateRevision
  BY DEF generateWorkspaceState, PodState, Report

\* Only UpdateStatus makes the stored state Running, and what it stores then is
\* true of the Pod it saw.
LEMMA RunningStep ==
    ASSUME TypeOK, RolloutInv, [Next]_vars,
           Ws.state # "Running", Ws'.state = "Running"
    PROVE  r.pod.rev = Ws'.option /\ r.pod.exists /\ ~r.pod.deleting
  <1>1. /\ workspaces \in Versions(Workspace) /\ r \in Reconcile
        /\ events \in SUBSET Nat
    BY DEF TypeOK
  <1>2. /\ r.ws \in Workspace /\ r.sts \in StatefulSet /\ r.pod \in Pod
        /\ r.requeue \in BOOLEAN /\ r.next \in States /\ Ws \in Workspace
    BY <1>1, ReadType DEF Reconcile, Ws
  <1>3. LocalsCoherent /\ FreshRead /\ EarlyReport
    BY DEF RolloutInv
  <1>4. ~(UNCHANGED workspaces)
    BY DEF Ws
  <1>5. CASE UpdateStatus
    <2> DEFINE new == generateWorkspaceStatus(r.ws, r.sts, r.pod, events)
               report == generateWorkspaceState(r.ws.paused, r.sts, r.pod, events)
               owned == {StsUID} \cup (IF r.pod.exists THEN {r.pod.uid} ELSE {})
    <2>1. new \in Workspace /\ report.requeue \in BOOLEAN
      BY <1>1, <1>2, StatusType
    <2>2. r.step = "status" /\ UpdateWorkspaceStatus(new, report.requeue)
      BY <1>4, <1>5 DEF UpdateStatus
    <2>3. new = [r.ws EXCEPT !.state = report.state, !.owned = owned]
      BY DEF generateWorkspaceStatus
    <2> HIDE DEF report, owned
    <2>4. /\ new.option = r.ws.option /\ new.paused = r.ws.paused
          /\ new.state = report.state
      BY <1>2, <2>3 DEF Workspace
    <2> HIDE DEF new
    <2>5. Ws' = new
      BY <1>3, <2>1, <2>2, <2>4, UpdateFacts
    <2>6. report.state = "Running"
      BY <2>4, <2>5
    <2>7. /\ r.sts.generation = r.sts.observedGeneration
          /\ r.pod.exists /\ ~r.pod.deleting /\ r.pod.rev = r.sts.updateRevision
      BY <2>6, RunningState DEF report
    <2>8. r.sts.updateRevision = r.ws.option
      BY <1>3, <2>2, <2>7 DEF LocalsCoherent, Coherent
    <2>9. QED
      BY <2>4, <2>5, <2>7, <2>8
  <1>6. CASE updateWorkspaceState
    <2> DEFINE new == [r.ws EXCEPT !.state = r.next]
    <2>1. /\ new \in Workspace /\ new.option = r.ws.option /\ new.paused = r.ws.paused
          /\ new.state = r.next
      BY <1>2 DEF Workspace
    <2>2. r.step = "state" /\ UpdateWorkspaceStatus(new, r.requeue)
      BY <1>4, <1>6 DEF updateWorkspaceState
    <2> HIDE DEF new
    <2>3. Ws' = new
      BY <1>2, <1>3, <2>1, <2>2, UpdateFacts
    <2>4. QED
      BY <1>3, <2>1, <2>2, <2>3 DEF EarlyReport
  <1>7. CASE Crash \/ WatchWorkspace
    <2>1. Ws' = Ws
      BY <1>1, <1>7, RelistedFacts, TailFacts DEF Crash, WatchWorkspace, Ws
    <2>2. QED
      BY <2>1
  <1>8. CASE UserNext
    <2>1. PICK option \in Options, paused \in BOOLEAN :
            \/ workspaces' = Put(workspaces, [Ws EXCEPT !.option = option])
            \/ workspaces' = Put(workspaces, [Ws EXCEPT !.paused = paused])
      BY <1>2, <1>8 DEF UserNext, SelectOption, SetPaused, Workspace
    <2>2. /\ [Ws EXCEPT !.option = option] \in Workspace
          /\ [Ws EXCEPT !.paused = paused] \in Workspace
      BY <1>2 DEF Workspace
    <2>3. \/ Ws' = [Ws EXCEPT !.option = option]
          \/ Ws' = [Ws EXCEPT !.paused = paused]
      BY <1>1, <2>1, <2>2, PutFacts DEF Ws
    <2>4. Ws'.state = Ws.state
      BY <1>2, <2>3 DEF Workspace
    <2>5. QED
      BY <2>4
  <1>9. QED
    <2>1. ~(Begin \/ ReconcileStatefulSet \/ ReconcilePod)
      BY <1>4 DEF Begin, ReconcileStatefulSet, ReconcilePod
    <2>2. ~(ServedAgain \/ WatchStatefulSet \/ WatchPod)
      BY <1>4 DEF ServedAgain, WatchStatefulSet, WatchPod
    <2>3. ~ClusterNext
      BY <1>4 DEF ClusterNext, StsSync, StsUpdateStatus, StsCreatePod, StsDeletePod, PodReady,
             PodDisturbed, SetCondition, PodRemoved, WarningEvent, EventExpires
    <2>4. ~(UNCHANGED vars)
      BY <1>4 DEF vars
    <2>5. QED
      BY <1>5, <1>6, <1>7, <1>8, <2>1, <2>2, <2>3, <2>4 DEF Next, ReconcileNext, QueueNext

\* When status.state becomes Running, the Pod the controller saw exists, is not
\* being deleted and is of the option the stored spec has at that moment.
THEOREM RunningReportsCurrent == Spec => RunningReportsCurrentPod
  <1>1. TypeOK /\ RolloutInv /\ [Next]_vars
          => [Ws.state # "Running" /\ Ws'.state = "Running"
                => r.pod.rev = Ws'.option /\ r.pod.exists /\ ~r.pod.deleting]_vars
    BY RunningStep
  <1>2. QED
    BY <1>1, TypeCorrect, RolloutInvariant, PTL DEF Spec, RunningReportsCurrentPod
=============================================================================
