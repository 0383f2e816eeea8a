------------------------ MODULE KindProtectionProofs ------------------------
(***************************************************************************)
(* Proofs about KindProtection, for any Workspaces, options and bounds.    *)
(***************************************************************************)
EXTENDS KindProtection, InformerProofs, FiniteSetTheorems

-----------------------------------------------------------------------------
(***************************************************************************)
(* Types.                                                                  *)
(***************************************************************************)
\* The values that hold nothing are well-formed.
LEMMA IdleTypes ==
    /\ NewKind \in Kind
    /\ NoWorkspace \in Workspace /\ ~NoWorkspace.exists
    /\ WsIdle \in WorkspaceRun /\ WsIdle.step = "idle" /\ ~WsIdle.fresh
    /\ KindIdle \in KindRun /\ KindIdle.step = "idle" /\ ~KindIdle.fresh
  <1>1. NoUsage \in [Options -> Nat]
    BY DEF NoUsage
  <1>2. NewKind \in Kind
    BY <1>1 DEF NewKind, Kind
  <1>3. NoWorkspace \in Workspace /\ ~NoWorkspace.exists
    BY DefaultAssumption DEF NoWorkspace, Workspace
  <1>4. WsIdle \in WorkspaceRun /\ WsIdle.step = "idle" /\ ~WsIdle.fresh
    BY <1>3 DEF WsIdle, WorkspaceRun
  <1>5. KindIdle \in KindRun /\ KindIdle.step = "idle" /\ ~KindIdle.fresh
    BY <1>1, <1>2 DEF KindIdle, KindRun
  <1>6. QED
    BY <1>2, <1>3, <1>4, <1>5

\* The counts are natural numbers, and zero only if nothing is counted.
LEMMA CountTypes ==
    ASSUME NEW collection
    PROVE  /\ Cardinality(Existing(collection)) \in Nat
           /\ Existing(collection) # {} => Cardinality(Existing(collection)) > 0
           /\ \A o \in Options : UsageCount(collection, o) \in Nat
  <1>1. IsFiniteSet(Existing(collection))
    BY NamesAssumption, FS_Subset DEF Existing
  <1>2. ASSUME NEW o \in Options PROVE UsageCount(collection, o) \in Nat
    <2>1. IsFiniteSet({w \in Existing(collection) : collection[w].option = o})
      BY <1>1, FS_Subset
    <2>2. QED
      BY <2>1, FS_CardinalityType DEF UsageCount
  <1>3. Cardinality(Existing(collection)) \in Nat
    BY <1>1, FS_CardinalityType
  <1>4. Existing(collection) # {} => Cardinality(Existing(collection)) # 0
    BY <1>1, FS_EmptySet
  <1>5. QED
    BY <1>2, <1>3, <1>4

\* The initial state is well-formed.
LEMMA InitType == Init => TypeOK
  <1> SUFFICES ASSUME Init PROVE TypeOK
    OBVIOUS
  <1>1. kinds \in Versions(Kind)
    BY IdleTypes DEF Init, Versions
  <1>2. workspaces \in Versions([Names -> Workspace])
    <2>1. [w \in Names |-> NoWorkspace] \in [Names -> Workspace]
      BY IdleTypes
    <2>2. QED
      BY <2>1 DEF Init, Versions
  <1>3. wsRun \in [Names -> WorkspaceRun]
    BY IdleTypes DEF Init
  <1>4. QED
    BY <1>1, <1>2, <1>3, IdleTypes, BoundsAssumption DEF Init, TypeOK

\* The API server's answers and the bounds, as far as types are concerned.
LEMMA WriteTypes ==
    ASSUME TypeOK
    PROVE  /\ TheKind \in Kind /\ Cached(kinds) \in Kind
           /\ Stored(workspaces) \in [Names -> Workspace]
           /\ Cached(workspaces) \in [Names -> Workspace]
           /\ \A kind \in Kind : PutKind(kind) => kinds' \in Versions(Kind) /\ TheKind' = kind
           /\ \A w \in Names, ws \in Workspace : PutWorkspace(w, ws) =>
                 workspaces' \in Versions([Names -> Workspace])
           /\ KindStale => kindRun' \in KindRun
           /\ \A w \in Names : WsStale(w) => wsRun' \in [Names -> WorkspaceRun]
           /\ Fault \/ Request => spent' \in [ops : 0 .. MaxOps, faults : 0 .. MaxFaults]
  <1>1. kinds \in Versions(Kind) /\ workspaces \in Versions([Names -> Workspace])
    BY DEF TypeOK
  <1>2. /\ TheKind \in Kind /\ Cached(kinds) \in Kind
        /\ Stored(workspaces) \in [Names -> Workspace]
        /\ Cached(workspaces) \in [Names -> Workspace]
    BY <1>1, ReadType DEF TheKind
  <1>3. ASSUME NEW kind \in Kind, PutKind(kind)
        PROVE  kinds' \in Versions(Kind) /\ TheKind' = kind
    BY <1>1, <1>3, PutFacts DEF PutKind, TheKind
  <1>4. ASSUME NEW w \in Names, NEW ws \in Workspace, PutWorkspace(w, ws)
        PROVE  workspaces' \in Versions([Names -> Workspace])
    <2>1. [Stored(workspaces) EXCEPT ![w] = ws] \in [Names -> Workspace]
      BY <1>2
    <2>2. QED
      BY <1>1, <1>4, <2>1, PutFacts DEF PutWorkspace
  <1>5. KindStale => kindRun' \in KindRun
    BY DEF KindStale, TypeOK, KindRun
  <1>6. ASSUME NEW w \in Names, WsStale(w)
        PROVE  wsRun' \in [Names -> WorkspaceRun]
    <2>1. wsRun \in [Names -> WorkspaceRun]
      BY DEF TypeOK
    <2>2. [wsRun[w] EXCEPT !.fresh = FALSE] \in WorkspaceRun
      BY <2>1 DEF WorkspaceRun
    <2>3. QED
      BY <1>6, <2>1, <2>2 DEF WsStale
  <1>7. Fault \/ Request => spent' \in [ops : 0 .. MaxOps, faults : 0 .. MaxFaults]
    BY BoundsAssumption DEF Fault, Request, TypeOK
  <1>8. QED
    BY <1>2, <1>3, <1>4, <1>5, <1>6, <1>7

\* The steps of a Workspace's reconcile keep the types.
LEMMA WsType ==
    ASSUME TypeOK, NEW w \in Names, WsReconcile(w)
    PROVE  TypeOK'
  <1> DEFINE Spent == [ops : 0 .. MaxOps, faults : 0 .. MaxFaults]
  <1>1. /\ kinds \in Versions(Kind) /\ workspaces \in Versions([Names -> Workspace])
        /\ wsQueue \in SUBSET Names /\ wsRun \in [Names -> WorkspaceRun]
        /\ kindQueued \in BOOLEAN /\ kindRun \in KindRun /\ counted \in SUBSET Names
        /\ spent \in Spent
    BY DEF TypeOK
  <1>2. /\ Cached(kinds) \in Kind /\ Cached(workspaces)[w] \in Workspace
        /\ wsRun[w] \in WorkspaceRun
    BY <1>1, WriteTypes
  <1>3. /\ wsRun[w].ws \in Workspace
        /\ wsRun[w].next \in {"Unknown", "Valid", "Error"}
    BY <1>2 DEF WorkspaceRun
  <1>4. Fault => spent' \in Spent
    BY WriteTypes
  <1>5. ASSUME NEW requeue, WsReturn(w, requeue)
        PROVE  wsRun' \in [Names -> WorkspaceRun] /\ wsQueue' \in SUBSET Names
    BY <1>1, <1>5, IdleTypes DEF WsReturn
  <1>6. CASE WsBegin(w)
    <2> DEFINE run == [WsIdle EXCEPT !.step = "kind", !.ws = Cached(workspaces)[w],
                                     !.fresh = UpToDate(w)]
    <2>1. run \in WorkspaceRun
      <3>1. UpToDate(w) \in BOOLEAN
        BY DEF UpToDate
      <3>2. QED
        BY <1>2, <3>1, IdleTypes DEF WorkspaceRun
    <2>2. wsRun' = wsRun \/ wsRun' = [wsRun EXCEPT ![w] = run]
      BY <1>6 DEF WsBegin
    <2> HIDE DEF run
    <2>3. wsRun' \in [Names -> WorkspaceRun]
      BY <1>1, <2>1, <2>2
    <2>4. QED
      BY <1>1, <1>6, <2>3 DEF WsBegin, TypeOK
  <1>7. CASE WsAddFinalizer(w)
    <2> DEFINE verdict == Verdict(wsRun[w].ws, Cached(kinds))
               judged == [wsRun EXCEPT ![w].step = "state", ![w].next = verdict]
    <2>1. judged \in [Names -> WorkspaceRun]
      <3>1. verdict \in {"Unknown", "Valid", "Error"}
        BY DEF Verdict
      <3> HIDE DEF verdict
      <3>2. [wsRun[w] EXCEPT !.step = "state", !.next = verdict] \in WorkspaceRun
        BY <1>2, <3>1 DEF WorkspaceRun
      <3>3. QED
        BY <1>1, <3>2
    <2>2. \/ wsRun' = judged /\ UNCHANGED wsQueue
          \/ WsReturn(w, TRUE)
      BY <1>7 DEF WsAddFinalizer
    <2> HIDE DEF judged
    <2>3. wsRun' \in [Names -> WorkspaceRun] /\ wsQueue' \in SUBSET Names
      BY <1>1, <1>5, <2>1, <2>2
    <2>4. \/ UNCHANGED <<kinds, kindRun>>
          \/ PutKind([Cached(kinds) EXCEPT !.finalizer = TRUE]) /\ KindStale
      BY <1>7 DEF WsAddFinalizer
    <2>5. [Cached(kinds) EXCEPT !.finalizer = TRUE] \in Kind
      BY <1>2 DEF Kind
    <2>6. kinds' \in Versions(Kind) /\ kindRun' \in KindRun
      BY <1>1, <2>4, <2>5, WriteTypes
    <2>7. spent' \in Spent
      BY <1>1, <1>4, <1>7 DEF WsAddFinalizer
    <2>8. QED
      BY <1>1, <1>7, <2>3, <2>6, <2>7 DEF WsAddFinalizer, TypeOK
  <1>8. CASE WsUpdateState(w)
    <2> DEFINE new == [wsRun[w].ws EXCEPT !.state = wsRun[w].next]
    <2>1. new \in Workspace
      BY <1>3 DEF Workspace
    <2>2. \E requeue \in BOOLEAN : WsReturn(w, requeue)
      BY <1>8 DEF WsUpdateState
    <2>3. UNCHANGED workspaces \/ PutWorkspace(w, new)
      BY <1>8 DEF WsUpdateState
    <2>4. workspaces' \in Versions([Names -> Workspace])
      BY <1>1, <2>1, <2>3, WriteTypes
    <2>5. spent' \in Spent
      BY <1>1, <1>4, <1>8 DEF WsUpdateState
    <2>6. QED
      BY <1>1, <1>5, <1>8, <2>2, <2>4, <2>5 DEF WsUpdateState, TypeOK
  <1>9. QED
    BY <1>6, <1>7, <1>8 DEF WsReconcile

\* The steps of the WorkspaceKind's reconcile keep the types.
LEMMA KindType ==
    ASSUME TypeOK, KindReconcile
    PROVE  TypeOK'
  <1> DEFINE Spent == [ops : 0 .. MaxOps, faults : 0 .. MaxFaults]
  <1>1. /\ kinds \in Versions(Kind) /\ workspaces \in Versions([Names -> Workspace])
        /\ wsQueue \in SUBSET Names /\ wsRun \in [Names -> WorkspaceRun]
        /\ kindQueued \in BOOLEAN /\ kindRun \in KindRun /\ counted \in SUBSET Names
        /\ spent \in Spent
    BY DEF TypeOK
  <1>2. /\ Cached(kinds) \in Kind /\ kindRun.kind \in Kind /\ kindRun.count \in Nat
        /\ kindRun.usage \in [Options -> Nat] /\ kindRun.listed \in SUBSET Names
    BY <1>1, WriteTypes DEF KindRun
  <1>3. Fault => spent' \in Spent
    BY WriteTypes
  <1>4. ASSUME NEW requeue \in BOOLEAN, KindReturn(requeue)
        PROVE  kindRun' \in KindRun /\ kindQueued' \in BOOLEAN
    BY <1>1, <1>4, IdleTypes DEF KindReturn
  <1>5. CASE KindBegin
    <2> DEFINE run == [KindIdle EXCEPT !.step = "list", !.kind = Cached(kinds),
                                       !.fresh = Current(kinds)]
    <2>1. run \in KindRun
      <3>1. Current(kinds) \in BOOLEAN
        BY DEF Current
      <3>2. QED
        BY <1>2, <3>1, IdleTypes DEF KindRun
    <2>2. kindRun' = run \/ kindRun' = KindIdle
      BY <1>5 DEF KindBegin
    <2> HIDE DEF run
    <2>3. kindRun' \in KindRun
      BY <2>1, <2>2, IdleTypes
    <2>4. QED
      BY <1>1, <1>5, <2>3 DEF KindBegin, TypeOK
  <1>6. CASE KindRemoveFinalizer
    <2> DEFINE list == Cached(workspaces)
               released == [kindRun.kind EXCEPT !.finalizer = FALSE]
               usage(kind) == [o \in Options |-> IF o \in kind.options
                                                 THEN UsageCount(list, o) ELSE 0]
               next(kind) == [kindRun EXCEPT !.step = "status", !.kind = kind,
                                             !.listed = Lasting,
                                             !.count = Cardinality(Existing(list)),
                                             !.usage = usage(kind)]
    <2>1. released \in Kind
      BY <1>2 DEF Kind
    <2>2. ASSUME NEW kind \in Kind
          PROVE  next(kind) \in KindRun
      <3>1. usage(kind) \in [Options -> Nat]
        BY CountTypes
      <3>2. Cardinality(Existing(list)) \in Nat
        BY CountTypes
      <3>3. Lasting \in SUBSET Names
        BY DEF Lasting
      <3> HIDE DEF list, usage
      <3>4. QED
        BY <1>1, <3>1, <3>2, <3>3 DEF KindRun
    <2>3. \/ (kindRun' = next(kindRun.kind) \/ kindRun' = next(released)) /\ UNCHANGED kindQueued
          \/ KindReturn(TRUE)
      BY <1>6 DEF KindRemoveFinalizer
    <2>4. UNCHANGED kinds \/ PutKind(released)
      BY <1>6 DEF KindRemoveFinalizer
    <2> HIDE DEF next, released
    <2>5. kindRun' \in KindRun /\ kindQueued' \in BOOLEAN
      BY <1>1, <1>2, <1>4, <2>1, <2>2, <2>3
    <2>6. kinds' \in Versions(Kind)
      BY <1>1, <2>1, <2>4, WriteTypes
    <2>7. spent' \in Spent
      BY <1>1, <1>3, <1>6 DEF KindRemoveFinalizer
    <2>8. QED
      BY <1>1, <1>6, <2>5, <2>6, <2>7 DEF KindRemoveFinalizer, TypeOK
  <1>7. CASE KindUpdateStatus
    <2> DEFINE new == [kindRun.kind EXCEPT !.count = kindRun.count, !.usage = kindRun.usage]
    <2>1. new \in Kind
      BY <1>2 DEF Kind
    <2>2. \E requeue \in BOOLEAN : KindReturn(requeue)
      BY <1>7 DEF KindUpdateStatus
    <2>3. UNCHANGED kinds \/ PutKind(new)
      BY <1>7 DEF KindUpdateStatus
    <2>4. UNCHANGED counted \/ Count
      BY <1>7 DEF KindUpdateStatus
    <2>5. counted' \in SUBSET Names
      BY <1>1, <1>2, <2>4 DEF Count
    <2>6. kinds' \in Versions(Kind)
      BY <1>1, <2>1, <2>3, WriteTypes
    <2>7. spent' \in Spent
      BY <1>1, <1>3, <1>7 DEF KindUpdateStatus
    <2>8. QED
      BY <1>1, <1>4, <1>7, <2>2, <2>5, <2>6, <2>7 DEF KindUpdateStatus, TypeOK
  <1>8. QED
    BY <1>5, <1>6, <1>7 DEF KindReconcile

\* Every action keeps every variable in its type.
LEMMA TypeStep == TypeOK /\ [Next]_vars => TypeOK'
  <1> SUFFICES ASSUME TypeOK, [Next]_vars
               PROVE  TypeOK'
    OBVIOUS
  <1> DEFINE Spent == [ops : 0 .. MaxOps, faults : 0 .. MaxFaults]
  <1>1. /\ kinds \in Versions(Kind) /\ workspaces \in Versions([Names -> Workspace])
        /\ wsQueue \in SUBSET Names /\ wsRun \in [Names -> WorkspaceRun]
        /\ kindQueued \in BOOLEAN /\ kindRun \in KindRun /\ counted \in SUBSET Names
        /\ spent \in Spent
    BY DEF TypeOK
  <1>2. TheKind \in Kind /\ Stored(workspaces) \in [Names -> Workspace]
    BY WriteTypes
  <1>3. Fault \/ Request => spent' \in Spent
    BY WriteTypes
  <1>4. CASE WatchKind
    <2>1. kinds' \in Versions(Kind)
      BY <1>1, <1>4, TailFacts DEF WatchKind
    <2>2. wsQueue' \in SUBSET Names
      BY <1>1, <1>4 DEF WatchKind, mapWorkspaceKindToRequest, Existing
    <2>3. QED
      BY <1>1, <1>4, <2>1, <2>2 DEF WatchKind, TypeOK
  <1>5. CASE WatchWorkspaces
    <2>1. workspaces' \in Versions([Names -> Workspace])
      BY <1>1, <1>5, TailFacts DEF WatchWorkspaces
    <2>2. wsQueue' \in SUBSET Names /\ kindQueued' \in BOOLEAN
      BY <1>1, <1>5 DEF WatchWorkspaces
    <2>3. QED
      BY <1>1, <1>5, <2>1, <2>2 DEF WatchWorkspaces, TypeOK
  <1>6. CASE Crash
    <2>1. /\ kinds' \in Versions(Kind)
          /\ workspaces' \in Versions([Names -> Workspace])
      BY <1>1, <1>6, RelistedFacts DEF Crash
    <2>2. wsQueue' \in SUBSET Names /\ wsRun' \in [Names -> WorkspaceRun]
      BY <1>6, IdleTypes DEF Crash, Existing
    <2>3. QED
      BY <1>1, <1>3, <1>6, <2>1, <2>2, IdleTypes DEF Crash, TypeOK
  <1>7. ASSUME NEW w \in Names, NEW option \in Options,
               CreateWorkspace(w, option) \/ ChangeWorkspace(w, option)
        PROVE  TypeOK'
    <2>1. PICK ws \in Workspace : PutWorkspace(w, ws)
      <3>1. /\ [exists |-> TRUE, option |-> option, state |-> "Unknown"] \in Workspace
            /\ [Stored(workspaces)[w] EXCEPT !.option = option] \in Workspace
        BY <1>2 DEF Workspace
      <3>2. QED
        BY <1>7, <3>1 DEF CreateWorkspace, ChangeWorkspace
    <2>2. Request /\ WsStale(w)
      BY <1>7 DEF CreateWorkspace, ChangeWorkspace
    <2>3. UNCHANGED <<kinds, wsQueue, kindQueued, kindRun, counted>>
      BY <1>7 DEF CreateWorkspace, ChangeWorkspace
    <2>4. QED
      BY <1>1, <1>3, <2>1, <2>2, <2>3, WriteTypes DEF TypeOK
  <1>8. ASSUME NEW w \in Names, DeleteWorkspace(w)
        PROVE  TypeOK'
    <2>1. kindRun' \in KindRun
      BY <1>1, <1>8 DEF DeleteWorkspace, KindRun
    <2>2. workspaces' \in Versions([Names -> Workspace]) /\ wsRun' \in [Names -> WorkspaceRun]
      BY <1>8, IdleTypes, WriteTypes DEF DeleteWorkspace
    <2>3. QED
      BY <1>1, <1>3, <1>8, <2>1, <2>2 DEF DeleteWorkspace, TypeOK
  <1>9. ASSUME NEW options \in SUBSET Options, ChangeKind(options)
        PROVE  TypeOK'
    <2>1. [TheKind EXCEPT !.options = options] \in Kind
      BY <1>2 DEF Kind
    <2>2. kinds' \in Versions(Kind) /\ kindRun' \in KindRun
      BY <1>9, <2>1, WriteTypes DEF ChangeKind
    <2>3. QED
      BY <1>1, <1>3, <1>9, <2>2 DEF ChangeKind, TypeOK
  <1>10. CASE DeleteKind \/ KindRemoved
    <2>1. /\ [TheKind EXCEPT !.exists = FALSE] \in Kind
          /\ [TheKind EXCEPT !.deleting = TRUE] \in Kind
      BY <1>2 DEF Kind
    <2>2. \/ PutKind([TheKind EXCEPT !.exists = FALSE])
          \/ PutKind([TheKind EXCEPT !.deleting = TRUE])
      BY <1>10 DEF DeleteKind, KindRemoved
    <2>3. KindStale /\ UNCHANGED <<workspaces, wsQueue, wsRun, kindQueued, counted>>
      BY <1>10 DEF DeleteKind, KindRemoved
    <2>4. spent' \in Spent
      BY <1>1, <1>3, <1>10 DEF DeleteKind, KindRemoved
    <2>5. kinds' \in Versions(Kind) /\ kindRun' \in KindRun
      BY <2>1, <2>2, <2>3, WriteTypes
    <2>6. QED
      BY <1>1, <2>3, <2>4, <2>5 DEF TypeOK
  <1>11. CASE UNCHANGED vars
    BY <1>1, <1>11 DEF vars, TypeOK
  <1>12. QED
    BY <1>4, <1>5, <1>6, <1>7, <1>8, <1>9, <1>10, <1>11, WsType, KindType DEF Next, UserNext

\* Type correctness of the WorkspaceKind, its Workspaces and both controllers:
\* in particular the published counters are natural numbers.
THEOREM TypeCorrect == Spec => []TypeOK
  <1>1. QED
    BY InitType, TypeStep, PTL DEF Spec
-----------------------------------------------------------------------------
(***************************************************************************)
(* The inductive invariant.  That a Workspace's counter stays up rests on  *)
(* the order of versions: a list taken after the one that counted a        *)
(* Workspace includes it too, unless it has been deleted.                  *)
(***************************************************************************)
\* A counted Workspace is in every version the cache has or will get.
CountedLasts == counted \subseteq Lasting

\* The list in the reconcile's hands has all counted Workspaces, holds none
\* that is gone, and the count made from it is not zero if it has any.
ListComplete ==
    kindRun.step = "status" =>
        /\ counted \subseteq kindRun.listed
        /\ kindRun.listed \subseteq Lasting
        /\ kindRun.listed # {} => kindRun.count > 0

\* A WorkspaceKind with the stored resourceVersion is the stored one, and the
\* reconcile only works on one that exists.
KindFresh ==
    /\ kindRun.fresh => kindRun.kind = TheKind
    /\ kindRun.step # "idle" => kindRun.kind.exists

\* The same of each Workspace's reconcile.
WsFresh ==
    \A w \in Names : /\ wsRun[w].fresh => wsRun[w].ws = Stored(workspaces)[w]
                     /\ wsRun[w].step # "idle" => wsRun[w].ws.exists

ProtectionInv ==
    /\ CountedWorkspaceKeepsKind
    /\ CountedLasts
    /\ ListComplete
    /\ KindFresh
    /\ WsFresh

\* The initial state satisfies the invariant.
LEMMA InitInv == Init => ProtectionInv
  <1> SUFFICES ASSUME Init PROVE ProtectionInv
    OBVIOUS
  <1>1. counted = {} /\ kindRun = KindIdle /\ wsRun = [w \in Names |-> WsIdle]
    BY DEF Init
  <1>2. CountedWorkspaceKeepsKind /\ CountedLasts
    BY <1>1 DEF CountedWorkspaceKeepsKind, CountedLasts
  <1>3. ListComplete /\ KindFresh
    BY <1>1, IdleTypes DEF ListComplete, KindFresh
  <1>4. WsFresh
    BY <1>1, IdleTypes DEF WsFresh
  <1>5. QED
    BY <1>2, <1>3, <1>4 DEF ProtectionInv

\* A write that leaves w in existence keeps every lasting Workspace; a deletion
\* takes out w alone.
LEMMA LastingPut ==
    ASSUME TypeOK, NEW w \in Names, NEW ws \in Workspace, PutWorkspace(w, ws)
    PROVE  /\ Stored(workspaces)' = [Stored(workspaces) EXCEPT ![w] = ws]
           /\ Lasting \ {w} \subseteq Lasting'
           /\ ws.exists => Lasting \subseteq Lasting'
  <1> DEFINE new == [Stored(workspaces) EXCEPT ![w] = ws]
  <1>1. workspaces \in Versions([Names -> Workspace])
    BY DEF TypeOK
  <1>2. Stored(workspaces) \in [Names -> Workspace] /\ new \in [Names -> Workspace]
    BY <1>1, ReadType
  <1>a. workspaces' = Put(workspaces, new)
    BY DEF PutWorkspace
  <1> HIDE DEF new
  <1>3. /\ Len(workspaces') = Len(workspaces) + 1
        /\ workspaces'[Len(workspaces) + 1] = new
        /\ \A i \in 1 .. Len(workspaces) : workspaces'[i] = workspaces[i]
        /\ Stored(workspaces') = new
    BY <1>1, <1>2, <1>a, PutFacts
  <1>4. Len(workspaces) \in Nat /\ Len(workspaces) > 0
    BY <1>1 DEF Versions
  <1>5. ASSUME NEW v \in Lasting, v # w \/ ws.exists
        PROVE  v \in Lasting'
    <2>1. v \in Names /\ \A i \in 1 .. Len(workspaces) : workspaces[i][v].exists
      BY DEF Lasting
    <2>2. Stored(workspaces)[v].exists
      BY <1>4, <2>1 DEF Stored
    <2>3. new[v].exists
      BY <1>2, <1>5, <2>1, <2>2 DEF new
    <2>4. ASSUME NEW i \in 1 .. Len(workspaces')
          PROVE  workspaces'[i][v].exists
      <3>1. CASE i = Len(workspaces) + 1
        BY <1>3, <2>3, <3>1
      <3>2. CASE i # Len(workspaces) + 1
        <4>1. i \in 1 .. Len(workspaces)
          BY <1>3, <1>4, <3>2
        <4>2. QED
          BY <1>3, <2>1, <4>1
      <3>3. QED
        BY <3>1, <3>2
    <2>5. QED
      BY <2>1, <2>4 DEF Lasting
  <1>6. QED
    BY <1>3, <1>5 DEF new

\* A cache that moves on, or is listed afresh, loses no lasting Workspace.
LEMMA LastingCache ==
    ASSUME TypeOK,
           \/ workspaces' = workspaces
           \/ Behind(workspaces) /\ workspaces' = Tail(workspaces)
           \/ workspaces' = Relisted(workspaces)
    PROVE  Lasting \subseteq Lasting' /\ Stored(workspaces)' = Stored(workspaces)
  <1>1. workspaces \in Versions([Names -> Workspace])
    BY DEF TypeOK
  <1>2. Len(workspaces) \in Nat /\ Len(workspaces) > 0
    BY <1>1 DEF Versions
  <1>3. CASE workspaces' = workspaces
    BY <1>3 DEF Lasting
  <1>4. CASE Behind(workspaces) /\ workspaces' = Tail(workspaces)
    <2>1. /\ Stored(workspaces') = Stored(workspaces)
          /\ Len(workspaces') = Len(workspaces) - 1
          /\ \A i \in 1 .. Len(workspaces) - 1 : workspaces'[i] = workspaces[i + 1]
      BY <1>1, <1>4, TailFacts
    <2>2. ASSUME NEW v \in Lasting, NEW i \in 1 .. Len(workspaces')
          PROVE  workspaces'[i][v].exists
      <3>1. i \in 1 .. Len(workspaces) - 1 /\ i + 1 \in 1 .. Len(workspaces)
        BY <1>2, <2>1
      <3>2. QED
        BY <2>1, <3>1 DEF Lasting
    <2>3. QED
      BY <2>1, <2>2 DEF Lasting
  <1>5. CASE workspaces' = Relisted(workspaces)
    <2>1. /\ Stored(workspaces') = Stored(workspaces)
          /\ Len(workspaces') = 1 /\ workspaces'[1] = Stored(workspaces)
      BY <1>1, <1>5, RelistedFacts
    <2>2. ASSUME NEW v \in Lasting
          PROVE  Stored(workspaces)[v].exists
      BY <1>2 DEF Lasting, Stored
    <2>3. QED
      BY <2>1, <2>2 DEF Lasting
  <1>6. QED
    BY <1>3, <1>4, <1>5

\* A step that leaves the stored kind and its reconcile alone, and loses no
\* lasting Workspace, keeps what concerns the kind.
LEMMA KindUndisturbed ==
    ASSUME ProtectionInv, TheKind' = TheKind, UNCHANGED <<kindRun, counted>>,
           Lasting \subseteq Lasting'
    PROVE  CountedWorkspaceKeepsKind' /\ CountedLasts' /\ ListComplete' /\ KindFresh'
  BY DEF ProtectionInv, CountedWorkspaceKeepsKind, CountedLasts, ListComplete, KindFresh

\* So does a write by someone else than its reconcile, if it does not take the
\* protection away.
LEMMA KindWritten ==
    ASSUME TypeOK, ProtectionInv, KindStale, UNCHANGED counted,
           counted # {} => TheKind'.exists /\ ~TheKind'.deleting /\ TheKind'.count > 0,
           Lasting \subseteq Lasting'
    PROVE  CountedWorkspaceKeepsKind' /\ CountedLasts' /\ ListComplete' /\ KindFresh'
  <1>1. /\ kindRun'.step = kindRun.step /\ kindRun'.kind = kindRun.kind
        /\ kindRun'.listed = kindRun.listed /\ kindRun'.count = kindRun.count
        /\ ~kindRun'.fresh
    BY DEF KindStale, TypeOK, KindRun
  <1>2. QED
    BY <1>1
    DEF ProtectionInv, CountedWorkspaceKeepsKind, CountedLasts, ListComplete, KindFresh

\* A step that leaves the Workspaces and their reconciles alone keeps what
\* concerns them.
LEMMA WsUndisturbed ==
    ASSUME WsFresh, UNCHANGED wsRun, Stored(workspaces)' = Stored(workspaces)
    PROVE  WsFresh'
  BY DEF WsFresh

\* So does a write of one Workspace, by a user or by the end of its reconcile.
LEMMA WsWritten ==
    ASSUME TypeOK, WsFresh, NEW w \in Names, NEW ws \in Workspace, PutWorkspace(w, ws),
           WsStale(w) \/ wsRun' = [wsRun EXCEPT ![w] = WsIdle]
    PROVE  WsFresh'
  <1>1. wsRun \in [Names -> WorkspaceRun] /\ Stored(workspaces) \in [Names -> Workspace]
    BY WriteTypes DEF TypeOK
  <1>2. Stored(workspaces)' = [Stored(workspaces) EXCEPT ![w] = ws]
    BY LastingPut
  <1>3. ASSUME NEW v \in Names
        PROVE  /\ wsRun'[v].fresh => wsRun'[v].ws = Stored(workspaces)'[v]
               /\ wsRun'[v].step # "idle" => wsRun'[v].ws.exists
    <2>1. CASE v # w
      <3>1. wsRun'[v] = wsRun[v]
        BY <1>1, <2>1 DEF WsStale
      <3>2. Stored(workspaces)'[v] = Stored(workspaces)[v]
        BY <1>1, <1>2, <2>1
      <3>3. QED
        BY <3>1, <3>2 DEF WsFresh
    <2>2. CASE v = w
      <3>1. CASE WsStale(w)
        <4>1. wsRun'[v] = [wsRun[v] EXCEPT !.fresh = FALSE]
          BY <1>1, <2>2, <3>1 DEF WsStale
        <4>2. ~wsRun'[v].fresh /\ wsRun'[v].step = wsRun[v].step /\ wsRun'[v].ws = wsRun[v].ws
          BY <1>1, <4>1 DEF WorkspaceRun
        <4>3. QED
          BY <4>2 DEF WsFresh
      <3>2. CASE wsRun' = [wsRun EXCEPT ![w] = WsIdle]
        BY <1>1, <2>2, <3>2, IdleTypes
      <3>3. QED
        BY <3>1, <3>2
    <2>3. QED
      BY <2>1, <2>2
  <1>4. QED
    BY <1>3 DEF WsFresh

\* The steps of a Workspace's reconcile keep the invariant.
LEMMA WsInv ==
    ASSUME TypeOK, ProtectionInv, NEW w \in Names, WsReconcile(w)
    PROVE  ProtectionInv'
  <1>1. /\ kinds \in Versions(Kind) /\ workspaces \in Versions([Names -> Workspace])
        /\ wsRun \in [Names -> WorkspaceRun]
    BY DEF TypeOK
  <1>2. /\ TheKind \in Kind /\ Cached(kinds) \in Kind
        /\ Stored(workspaces) \in [Names -> Workspace] /\ wsRun[w] \in WorkspaceRun
    BY <1>1, WriteTypes
  <1>3. WsFresh
    BY DEF ProtectionInv
  <1>4. CASE WsBegin(w)
    <2> DEFINE run == [WsIdle EXCEPT !.step = "kind", !.ws = Cached(workspaces)[w],
                                     !.fresh = UpToDate(w)]
    <2>1. /\ run.step = "kind" /\ run.ws = Cached(workspaces)[w] /\ run.fresh = UpToDate(w)
      BY IdleTypes DEF WorkspaceRun
    <2>2. UpToDate(w) => Cached(workspaces)[w] = Stored(workspaces)[w]
      <3>1. Len(workspaces) \in 1 .. Len(workspaces)
        BY <1>1 DEF Versions
      <3>2. QED
        BY <3>1 DEF UpToDate, Stored
    <2>3. UNCHANGED <<kinds, workspaces, kindRun, counted>>
      BY <1>4 DEF WsBegin
    <2>4. TheKind' = TheKind /\ Lasting' = Lasting /\ Stored(workspaces)' = Stored(workspaces)
      BY <2>3 DEF TheKind, Lasting
    <2>5. \/ wsRun' = wsRun
          \/ wsRun' = [wsRun EXCEPT ![w] = run] /\ Cached(workspaces)[w].exists
      BY <1>4 DEF WsBegin
    <2> HIDE DEF run
    <2>6. WsFresh'
      <3>1. CASE wsRun' = wsRun
        BY <1>3, <2>4, <3>1, WsUndisturbed
      <3>2. CASE wsRun' = [wsRun EXCEPT ![w] = run] /\ Cached(workspaces)[w].exists
        <4>1. ASSUME NEW v \in Names
              PROVE  /\ wsRun'[v].fresh => wsRun'[v].ws = Stored(workspaces)'[v]
                     /\ wsRun'[v].step # "idle" => wsRun'[v].ws.exists
          <5>1. CASE v # w
            <6>1. wsRun'[v] = wsRun[v]
              BY <1>1, <3>2, <5>1
            <6>2. QED
              BY <1>3, <2>4, <6>1 DEF WsFresh
          <5>2. CASE v = w
            <6>1. wsRun'[v] = run
              BY <1>1, <3>2, <5>2
            <6>2. QED
              BY <2>1, <2>2, <2>4, <3>2, <5>2, <6>1
          <5>3. QED
            BY <5>1, <5>2
        <4>2. QED
          BY <4>1 DEF WsFresh
      <3>3. QED
        BY <2>5, <3>1, <3>2
    <2>7. QED
      BY <2>3, <2>4, <2>6, KindUndisturbed DEF ProtectionInv
  <1>5. CASE WsAddFinalizer(w)
    <2> DEFINE verdict == Verdict(wsRun[w].ws, Cached(kinds))
    <2>1. UNCHANGED <<workspaces, counted>>
      BY <1>5 DEF WsAddFinalizer
    <2>2. Lasting' = Lasting /\ Stored(workspaces)' = Stored(workspaces)
      BY <2>1 DEF Lasting
    <2>3. WsFresh'
      <3>1. \/ wsRun' = [wsRun EXCEPT ![w].step = "state", ![w].next = verdict]
            \/ wsRun' = [wsRun EXCEPT ![w] = WsIdle]
        BY <1>5 DEF WsAddFinalizer, WsReturn
      <3> HIDE DEF verdict
      <3>2. wsRun[w].step = "kind"
        BY <1>5 DEF WsAddFinalizer
      <3>3. ASSUME NEW v \in Names
            PROVE  /\ wsRun'[v].fresh => wsRun'[v].ws = Stored(workspaces)'[v]
                   /\ wsRun'[v].step # "idle" => wsRun'[v].ws.exists
        <4>1. CASE v # w
          <5>1. wsRun'[v] = wsRun[v]
            BY <1>1, <3>1, <4>1
          <5>2. QED
            BY <1>3, <2>2, <5>1 DEF WsFresh
        <4>2. CASE v = w
          <5>1. \/ wsRun'[v] = [wsRun[v] EXCEPT !.step = "state", !.next = verdict]
                \/ wsRun'[v] = WsIdle
            BY <1>1, <3>1, <4>2
          <5>2. \/ wsRun'[v].fresh = wsRun[v].fresh /\ wsRun'[v].ws = wsRun[v].ws
                \/ wsRun'[v].step = "idle" /\ ~wsRun'[v].fresh
            BY <1>1, <5>1, IdleTypes DEF WorkspaceRun
          <5>3. QED
            BY <1>3, <2>2, <3>2, <4>2, <5>2 DEF WsFresh
        <4>3. QED
          BY <4>1, <4>2
      <3>4. QED
        BY <3>3 DEF WsFresh
    <2>4. CASE UNCHANGED <<kinds, kindRun>>
      <3>1. TheKind' = TheKind
        BY <2>4 DEF TheKind
      <3>2. QED
        BY <2>1, <2>2, <2>3, <2>4, <3>1, KindUndisturbed DEF ProtectionInv
    <2>5. CASE /\ PutKind([Cached(kinds) EXCEPT !.finalizer = TRUE]) /\ KindStale
               /\ Current(kinds)
      <3>1. Cached(kinds) = TheKind
        BY <1>1, <2>5, CurrentFacts DEF TheKind
      <3>2. /\ [TheKind EXCEPT !.finalizer = TRUE] \in Kind
            /\ PutKind([TheKind EXCEPT !.finalizer = TRUE])
        BY <1>2, <2>5, <3>1 DEF Kind
      <3>3. TheKind' = [TheKind EXCEPT !.finalizer = TRUE]
        BY <3>2, WriteTypes
      <3>4. /\ TheKind'.exists = TheKind.exists /\ TheKind'.deleting = TheKind.deleting
            /\ TheKind'.count = TheKind.count
        BY <1>2, <3>3 DEF Kind
      <3>5. counted # {} => TheKind'.exists /\ ~TheKind'.deleting /\ TheKind'.count > 0
        BY <3>4 DEF ProtectionInv, CountedWorkspaceKeepsKind
      <3>6. QED
        BY <2>1, <2>2, <2>3, <2>5, <3>5, KindWritten DEF ProtectionInv
    <2>6. QED
      BY <1>5, <2>4, <2>5 DEF WsAddFinalizer
  <1>6. CASE WsUpdateState(w)
    <2> DEFINE new == [wsRun[w].ws EXCEPT !.state = wsRun[w].next]
    <2>1. new \in Workspace /\ new.exists = wsRun[w].ws.exists
      BY <1>2 DEF Workspace, WorkspaceRun
    <2>2. wsRun[w].step = "state" /\ UNCHANGED <<kinds, kindRun, counted>>
      BY <1>6 DEF WsUpdateState
    <2>3. TheKind' = TheKind
      BY <2>2 DEF TheKind
    <2>4. wsRun' = [wsRun EXCEPT ![w] = WsIdle]
      BY <1>6 DEF WsUpdateState, WsReturn
    <2>5. UNCHANGED workspaces \/ PutWorkspace(w, new)
      BY <1>6 DEF WsUpdateState
    <2>6. new.exists
      BY <1>3, <2>1, <2>2 DEF WsFresh
    <2> HIDE DEF new
    <2>7. Lasting \subseteq Lasting'
      BY <2>1, <2>5, <2>6, LastingPut, LastingCache
    <2>8. WsFresh'
      <3>1. CASE UNCHANGED workspaces
        <4>1. ASSUME NEW v \in Names
              PROVE  wsRun'[v] = wsRun[v] \/ wsRun'[v] = WsIdle
          BY <1>1, <2>4
        <4>2. QED
          BY <1>3, <3>1, <4>1, IdleTypes DEF WsFresh
      <3>2. CASE PutWorkspace(w, new)
        BY <1>3, <2>1, <2>4, <3>2, WsWritten
      <3>3. QED
        BY <2>5, <3>1, <3>2
    <2>9. QED
      BY <2>2, <2>3, <2>7, <2>8, KindUndisturbed DEF ProtectionInv
  <1>7. QED
    BY <1>4, <1>5, <1>6 DEF WsReconcile

\* The steps of the WorkspaceKind's reconcile keep the invariant.
LEMMA KindInv ==
    ASSUME TypeOK, ProtectionInv, KindReconcile
    PROVE  ProtectionInv'
  <1>1. kinds \in Versions(Kind) /\ kindRun \in KindRun /\ kindRun.kind \in Kind
        /\ workspaces \in Versions([Names -> Workspace])
    BY DEF TypeOK, KindRun
  <1>2. TheKind \in Kind /\ Cached(kinds) \in Kind
    BY WriteTypes
  <1>3. /\ CountedWorkspaceKeepsKind /\ CountedLasts /\ ListComplete /\ KindFresh /\ WsFresh
    BY DEF ProtectionInv
  <1>4. UNCHANGED <<workspaces, wsRun>>
    BY DEF KindReconcile, KindBegin, KindRemoveFinalizer, KindUpdateStatus
  <1>5. WsFresh' /\ Lasting' = Lasting
    BY <1>3, <1>4, WsUndisturbed DEF Lasting
  <1>6. ASSUME kindRun' = KindIdle
        PROVE  ListComplete' /\ KindFresh'
    BY <1>6, IdleTypes DEF ListComplete, KindFresh
  <1>7. ASSUME UNCHANGED <<kinds, counted>>
        PROVE  CountedWorkspaceKeepsKind' /\ CountedLasts' /\ TheKind' = TheKind
    BY <1>3, <1>5, <1>7 DEF CountedWorkspaceKeepsKind, CountedLasts, TheKind
  <1>8. CASE KindBegin
    <2> DEFINE run == [KindIdle EXCEPT !.step = "list", !.kind = Cached(kinds),
                                       !.fresh = Current(kinds)]
    <2>1. /\ run.step = "list" /\ run.kind = Cached(kinds) /\ run.fresh = Current(kinds)
      BY IdleTypes DEF KindRun
    <2>2. Current(kinds) => Cached(kinds) = TheKind
      BY <1>1, CurrentFacts DEF TheKind
    <2>3. \/ kindRun' = run /\ Cached(kinds).exists
          \/ kindRun' = KindIdle
      BY <1>8 DEF KindBegin
    <2>4. UNCHANGED <<kinds, counted>>
      BY <1>8 DEF KindBegin
    <2> HIDE DEF run
    <2>5. ListComplete' /\ KindFresh'
      <3>1. CASE kindRun' = run /\ Cached(kinds).exists
        BY <1>7, <2>1, <2>2, <2>4, <3>1 DEF ListComplete, KindFresh
      <3>2. QED
        BY <1>6, <2>3, <3>1
    <2>6. QED
      BY <1>5, <1>7, <2>4, <2>5 DEF ProtectionInv
  <1>9. CASE KindRemoveFinalizer
    <2> DEFINE list == Cached(workspaces)
               released == [kindRun.kind EXCEPT !.finalizer = FALSE]
               usage(kind) == [o \in Options |-> IF o \in kind.options
                                                 THEN UsageCount(list, o) ELSE 0]
               next(kind) == [kindRun EXCEPT !.step = "status", !.kind = kind,
                                             !.listed = Lasting,
                                             !.count = Cardinality(Existing(list)),
                                             !.usage = usage(kind)]
    <2>1. /\ released \in Kind /\ released.exists = kindRun.kind.exists
          /\ released.deleting = kindRun.kind.deleting /\ released.count = kindRun.kind.count
      BY <1>1 DEF Kind
    <2>2. kindRun.step = "list" /\ UNCHANGED counted
      BY <1>9 DEF KindRemoveFinalizer
    <2>3. \/ kindRun' = next(kindRun.kind) /\ UNCHANGED kinds
          \/ kindRun' = next(released) /\ PutKind(released) /\ kindRun.fresh
          \/ kindRun' = KindIdle /\ UNCHANGED kinds
      BY <1>9 DEF KindRemoveFinalizer, KindReturn
    <2>4. Lasting # {} => Cardinality(Existing(list)) > 0
      <3>1. Lasting \subseteq Existing(list)
        BY <1>1 DEF Lasting, Existing, Cached, Versions
      <3>2. QED
        BY <3>1, CountTypes
    <2>5. ASSUME NEW kind \in Kind
          PROVE  /\ next(kind).step = "status" /\ next(kind).kind = kind
                 /\ next(kind).fresh = kindRun.fresh /\ next(kind).listed = Lasting
                 /\ next(kind).count = Cardinality(Existing(list))
      <3> HIDE DEF list, usage
      <3>1. QED
        BY <1>1 DEF KindRun
    <2> HIDE DEF next, released, list
    <2>6. ASSUME NEW kind \in Kind, kindRun' = next(kind)
          PROVE  ListComplete'
      BY <1>3, <1>5, <2>2, <2>4, <2>5, <2>6 DEF ListComplete, CountedLasts
    <2>7. CASE kindRun' = next(kindRun.kind) /\ UNCHANGED kinds
      <3>1. KindFresh'
        BY <1>1, <1>3, <1>7, <2>2, <2>5, <2>7 DEF KindFresh
      <3>2. QED
        BY <1>1, <1>5, <1>7, <2>2, <2>6, <2>7, <3>1 DEF ProtectionInv
    <2>8. CASE kindRun' = next(released) /\ PutKind(released) /\ kindRun.fresh
      <3>1. TheKind' = released
        BY <2>1, <2>8, WriteTypes
      <3>2. KindFresh'
        BY <1>3, <2>1, <2>2, <2>5, <2>8, <3>1 DEF KindFresh
      <3>3. CountedWorkspaceKeepsKind'
        BY <1>3, <2>1, <2>2, <2>8, <3>1 DEF CountedWorkspaceKeepsKind, KindFresh
      <3>4. CountedLasts'
        BY <1>3, <1>5, <2>2 DEF CountedLasts
      <3>5. QED
        BY <1>5, <2>1, <2>6, <2>8, <3>2, <3>3, <3>4 DEF ProtectionInv
    <2>9. CASE kindRun' = KindIdle /\ UNCHANGED kinds
      BY <1>5, <1>6, <1>7, <2>2, <2>9 DEF ProtectionInv
    <2>10. QED
      BY <2>3, <2>7, <2>8, <2>9
  <1>10. CASE KindUpdateStatus
    <2> DEFINE new == [kindRun.kind EXCEPT !.count = kindRun.count, !.usage = kindRun.usage]
    <2>1. /\ new \in Kind /\ new.exists = kindRun.kind.exists
          /\ new.deleting = kindRun.kind.deleting /\ new.count = kindRun.count
      BY <1>1 DEF Kind, KindRun
    <2>2. kindRun.step = "status" /\ kindRun' = KindIdle
      BY <1>10 DEF KindUpdateStatus, KindReturn
    <2>3. \/ new = kindRun.kind /\ UNCHANGED kinds /\ Count
          \/ kindRun.fresh /\ PutKind(new) /\ Count
          \/ UNCHANGED <<kinds, counted>>
      BY <1>10 DEF KindUpdateStatus
    <2> HIDE DEF new
    <2>4. /\ counted \subseteq kindRun.listed /\ kindRun.listed \subseteq Lasting
          /\ kindRun.listed # {} => kindRun.count > 0
          /\ kindRun.kind.exists /\ (kindRun.fresh => kindRun.kind = TheKind)
      BY <1>3, <2>2 DEF ListComplete, KindFresh
    <2>5. ASSUME Count, kindRun.fresh, TheKind' = new
          PROVE  CountedWorkspaceKeepsKind' /\ CountedLasts'
      <3>1. CASE kindRun.kind.deleting
        <4>1. counted = {} /\ counted' = counted
          BY <1>3, <2>4, <2>5, <3>1 DEF Count, CountedWorkspaceKeepsKind
        <4>2. QED
          BY <4>1 DEF CountedWorkspaceKeepsKind, CountedLasts
      <3>2. CASE ~kindRun.kind.deleting
        <4>1. counted' = kindRun.listed
          BY <2>4, <2>5, <3>2 DEF Count
        <4>2. QED
          BY <1>5, <2>1, <2>4, <2>5, <3>2, <4>1 DEF CountedWorkspaceKeepsKind, CountedLasts
      <3>3. QED
        BY <3>1, <3>2
    <2>6. CASE new = kindRun.kind /\ UNCHANGED kinds /\ Count
      <3>1. TheKind' = TheKind
        BY <2>6 DEF TheKind
      <3>2. CASE kindRun.fresh
        BY <1>5, <1>6, <2>2, <2>4, <2>5, <2>6, <3>1, <3>2 DEF ProtectionInv
      <3>3. CASE ~kindRun.fresh
        BY <1>5, <1>6, <1>7, <2>2, <2>6, <3>3 DEF Count, ProtectionInv
      <3>4. QED
        BY <3>2, <3>3
    <2>7. CASE kindRun.fresh /\ PutKind(new) /\ Count
      <3>1. TheKind' = new
        BY <2>1, <2>7, WriteTypes
      <3>2. QED
        BY <1>5, <1>6, <2>2, <2>5, <2>7, <3>1 DEF ProtectionInv
    <2>8. CASE UNCHANGED <<kinds, counted>>
      BY <1>5, <1>6, <1>7, <2>2, <2>8 DEF ProtectionInv
    <2>9. QED
      BY <2>3, <2>6, <2>7, <2>8
  <1>11. QED
    BY <1>8, <1>9, <1>10 DEF KindReconcile

\* Every action keeps the invariant.
LEMMA InvStep == TypeOK /\ ProtectionInv /\ [Next]_vars => ProtectionInv'
  <1> SUFFICES ASSUME TypeOK, ProtectionInv, [Next]_vars
               PROVE  ProtectionInv'
    OBVIOUS
  <1>1. /\ kinds \in Versions(Kind) /\ workspaces \in Versions([Names -> Workspace])
        /\ kindRun \in KindRun
    BY DEF TypeOK
  <1>2. TheKind \in Kind /\ Stored(workspaces) \in [Names -> Workspace]
    BY WriteTypes
  <1>3. /\ CountedWorkspaceKeepsKind /\ CountedLasts /\ ListComplete /\ KindFresh /\ WsFresh
    BY DEF ProtectionInv
  <1>4. CASE WatchKind \/ WatchWorkspaces \/ UNCHANGED vars
    <2>1. UNCHANGED <<kindRun, wsRun, counted>>
      BY <1>4 DEF WatchKind, WatchWorkspaces, vars
    <2>2. TheKind' = TheKind
      BY <1>1, <1>4, TailFacts DEF WatchKind, WatchWorkspaces, vars, TheKind
    <2>3. Lasting \subseteq Lasting' /\ Stored(workspaces)' = Stored(workspaces)
      BY <1>4, LastingCache DEF WatchKind, WatchWorkspaces, vars
    <2>4. QED
      BY <1>3, <2>1, <2>2, <2>3, KindUndisturbed, WsUndisturbed DEF ProtectionInv
  <1>5. CASE Crash
    <2>1. TheKind' = TheKind
      BY <1>1, <1>5, RelistedFacts DEF Crash, TheKind
    <2>2. Lasting \subseteq Lasting' /\ UNCHANGED counted
      BY <1>5, LastingCache DEF Crash
    <2>3. CountedWorkspaceKeepsKind' /\ CountedLasts'
      BY <1>3, <2>1, <2>2 DEF CountedWorkspaceKeepsKind, CountedLasts
    <2>4. ListComplete' /\ KindFresh'
      BY <1>5, IdleTypes DEF Crash, ListComplete, KindFresh
    <2>5. WsFresh'
      BY <1>5, IdleTypes DEF Crash, WsFresh
    <2>6. QED
      BY <2>3, <2>4, <2>5 DEF ProtectionInv
  <1>6. ASSUME NEW w \in Names, NEW option \in Options,
               CreateWorkspace(w, option) \/ ChangeWorkspace(w, option)
        PROVE  ProtectionInv'
    <2>1. PICK ws \in Workspace : PutWorkspace(w, ws) /\ ws.exists
      <3>1. /\ [exists |-> TRUE, option |-> option, state |-> "Unknown"] \in Workspace
            /\ [Stored(workspaces)[w] EXCEPT !.option = option] \in Workspace
            /\ [Stored(workspaces)[w] EXCEPT !.option = option].exists
                 = Stored(workspaces)[w].exists
        BY <1>2 DEF Workspace
      <3>2. QED
        BY <1>6, <3>1 DEF CreateWorkspace, ChangeWorkspace
    <2>2. WsStale(w) /\ UNCHANGED <<kinds, kindRun, counted>>
      BY <1>6 DEF CreateWorkspace, ChangeWorkspace
    <2>3. Lasting \subseteq Lasting' /\ TheKind' = TheKind
      BY <2>1, <2>2, LastingPut DEF TheKind
    <2>4. WsFresh'
      BY <1>3, <2>1, <2>2, WsWritten
    <2>5. QED
      BY <2>2, <2>3, <2>4, KindUndisturbed DEF ProtectionInv
  <1>7. ASSUME NEW w \in Names, DeleteWorkspace(w)
        PROVE  ProtectionInv'
    <2>1. /\ PutWorkspace(w, NoWorkspace) /\ WsStale(w) /\ UNCHANGED kinds
          /\ counted' = counted \ {w}
      BY <1>7 DEF DeleteWorkspace
    <2>2. WsFresh'
      BY <1>3, <2>1, IdleTypes, WsWritten
    <2>3. Lasting \ {w} \subseteq Lasting' /\ TheKind' = TheKind
      BY <2>1, IdleTypes, LastingPut DEF TheKind
    <2>4. /\ kindRun'.step = kindRun.step /\ kindRun'.kind = kindRun.kind
          /\ kindRun'.fresh = kindRun.fresh /\ kindRun'.count = kindRun.count
          /\ kindRun'.listed = kindRun.listed \ {w}
      BY <1>1, <1>7 DEF DeleteWorkspace, KindRun
    <2>5. CountedWorkspaceKeepsKind' /\ CountedLasts'
      BY <1>3, <2>1, <2>3 DEF CountedWorkspaceKeepsKind, CountedLasts
    <2>6. ListComplete'
      BY <1>3, <2>1, <2>3, <2>4 DEF ListComplete
    <2>7. KindFresh'
      BY <1>3, <2>3, <2>4 DEF KindFresh
    <2>8. QED
      BY <2>2, <2>5, <2>6, <2>7 DEF ProtectionInv
  <1>8. CASE (\E options \in SUBSET Options : ChangeKind(options)) \/ DeleteKind \/ KindRemoved
    <2>1. KindStale /\ UNCHANGED <<workspaces, wsRun, counted>>
      BY <1>8 DEF ChangeKind, DeleteKind, KindRemoved
    <2>2. Lasting' = Lasting /\ WsFresh'
      BY <1>3, <2>1, WsUndisturbed DEF Lasting
    <2>3. counted # {} => TheKind'.exists /\ ~TheKind'.deleting /\ TheKind'.count > 0
      <3>1. ASSUME NEW options \in SUBSET Options, ChangeKind(options)
            PROVE  counted # {} => TheKind'.exists /\ ~TheKind'.deleting /\ TheKind'.count > 0
        <4> DEFINE new == [TheKind EXCEPT !.options = options]
        <4>1. /\ new \in Kind /\ new.exists = TheKind.exists /\ new.count = TheKind.count
              /\ new.deleting = TheKind.deleting
          BY <1>2 DEF Kind
        <4>2. TheKind' = new
          BY <3>1, <4>1, WriteTypes DEF ChangeKind
        <4>3. QED
          BY <1>3, <4>1, <4>2 DEF CountedWorkspaceKeepsKind
      <3>2. CASE DeleteKind \/ KindRemoved
        <4>1. counted = {}
          BY <1>2, <1>3, <3>2
          DEF DeleteKind, KindRemoved, ValidateKindDelete, CountedWorkspaceKeepsKind, Kind
        <4>2. QED
          BY <4>1
      <3>3. QED
        BY <1>8, <3>1, <3>2
    <2>4. QED
      BY <2>1, <2>2, <2>3, KindWritten DEF ProtectionInv
  <1>9. QED
    BY <1>4, <1>5, <1>6, <1>7, <1>8, WsInv, KindInv DEF Next, UserNext

\* From the moment a published counter has included a Workspace until the
\* Workspace is deleted, its kind exists and ValidateDelete refuses to delete
\* it, for any number of Workspaces, requests, faults and events under way.
THEOREM CountedKeepsKind == Spec => []CountedWorkspaceKeepsKind
  <1>1. ProtectionInv => CountedWorkspaceKeepsKind
    BY DEF ProtectionInv
  <1>2. Spec => []ProtectionInv
    BY TypeCorrect, InitInv, InvStep, PTL DEF Spec
  <1>3. QED
    BY <1>1, <1>2, PTL
=============================================================================
