------------------------ MODULE OwnedResourcesProofs ------------------------
(***************************************************************************)
(* The owned objects of a Workspace never go back to an earlier one of the *)
(* same name, and RoleBindings are deleted only as they were listed, for   *)
(* any roles, names, bounds, mishaps and delays.                           *)
(*                                                                         *)
(* A reconcile writes the UID it read, maybe long ago, into what it finds. *)
(* The inductive invariant says why no later UID is there to be replaced:  *)
(* UIDs rise along the versions of the Workspace, reconciles follow each   *)
(* other and read from a cache that only moves forward, so an object's     *)
(* owner is at most the UID of the reconcile under way and of every        *)
(* version of the Workspace that a later one can read.                     *)
(***************************************************************************)
EXTENDS OwnedResources, InformerProofs, TLAPS

PassType == [at : Stages, ws : WorkspaceVersion, roles : SUBSET Roles, account : 0..MaxNames,
             service : 0..MaxNames, listed : SUBSET Object, desired : SUBSET Roles]
SpentType == [limit : Setting, edits : Nat, mishaps : Nat]

\* A name belongs to one object.
NamesUnique ==
    \A k \in OwnedKinds : \A o, p \in Stored(objs[k]) : o.name = p.name => o = p

\* UIDs rise along the versions of the Workspace, and new ones are greater still.
UidsRise ==
    /\ \A i, j \in 1 .. Len(ws) : i < j /\ ws[i].uid # 0 /\ ws[j].uid # 0 => ws[i].uid <= ws[j].uid
    /\ \A i \in 1 .. Len(ws) : ws[i].uid <= 1 + spent.edits

\* The reconcile under way read a version that is no later than the ones still to be read.
PassIsOld ==
    pass.at # "idle" =>
      /\ pass.ws.uid <= 1 + spent.edits
      /\ \A i \in 1 .. Len(ws) : ws[i].uid # 0 => pass.ws.uid <= ws[i].uid

\* u is no later than the reconcile under way and what reconciles can still read.
IsOld(u) ==
    /\ u <= 1 + spent.edits
    /\ pass.at # "idle" => u <= pass.ws.uid
    /\ \A i \in 1 .. Len(ws) : ws[i].uid # 0 => u <= ws[i].uid

OwnersAreOld == \A k \in OwnedKinds : \A o \in Stored(objs[k]) : IsOld(o.owner)

OwnInv == TypeOK /\ NamesUnique /\ UidsRise /\ PassIsOld /\ OwnersAreOld

-----------------------------------------------------------------------------
(***************************************************************************)
(* What a step of a reconcile can do: leave the objects alone or store     *)
(* another set of them, and end the reconcile or go on with it.            *)
(***************************************************************************)

\* The set of objects that replaces the stored one of kind k: what is new in it, is the
\* reconcile's; what is no longer in it, was listed.
Replaces(k, set) ==
    /\ set \in SUBSET Object
    /\ \A o, p \in set : o.name = p.name => o = p
    /\ \A p \in set : p \in Stored(objs[k]) \/ p.owner = pass.ws.uid
    /\ \A o \in Stored(objs[k]), p \in set : o.name = p.name => o = p \/ p.owner = pass.ws.uid
    /\ \A o \in Stored(objs[k]) : o \in pass.listed \/ \E p \in set : p.name = o.name

ObjectsStep ==
    \/ objs' = objs
    \/ \E k \in OwnedKinds, set \in SUBSET Object : Write(k, set) /\ Replaces(k, set)

\* The reconcile ends, maybe with a new status of the Workspace that it read.
PassEnds ==
    /\ pass' = Idle
    /\ \/ ws' = ws
       \/ \E w \in WorkspaceVersion : w.uid = Stored(ws).uid /\ ws' = Put(ws, w)

PassGoesOn == pass' \in PassType /\ pass'.ws = pass.ws /\ ws' = ws

PassStep ==
    /\ pass.at # "idle"
    /\ ObjectsStep
    /\ PassEnds \/ PassGoesOn
    /\ spent' \in SpentType /\ spent'.edits = spent.edits
    /\ queued' \in BOOLEAN
    /\ grants' = grants

\* Idle is a pass.
LEMMA IdleType == Idle \in PassType /\ Idle.at = "idle" /\ Idle.ws.uid = 0
  BY BoundsAssumption DEF Idle, PassType, Stages, WorkspaceVersion, WorkspaceStates

\* The parts of the type invariant.
LEMMA OwnTypes ==
    ASSUME OwnInv
    PROVE  /\ ws \in Versions(WorkspaceVersion) /\ grants \in Versions(SUBSET Roles)
           /\ objs \in [OwnedKinds -> Versions(SUBSET Object)] /\ pass \in PassType
           /\ queued \in BOOLEAN /\ spent \in SpentType
           /\ Stored(ws) \in WorkspaceVersion
           /\ \A k \in OwnedKinds : /\ objs[k] \in Versions(SUBSET Object)
                                    /\ Stored(objs[k]) \in SUBSET Object
                                    /\ Cached(objs[k]) \in SUBSET Object
  <1>1. /\ ws \in Versions(WorkspaceVersion) /\ grants \in Versions(SUBSET Roles)
        /\ objs \in [OwnedKinds -> Versions(SUBSET Object)] /\ pass \in PassType
        /\ queued \in BOOLEAN /\ spent \in SpentType
    BY DEF OwnInv, TypeOK, PassType, SpentType
  <1> QED
    BY <1>1, ReadType

LEMMA OwnInit == Init => OwnInv
  <1> SUFFICES ASSUME Init PROVE OwnInv
    OBVIOUS
  <1>1. [uid |-> 1, state |-> "None"] \in WorkspaceVersion
    BY DEF WorkspaceVersion, WorkspaceStates
  <1>2. ws = <<[uid |-> 1, state |-> "None"]>> /\ Len(ws) = 1 /\ ws[1].uid = 1
    BY DEF Init
  <1>3. ws \in Versions(WorkspaceVersion)
    BY <1>1, <1>2 DEF Versions
  <1>4. grants \in Versions(SUBSET Roles)
    <2>1. PICK r \in SUBSET Roles : grants = <<r>>
      BY DEF Init
    <2> QED
      BY <2>1 DEF Versions
  <1>5. <<{}>> \in Versions(SUBSET Object) /\ Stored(<<{}>>) = {}
    BY DEF Versions, Stored
  <1>6. objs \in [OwnedKinds -> Versions(SUBSET Object)] /\ \A k \in OwnedKinds : Stored(objs[k]) = {}
    BY <1>5 DEF Init
  <1>7. pass = Idle /\ queued = TRUE
    BY DEF Init
  <1>8. spent \in SpentType /\ spent.edits = 0
    BY BoundsAssumption DEF Init, SpentType
  <1>9. TypeOK
    BY <1>3, <1>4, <1>6, <1>7, <1>8, IdleType DEF TypeOK, PassType, SpentType
  <1>10. NamesUnique /\ OwnersAreOld
    BY <1>6 DEF NamesUnique, OwnersAreOld
  <1>11. UidsRise /\ PassIsOld
    BY <1>2, <1>7, <1>8, IdleType DEF UidsRise, PassIsOld
  <1> QED
    BY <1>9, <1>10, <1>11 DEF OwnInv

-----------------------------------------------------------------------------
(***************************************************************************)
(* Such a step keeps the invariant.                                        *)
(***************************************************************************)

\* What is stored after a write.
LEMMA WriteFacts ==
    ASSUME OwnInv, NEW k \in OwnedKinds, NEW set \in SUBSET Object, Write(k, set)
    PROVE  /\ objs' \in [OwnedKinds -> Versions(SUBSET Object)]
           /\ Stored(objs'[k]) = set
           /\ \A j \in OwnedKinds : j # k => objs'[j] = objs[j]
  <1>1. objs[k] \in Versions(SUBSET Object) /\ objs \in [OwnedKinds -> Versions(SUBSET Object)]
    BY OwnTypes
  <1>2. Put(objs[k], set) \in Versions(SUBSET Object) /\ Stored(Put(objs[k], set)) = set
    BY <1>1, PutFacts
  <1> QED
    BY <1>1, <1>2 DEF Write

\* What is old stays old when the reconcile ends or goes on.
LEMMA OldStaysOld ==
    ASSUME OwnInv, PassStep, NEW u \in Nat, IsOld(u)
    PROVE  IsOld(u)'
  <1>1. ws \in Versions(WorkspaceVersion) /\ Stored(ws) \in WorkspaceVersion
    BY OwnTypes
  <1>2. spent'.edits = spent.edits /\ pass.at # "idle"
    BY DEF PassStep
  <1>3. pass'.at # "idle" => u <= pass'.ws.uid
    <2>1. CASE PassEnds
      BY <2>1, IdleType DEF PassEnds
    <2>2. CASE PassGoesOn
      BY <1>2, <2>2 DEF PassGoesOn, IsOld
    <2> QED
      BY <2>1, <2>2 DEF PassStep
  <1>4. \A i \in 1 .. Len(ws') : ws'[i].uid # 0 => u <= ws'[i].uid
    <2>1. CASE ws' = ws
      BY <2>1 DEF IsOld
    <2>2. CASE \E w \in WorkspaceVersion : w.uid = Stored(ws).uid /\ ws' = Put(ws, w)
      <3>1. PICK w \in WorkspaceVersion : w.uid = Stored(ws).uid /\ ws' = Put(ws, w)
        BY <2>2
      <3>2. /\ Len(ws') = Len(ws) + 1 /\ ws'[Len(ws) + 1] = w /\ Len(ws) \in Nat \ {0}
            /\ \A i \in 1 .. Len(ws) : ws'[i] = ws[i]
        <4>1. Len(ws) \in Nat \ {0}
          BY <1>1 DEF Versions
        <4> QED
          BY <1>1, <3>1, <4>1, PutFacts
      <3>3. Stored(ws) = ws[Len(ws)]
        BY DEF Stored
      <3>4. ASSUME NEW i \in 1 .. Len(ws'), ws'[i].uid # 0
            PROVE  u <= ws'[i].uid
        <4>1. CASE i \in 1 .. Len(ws)
          BY <3>2, <3>4, <4>1 DEF IsOld
        <4>2. CASE i = Len(ws) + 1
          BY <3>1, <3>2, <3>3, <3>4, <4>2 DEF IsOld
        <4> QED
          BY <3>2, <4>1, <4>2
      <3> QED
        BY <3>4
    <2> QED
      BY <2>1, <2>2 DEF PassStep, PassEnds, PassGoesOn
  <1> QED
    BY <1>2, <1>3, <1>4 DEF IsOld

LEMMA PassStepKeeps ==
    ASSUME OwnInv, PassStep
    PROVE  OwnInv'
  <1>1. /\ ws \in Versions(WorkspaceVersion) /\ objs \in [OwnedKinds -> Versions(SUBSET Object)]
        /\ pass \in PassType /\ grants \in Versions(SUBSET Roles) /\ spent \in SpentType
        /\ Stored(ws) \in WorkspaceVersion
    BY OwnTypes
  <1>2. spent'.edits = spent.edits /\ spent.edits \in Nat /\ pass.at # "idle"
    BY <1>1 DEF PassStep, SpentType
  <1>3. ws' \in Versions(WorkspaceVersion) /\ UidsRise'
    <2>1. CASE ws' = ws
      BY <1>1, <1>2, <2>1 DEF OwnInv, UidsRise
    <2>2. CASE \E w \in WorkspaceVersion : w.uid = Stored(ws).uid /\ ws' = Put(ws, w)
      <3>1. PICK w \in WorkspaceVersion : w.uid = Stored(ws).uid /\ ws' = Put(ws, w)
        BY <2>2
      <3>2. /\ Len(ws') = Len(ws) + 1 /\ ws'[Len(ws) + 1] = w /\ Len(ws) \in Nat \ {0}
            /\ \A i \in 1 .. Len(ws) : ws'[i] = ws[i]
            /\ ws' \in Versions(WorkspaceVersion)
        <4>1. Len(ws) \in Nat \ {0}
          BY <1>1 DEF Versions
        <4> QED
          BY <1>1, <3>1, <4>1, PutFacts
      <3>3. w.uid = ws[Len(ws)].uid /\ Len(ws) \in 1 .. Len(ws)
        BY <3>1, <3>2 DEF Stored
      <3>4. ASSUME NEW i \in 1 .. Len(ws'), NEW j \in 1 .. Len(ws'), i < j,
                   ws'[i].uid # 0, ws'[j].uid # 0
            PROVE  ws'[i].uid <= ws'[j].uid
        <4>1. i \in 1 .. Len(ws) /\ ws'[i] = ws[i] /\ ws[i].uid \in Nat
          <5>1. i \in 1 .. Len(ws) /\ ws'[i] = ws[i]
            BY <3>2, <3>4
          <5>2. ws[i] \in WorkspaceVersion
            BY <1>1, <5>1 DEF Versions
          <5> QED
            BY <5>1, <5>2 DEF WorkspaceVersion
        <4>2. CASE j \in 1 .. Len(ws)
          BY <3>2, <3>4, <4>1, <4>2 DEF OwnInv, UidsRise
        <4>3. CASE j = Len(ws) + 1
          BY <3>2, <3>3, <3>4, <4>1, <4>3 DEF OwnInv, UidsRise
        <4> QED
          BY <3>2, <4>2, <4>3
      <3>5. ASSUME NEW i \in 1 .. Len(ws')
            PROVE  ws'[i].uid <= 1 + spent'.edits
        BY <1>2, <3>2, <3>3 DEF OwnInv, UidsRise
      <3> QED
        BY <3>2, <3>4, <3>5 DEF UidsRise
    <2> QED
      BY <2>1, <2>2 DEF PassStep, PassEnds, PassGoesOn
  <1>4. pass' \in PassType
    BY IdleType DEF PassStep, PassEnds, PassGoesOn
  <1>5. PassIsOld'
    <2>1. CASE PassEnds
      BY <2>1, IdleType DEF PassEnds, PassIsOld
    <2>2. CASE PassGoesOn
      BY <1>2, <2>2 DEF PassGoesOn, PassIsOld, OwnInv
    <2> QED
      BY <2>1, <2>2 DEF PassStep
  <1>6. IsOld(pass.ws.uid) /\ pass.ws.uid \in Nat
    BY <1>1, <1>2 DEF OwnInv, PassIsOld, IsOld, PassType, WorkspaceVersion
  <1>7. ASSUME NEW j \in OwnedKinds, NEW o \in Stored(objs[j])
        PROVE  IsOld(o.owner)'
    <2>1. o.owner \in Nat /\ IsOld(o.owner)
      BY OwnTypes DEF OwnInv, OwnersAreOld, Object
    <2> QED
      BY <2>1, OldStaysOld
  <1>8. /\ objs' \in [OwnedKinds -> Versions(SUBSET Object)] /\ NamesUnique' /\ OwnersAreOld'
    <2>1. CASE objs' = objs
      BY <1>1, <1>7, <2>1 DEF OwnInv, NamesUnique, OwnersAreOld
    <2>2. ASSUME NEW k \in OwnedKinds, NEW set \in SUBSET Object, Write(k, set), Replaces(k, set)
          PROVE  /\ objs' \in [OwnedKinds -> Versions(SUBSET Object)]
                 /\ NamesUnique' /\ OwnersAreOld'
      <3>1. /\ objs' \in [OwnedKinds -> Versions(SUBSET Object)]
            /\ Stored(objs'[k]) = set
            /\ \A j \in OwnedKinds : j # k => objs'[j] = objs[j]
        BY <2>2, WriteFacts
      <3>2. NamesUnique'
        BY <2>2, <3>1 DEF NamesUnique, OwnInv, Replaces
      <3>3. ASSUME NEW j \in OwnedKinds, NEW p \in Stored(objs'[j])
            PROVE  IsOld(p.owner)'
        <4>1. CASE j # k \/ p \in Stored(objs[k])
          BY <1>7, <3>1, <3>3, <4>1
        <4>2. CASE j = k /\ p.owner = pass.ws.uid
          <5>1. PICK u \in Nat : u = pass.ws.uid
            BY <1>6
          <5>2. IsOld(u)'
            BY <1>6, <5>1, OldStaysOld
          <5> QED
            BY <4>2, <5>1, <5>2 DEF IsOld
        <4> QED
          BY <2>2, <3>1, <3>3, <4>1, <4>2 DEF Replaces
      <3>4. OwnersAreOld'
        BY <3>3 DEF OwnersAreOld
      <3> QED
        BY <3>1, <3>2, <3>4
    <2> QED
      BY <2>1, <2>2 DEF PassStep, ObjectsStep
  <1>9. TypeOK'
    BY <1>1, <1>3, <1>4, <1>8 DEF TypeOK, PassStep, PassType, SpentType
  <1> QED
    BY <1>3, <1>5, <1>8, <1>9 DEF OwnInv

-----------------------------------------------------------------------------
(***************************************************************************)
(* How the calls of a reconcile change the state.                          *)
(***************************************************************************)

\* Requeue and updateWorkspaceState() end the reconcile.
LEMMA RequeueEnds ==
    ASSUME OwnInv, Requeue
    PROVE  PassEnds /\ queued' \in BOOLEAN
  BY DEF Requeue, PassEnds

LEMMA UpdateStateEnds ==
    ASSUME OwnInv, NEW st \in WorkspaceStates, NEW again \in BOOLEAN,
           UpdateWorkspaceState(st, again)
    PROVE  PassEnds /\ queued' \in BOOLEAN
  <1>1. queued \in BOOLEAN /\ pass.ws \in WorkspaceVersion
    BY OwnTypes DEF PassType
  <1>2. CASE pass.ws.state = st /\ pass' = Idle /\ queued' = (queued \/ again) /\ UNCHANGED ws
    BY <1>1, <1>2 DEF PassEnds
  <1>3. CASE /\ pass.ws.state # st /\ Stored(ws) = pass.ws /\ Room
             /\ ws' = Put(ws, [pass.ws EXCEPT !.state = st])
             /\ pass' = Idle /\ queued' = (queued \/ again)
    <2> DEFINE w == [pass.ws EXCEPT !.state = st]
    <2>1. w \in WorkspaceVersion /\ w.uid = pass.ws.uid
      BY <1>1 DEF WorkspaceVersion
    <2> HIDE DEF w
    <2>2. w.uid = Stored(ws).uid /\ ws' = Put(ws, w)
      BY <1>3, <2>1 DEF w
    <2> QED
      BY <1>1, <1>3, <2>1, <2>2 DEF PassEnds
  <1>4. CASE pass.ws.state # st /\ Stored(ws) # pass.ws /\ Requeue
    BY <1>4, RequeueEnds
  <1> QED
    BY <1>2, <1>3, <1>4 DEF UpdateWorkspaceState

LEMMA ThenErrorEnds ==
    ASSUME OwnInv, UpdateWorkspaceStateThenError
    PROVE  PassEnds /\ queued' \in BOOLEAN
  BY UpdateStateEnds DEF UpdateWorkspaceStateThenError, WorkspaceStates

\* A mishap is counted; nothing else of the bounds changes.
LEMMA MishapCounts ==
    ASSUME OwnInv, CountMishap
    PROVE  spent' \in SpentType /\ spent'.edits = spent.edits
  <1>1. spent \in SpentType /\ spent.mishaps + 1 \in Nat
    BY OwnTypes DEF SpentType
  <1> QED
    BY <1>1 DEF CountMishap, SpentType

LEMMA FailedCallStep ==
    ASSUME OwnInv, pass.at # "idle", FailedCall, grants' = grants
    PROVE  PassStep
  BY ThenErrorEnds, MishapCounts DEF FailedCall, PassStep, ObjectsStep

LEMMA RefusedUpdateStep ==
    ASSUME OwnInv, pass.at # "idle", NEW k, NEW o, RefusedUpdate(k, o), grants' = grants
    PROVE  PassStep
  <1>1. PassEnds /\ queued' \in BOOLEAN
    BY ThenErrorEnds, RequeueEnds DEF RefusedUpdate
  <1>2. spent' \in SpentType /\ spent'.edits = spent.edits
    BY OwnTypes DEF RefusedUpdate
  <1> QED
    BY <1>1, <1>2 DEF RefusedUpdate, PassStep, ObjectsStep

\* The objects stay, and so do the bounds.
LEMMA QuietStep ==
    ASSUME OwnInv, pass.at # "idle", UNCHANGED <<objs, spent, grants>>,
           PassEnds \/ PassGoesOn, queued' \in BOOLEAN
    PROVE  PassStep
  BY OwnTypes DEF PassStep, ObjectsStep

\* A created object has a new name and belongs to the Workspace that was read.
LEMMA GeneratedFacts ==
    ASSUME OwnInv, NEW k \in OwnedKinds, FreshNames(k) # {}, NEW spec \in 0..MaxNames,
           NEW role \in Roles \cup {NoRole}
    PROVE  LET o == Generate(k, spec, role)
           IN  /\ o \in Object /\ o.owner = pass.ws.uid /\ o.name \in 1..MaxNames
               /\ \A p \in Stored(objs[k]) : p.name # o.name
  <1> DEFINE n == CHOOSE n \in FreshNames(k) : TRUE
             o == Generate(k, spec, role)
  <1>1. n \in FreshNames(k)
    OBVIOUS
  <1> HIDE DEF n
  <1>2. o = [name |-> n, owner |-> pass.ws.uid, spec |-> spec, role |-> role, rv |-> 0]
    BY DEF Generate, n
  <1>3. n \in 1..MaxNames /\ n \notin Taken(k)
    BY <1>1 DEF FreshNames
  <1>4. pass.ws.uid \in Nat /\ spec \in 0..Foreign
    BY OwnTypes, BoundsAssumption DEF PassType, WorkspaceVersion, Foreign
  <1>5. o \in Object
    BY <1>2, <1>3, <1>4 DEF Object
  <1>6. ASSUME NEW p \in Stored(objs[k]) PROVE p.name # n
    <2>1. Len(objs[k]) \in 1 .. Len(objs[k]) /\ Stored(objs[k]) = objs[k][Len(objs[k])]
      BY OwnTypes DEF Versions, Stored
    <2>2. p \in Seen(k)
      BY <2>1 DEF Seen
    <2>3. p.name \in Taken(k)
      BY <2>2 DEF Taken
    <2> QED
      BY <1>3, <2>3
  <1> QED
    BY <1>2, <1>3, <1>5, <1>6

LEMMA CreateReplaces ==
    ASSUME OwnInv, NEW k \in OwnedKinds, NEW spec \in 0..MaxNames,
           NEW role \in Roles \cup {NoRole}, CreateObject(k, Generate(k, spec, role))
    PROVE  /\ ObjectsStep /\ spent' = spent
           /\ Generate(k, spec, role).name \in 1..MaxNames
  <1> DEFINE o == Generate(k, spec, role)
             set == Stored(objs[k]) \cup {o}
  <1>1. FreshNames(k) # {} /\ Write(k, set) /\ spent' = spent
    BY DEF CreateObject
  <1>2. /\ o \in Object /\ o.owner = pass.ws.uid /\ o.name \in 1..MaxNames
        /\ \A p \in Stored(objs[k]) : p.name # o.name
    BY <1>1, GeneratedFacts
  <1> HIDE DEF o
  <1>3. Stored(objs[k]) \in SUBSET Object /\ \A x, y \in Stored(objs[k]) : x.name = y.name => x = y
    BY OwnTypes DEF OwnInv, NamesUnique
  <1>4. Replaces(k, set)
    BY <1>2, <1>3 DEF Replaces
  <1> QED
    BY <1>1, <1>2, <1>3, <1>4 DEF ObjectsStep, o

\* An update keeps the name, and hands the object to the Workspace that was read.
LEMMA AdoptedFacts ==
    ASSUME OwnInv, NEW o \in Object, NEW spec \in 0..MaxNames
    PROVE  LET p == [Adopted(o, spec) EXCEPT !.rv = NextVersion(o)]
           IN  p \in Object /\ p.name = o.name /\ p.owner = pass.ws.uid
  <1>1. pass.ws.uid \in Nat /\ spec \in 0..Foreign
    BY OwnTypes, BoundsAssumption DEF PassType, WorkspaceVersion, Foreign
  <1>2. NextVersion(o) \in Nat
    BY DEF NextVersion, Object
  <1> QED
    BY <1>1, <1>2 DEF Adopted, Object

LEMMA UpdateReplaces ==
    ASSUME OwnInv, NEW k \in OwnedKinds, NEW o \in Object, NEW spec \in 0..MaxNames,
           UpdateObject(k, o, Adopted(o, spec))
    PROVE  ObjectsStep /\ spent' = spent
  <1> DEFINE p == [Adopted(o, spec) EXCEPT !.rv = NextVersion(o)]
             set == (Stored(objs[k]) \ {o}) \cup {p}
  <1>1. o \in Stored(objs[k]) /\ Write(k, set) /\ spent' = spent
    BY DEF UpdateObject, Unchanged
  <1>2. p \in Object /\ p.name = o.name /\ p.owner = pass.ws.uid
    BY AdoptedFacts
  <1> HIDE DEF p
  <1>3. Stored(objs[k]) \in SUBSET Object /\ \A x, y \in Stored(objs[k]) : x.name = y.name => x = y
    BY OwnTypes DEF OwnInv, NamesUnique
  <1>4. Replaces(k, set)
    BY <1>1, <1>2, <1>3 DEF Replaces
  <1> QED
    BY <1>1, <1>2, <1>3, <1>4 DEF ObjectsStep

-----------------------------------------------------------------------------
(***************************************************************************)
(* The steps of the reconcile, once it has begun, are such steps.          *)
(***************************************************************************)
LEMMA ContinueGoesOn ==
    ASSUME OwnInv, NEW k, NEW next \in Stages, NEW name \in 0..MaxNames, Continue(k, next, name)
    PROVE  PassGoesOn /\ queued' \in BOOLEAN
  <1>1. pass \in PassType /\ queued \in BOOLEAN
    BY OwnTypes
  <1> DEFINE a == IF k = "ServiceAccount" THEN name ELSE pass.account
             s == IF k = "Service" THEN name ELSE pass.service
  <1>2. a \in 0..MaxNames /\ s \in 0..MaxNames
    BY <1>1 DEF PassType
  <1>3. pass' = [pass EXCEPT !.at = next, !.account = a, !.service = s] /\ ws' = ws /\ queued' = queued
    BY DEF Continue
  <1> HIDE DEF a, s
  <1>4. pass' \in PassType /\ pass'.ws = pass.ws
    BY <1>1, <1>2, <1>3 DEF PassType
  <1> QED
    BY <1>1, <1>3, <1>4 DEF PassGoesOn

LEMMA ReconcileOneStep ==
    ASSUME OwnInv, NEW k \in Singles, NEW spec \in 0..MaxNames, NEW next \in Stages,
           ReconcileOne(k, spec, next)
    PROVE  PassStep
  <1> DEFINE found == Cached(objs[k])
  <1>1. k \in OwnedKinds /\ k # "idle" /\ pass.at = k /\ pass.at # "idle" /\ grants' = grants
    BY DEF ReconcileOne, OwnedKinds, Singles
  <1>2. found \in SUBSET Object
    BY <1>1, OwnTypes
  <1>3. CASE UpdateWorkspaceState("Multiple", FALSE) /\ UNCHANGED <<objs, spent>>
    <2>1. PassEnds /\ queued' \in BOOLEAN
      BY <1>3, UpdateStateEnds DEF WorkspaceStates
    <2> QED
      BY <1>1, <1>3, <2>1, QuietStep
  <1>4. CASE LET o == Generate(k, spec, NoRole)
             IN  \/ CreateObject(k, o) /\ Continue(k, next, o.name)
                 \/ FailedCall
    <2>1. CASE FailedCall
      BY <1>1, <2>1, FailedCallStep
    <2>2. CASE CreateObject(k, Generate(k, spec, NoRole))
               /\ Continue(k, next, Generate(k, spec, NoRole).name)
      <3>1. ObjectsStep /\ spent' = spent /\ Generate(k, spec, NoRole).name \in 0..MaxNames
        BY <1>1, <2>2, CreateReplaces, BoundsAssumption
      <3>2. PassGoesOn /\ queued' \in BOOLEAN
        BY <2>2, <3>1, ContinueGoesOn
      <3> QED
        BY <1>1, <3>1, <3>2, OwnTypes DEF PassStep
    <2> QED
      BY <1>4, <2>1, <2>2
  <1>5. ASSUME NEW o \in found,
               LET p == Adopted(o, spec)
               IN  \/ /\ p = o /\ Continue(k, next, o.name)
                      /\ UNCHANGED <<objs, spent>>
                   \/ p # o /\ UpdateObject(k, o, p) /\ Continue(k, next, o.name)
                   \/ p # o /\ RefusedUpdate(k, o)
                   \/ p # o /\ FailedCall
        PROVE  PassStep
    <2>1. o \in Object /\ o.name \in 0..MaxNames
      BY <1>2, BoundsAssumption DEF Object
    <2>2. CASE Continue(k, next, o.name) /\ UNCHANGED <<objs, spent>>
      <3>1. PassGoesOn /\ queued' \in BOOLEAN
        BY <2>1, <2>2, ContinueGoesOn
      <3> QED
        BY <1>1, <2>2, <3>1, QuietStep
    <2>3. CASE UpdateObject(k, o, Adopted(o, spec)) /\ Continue(k, next, o.name)
      <3>1. ObjectsStep /\ spent' = spent
        BY <1>1, <2>1, <2>3, UpdateReplaces
      <3>2. PassGoesOn /\ queued' \in BOOLEAN
        BY <2>1, <2>3, ContinueGoesOn
      <3> QED
        BY <1>1, <3>1, <3>2, OwnTypes DEF PassStep
    <2>4. CASE RefusedUpdate(k, o)
      BY <1>1, <2>4, RefusedUpdateStep
    <2>5. CASE FailedCall
      BY <1>1, <2>5, FailedCallStep
    <2> QED
      BY <1>5, <2>2, <2>3, <2>4, <2>5
  <1> QED
    BY <1>3, <1>4, <1>5 DEF ReconcileOne

LEMMA ListRoleBindingsStep ==
    ASSUME OwnInv, ListRoleBindings
    PROVE  PassStep
  <1>1. pass \in PassType /\ queued \in BOOLEAN /\ Cached(objs["RoleBinding"]) \in SUBSET Object
    BY OwnTypes DEF OwnedKinds
  <1>2. PassGoesOn
    <2>1. pass' = [pass EXCEPT !.at = "RoleBindings", !.desired = pass.roles,
                               !.listed = Cached(objs["RoleBinding"])] /\ ws' = ws
      BY DEF ListRoleBindings
    <2>2. "RoleBindings" \in Stages
      BY DEF Stages
    <2> QED
      BY <1>1, <2>1, <2>2 DEF PassGoesOn, PassType
  <1> QED
    BY <1>1, <1>2, QuietStep DEF ListRoleBindings

\* What is left of the loops' variables.
LEMMA LoopGoesOn ==
    ASSUME OwnInv, NEW d \in SUBSET Roles, NEW l \in SUBSET Object,
           pass' = [pass EXCEPT !.desired = d, !.listed = l], UNCHANGED <<ws, queued>>
    PROVE  PassGoesOn /\ queued' \in BOOLEAN
  BY OwnTypes DEF PassGoesOn, PassType

LEMMA KeepRoleBindingStep ==
    ASSUME OwnInv, pass.at # "idle", NEW o \in pass.listed, KeepRoleBinding(o), grants' = grants
    PROVE  PassStep
  <1>1. pass \in PassType /\ o \in Object /\ pass.account \in 0..MaxNames
    BY OwnTypes DEF PassType
  <1>2. "RoleBinding" \in OwnedKinds
    BY DEF OwnedKinds
  <1> DEFINE p == Adopted(o, pass.account)
             kept == /\ pass' = [pass EXCEPT !.desired = @ \ {o.role}, !.listed = @ \ {o}]
                     /\ UNCHANGED <<ws, queued>>
  <1>3. ASSUME kept PROVE PassGoesOn /\ queued' \in BOOLEAN
    <2>1. pass.desired \ {o.role} \in SUBSET Roles /\ pass.listed \ {o} \in SUBSET Object
      BY <1>1 DEF PassType
    <2>2. pass' = [pass EXCEPT !.desired = pass.desired \ {o.role}, !.listed = pass.listed \ {o}]
          /\ UNCHANGED <<ws, queued>>
      BY <1>3
    <2> QED
      BY <2>1, <2>2, LoopGoesOn
  <1>4. CASE kept /\ UNCHANGED <<objs, spent>>
    BY <1>3, <1>4, QuietStep
  <1>5. CASE UpdateObject("RoleBinding", o, p) /\ kept
    <2>1. ObjectsStep /\ spent' = spent
      BY <1>1, <1>2, <1>5, UpdateReplaces
    <2> QED
      BY <1>3, <1>5, <2>1, OwnTypes DEF PassStep
  <1>6. CASE RefusedUpdate("RoleBinding", o)
    BY <1>6, RefusedUpdateStep
  <1>7. CASE FailedCall
    BY <1>7, FailedCallStep
  <1> QED
    BY <1>4, <1>5, <1>6, <1>7 DEF KeepRoleBinding

LEMMA DeleteRoleBindingStep ==
    ASSUME OwnInv, pass.at # "idle", NEW o \in pass.listed, DeleteRoleBinding(o), grants' = grants
    PROVE  PassStep
  <1>1. pass \in PassType
    BY OwnTypes
  <1>2. "RoleBinding" \in OwnedKinds
    BY DEF OwnedKinds
  <1>3. ASSUME pass' = [pass EXCEPT !.listed = @ \ {o}], UNCHANGED <<ws, queued>>
        PROVE  PassGoesOn /\ queued' \in BOOLEAN
    <2>1. pass.desired \in SUBSET Roles /\ pass.listed \ {o} \in SUBSET Object
      BY <1>1 DEF PassType
    <2>2. pass' = [pass EXCEPT !.desired = pass.desired, !.listed = pass.listed \ {o}]
      BY <1>1, <1>3 DEF PassType
    <2> QED
      BY <1>3, <2>1, <2>2, LoopGoesOn
  <1>4. CASE FailedCall
    BY <1>4, FailedCallStep
  <1>5. CASE /\ Unchanged("RoleBinding", o) /\ Room
             /\ Write("RoleBinding", Stored(objs["RoleBinding"]) \ {o})
             /\ pass' = [pass EXCEPT !.listed = @ \ {o}]
             /\ UNCHANGED <<ws, queued>> /\ UNCHANGED spent
    <2> DEFINE set == Stored(objs["RoleBinding"]) \ {o}
    <2>1. /\ Stored(objs["RoleBinding"]) \in SUBSET Object
          /\ \A x, y \in Stored(objs["RoleBinding"]) : x.name = y.name => x = y
      BY <1>2, OwnTypes DEF OwnInv, NamesUnique
    <2>2. Replaces("RoleBinding", set) /\ set \in SUBSET Object
      BY <2>1 DEF Replaces
    <2>3. ObjectsStep
      BY <1>2, <1>5, <2>2 DEF ObjectsStep
    <2> QED
      BY <1>3, <1>5, <2>3, OwnTypes DEF PassStep
  <1>6. CASE /\ pass' = [pass EXCEPT !.listed = @ \ {o}]
             /\ UNCHANGED <<objs, ws, queued>> /\ UNCHANGED spent
    BY <1>3, <1>6, QuietStep
  <1>7. CASE Requeue /\ UNCHANGED objs /\ UNCHANGED spent
    BY <1>7, RequeueEnds, QuietStep
  <1> QED
    BY <1>4, <1>5, <1>6, <1>7 DEF DeleteRoleBinding, DeleteObject

LEMMA CreateRoleBindingStep ==
    ASSUME OwnInv, CreateRoleBinding
    PROVE  PassStep
  <1>1. pass \in PassType /\ pass.at # "idle" /\ grants' = grants /\ pass.account \in 0..MaxNames
    BY OwnTypes DEF CreateRoleBinding, PassType
  <1>2. "RoleBinding" \in OwnedKinds
    BY DEF OwnedKinds
  <1>3. CASE FailedCall
    BY <1>1, <1>3, FailedCallStep
  <1>4. ASSUME NEW r \in pass.desired,
               CreateObject("RoleBinding", Generate("RoleBinding", pass.account, r)),
               pass' = [pass EXCEPT !.desired = @ \ {r}], UNCHANGED <<ws, queued>>
        PROVE  PassStep
    <2>1. r \in Roles \cup {NoRole} /\ pass.desired \ {r} \in SUBSET Roles
          /\ pass.listed \in SUBSET Object
      BY <1>1 DEF PassType
    <2>2. ObjectsStep /\ spent' = spent
      BY <1>1, <1>2, <1>4, <2>1, CreateReplaces
    <2>3. pass' = [pass EXCEPT !.desired = pass.desired \ {r}, !.listed = pass.listed]
      BY <1>1, <1>4 DEF PassType
    <2>4. PassGoesOn /\ queued' \in BOOLEAN
      BY <1>4, <2>1, <2>3, LoopGoesOn
    <2> QED
      BY <1>1, <2>2, <2>4, OwnTypes DEF PassStep
  <1> QED
    BY <1>3, <1>4 DEF CreateRoleBinding

LEMMA RoleBindingsDoneStep ==
    ASSUME OwnInv, RoleBindingsDone
    PROVE  PassStep
  <1>1. pass' = [Idle EXCEPT !.at = "Finish", !.ws = pass.ws] /\ "Finish" \in Stages
        /\ pass.ws \in WorkspaceVersion
    BY OwnTypes DEF RoleBindingsDone, Stages, PassType
  <1>2. PassGoesOn
    BY <1>1, IdleType DEF PassGoesOn, PassType, RoleBindingsDone, Idle
  <1> QED
    BY <1>2, QuietStep, OwnTypes DEF RoleBindingsDone

LEMMA FinishReconcileStep ==
    ASSUME OwnInv, FinishReconcile
    PROVE  PassStep
  BY UpdateStateEnds, QuietStep DEF FinishReconcile, WorkspaceStates

\* Every step of a reconcile after its first one.
LEMMA ReconcileIsPassStep ==
    ASSUME OwnInv, ReconcileStep, ~BeginReconcile
    PROVE  PassStep
  <1>1. pass.account \in 0..MaxNames /\ pass.service \in 0..MaxNames /\ 0 \in 0..MaxNames
    BY OwnTypes, BoundsAssumption DEF PassType
  <1>2. {"StatefulSet", "Service", "VirtualService", "ListRoleBindings"} \subseteq Stages
    BY DEF Stages
  <1>3. CASE ReconcileServiceAccount
    BY <1>1, <1>2, <1>3, ReconcileOneStep DEF ReconcileServiceAccount, Singles
  <1>4. CASE ReconcileStatefulSet
    BY <1>1, <1>2, <1>4, ReconcileOneStep DEF ReconcileStatefulSet, Singles
  <1>5. CASE ReconcileService
    <2>1. PICK next \in Stages : ReconcileOne("Service", 0, next)
      BY <1>2, <1>5 DEF ReconcileService
    <2> QED
      BY <1>1, <2>1, ReconcileOneStep DEF Singles
  <1>6. CASE ReconcileVirtualService
    BY <1>1, <1>2, <1>6, ReconcileOneStep DEF ReconcileVirtualService, Singles
  <1>7. CASE ListRoleBindings
    BY <1>7, ListRoleBindingsStep
  <1>8. CASE ReconcileRoleBinding
    <2>1. PICK o \in pass.listed :
            IF o.role \in pass.desired THEN KeepRoleBinding(o) ELSE DeleteRoleBinding(o)
      BY <1>8 DEF ReconcileRoleBinding
    <2>2. pass.at # "idle" /\ grants' = grants
      BY <1>8 DEF ReconcileRoleBinding
    <2> QED
      BY <2>1, <2>2, KeepRoleBindingStep, DeleteRoleBindingStep
  <1>9. CASE CreateRoleBinding
    BY <1>9, CreateRoleBindingStep
  <1>10. CASE RoleBindingsDone
    BY <1>10, RoleBindingsDoneStep
  <1>11. CASE FinishReconcile
    BY <1>11, FinishReconcileStep
  <1> QED
    BY <1>3, <1>4, <1>5, <1>6, <1>7, <1>8, <1>9, <1>10, <1>11 DEF ReconcileStep

-----------------------------------------------------------------------------
(***************************************************************************)
(* The other steps keep every object's name and owner, or remove it, and   *)
(* move the versions of the Workspace forward.                             *)
(***************************************************************************)
ObjectsKept ==
    /\ objs' \in [OwnedKinds -> Versions(SUBSET Object)]
    /\ \A k \in OwnedKinds : \A o, p \in Stored(objs'[k]) : o.name = p.name => o = p
    /\ \A k \in OwnedKinds : \A p \in Stored(objs'[k]) :
         \E o \in Stored(objs[k]) : o.name = p.name /\ o.owner = p.owner

\* The step shared by the environment's actions, and by the first step of a reconcile.
OtherStep ==
    /\ ObjectsKept
    /\ UidsRise' /\ PassIsOld'
    /\ \A u \in Nat : (\E k \in OwnedKinds : \E o \in Stored(objs[k]) : u = o.owner) => IsOld(u)'
    /\ ws' \in Versions(WorkspaceVersion) /\ grants' \in Versions(SUBSET Roles)
    /\ pass' \in PassType /\ queued' \in BOOLEAN /\ spent' \in SpentType

LEMMA OtherStepKeeps ==
    ASSUME OwnInv, OtherStep
    PROVE  OwnInv'
  <1>1. TypeOK'
    BY DEF OtherStep, ObjectsKept, TypeOK, PassType, SpentType
  <1>2. NamesUnique'
    BY DEF OtherStep, ObjectsKept, NamesUnique
  <1>3. ASSUME NEW k \in OwnedKinds, NEW p \in Stored(objs'[k])
        PROVE  IsOld(p.owner)'
    <2>1. PICK o \in Stored(objs[k]) : o.name = p.name /\ o.owner = p.owner
      BY <1>3 DEF OtherStep, ObjectsKept
    <2>2. o.owner \in Nat
      BY OwnTypes DEF Object
    <2>3. PICK u \in Nat : u = o.owner
      BY <2>2
    <2>4. IsOld(u)'
      BY <2>3 DEF OtherStep
    <2> QED
      BY <2>1, <2>3, <2>4 DEF IsOld
  <1>4. OwnersAreOld'
    BY <1>3 DEF OwnersAreOld
  <1> QED
    BY <1>1, <1>2, <1>4 DEF OwnInv, OtherStep

\* Nothing changes what is stored.
LEMMA StoredKept ==
    ASSUME OwnInv, objs' \in [OwnedKinds -> Versions(SUBSET Object)],
           \A k \in OwnedKinds : Stored(objs'[k]) = Stored(objs[k])
    PROVE  ObjectsKept
  BY DEF ObjectsKept, OwnInv, NamesUnique

\* The Workspace, the reconcile and the number of edits stay: what is old stays old.
LEMMA SameReaders ==
    ASSUME OwnInv, ws' = ws, pass' = pass, spent'.edits = spent.edits
    PROVE  /\ UidsRise' /\ PassIsOld' /\ ws' \in Versions(WorkspaceVersion) /\ pass' \in PassType
           /\ \A u \in Nat : (\E k \in OwnedKinds : \E o \in Stored(objs[k]) : u = o.owner) => IsOld(u)'
  <1>1. UidsRise' /\ PassIsOld'
    BY DEF OwnInv, UidsRise, PassIsOld
  <1>2. \A u \in Nat : (\E k \in OwnedKinds : \E o \in Stored(objs[k]) : u = o.owner) => IsOld(u)
    BY DEF OwnInv, OwnersAreOld
  <1>3. \A u \in Nat : IsOld(u) => IsOld(u)'
    BY DEF IsOld
  <1> QED
    BY <1>1, <1>2, <1>3, OwnTypes

LEMMA BeginOther ==
    ASSUME OwnInv, BeginReconcile
    PROVE  OtherStep
  <1>1. ws' = ws /\ objs' = objs /\ spent' = spent /\ grants' = grants /\ queued' = FALSE
    BY DEF BeginReconcile
  <1>2. ObjectsKept
    BY <1>1, StoredKept, OwnTypes
  <1>3. /\ ws \in Versions(WorkspaceVersion) /\ Cached(ws) = ws[1] /\ 1 \in 1 .. Len(ws)
        /\ Cached(ws) \in WorkspaceVersion /\ Cached(grants) \in SUBSET Roles
    BY OwnTypes, ReadType DEF Versions, Cached
  <1>4. CASE pass' = Idle
    <2>1. pass' \in PassType /\ pass'.at = "idle"
      BY <1>4, IdleType
    <2>2. PassIsOld' /\ UidsRise'
      BY <1>1, <2>1 DEF PassIsOld, OwnInv, UidsRise
    <2>3. \A u \in Nat : (\E k \in OwnedKinds : \E o \in Stored(objs[k]) : u = o.owner) => IsOld(u)'
      BY <1>1, <2>1 DEF OwnInv, OwnersAreOld, IsOld
    <2> QED
      BY <1>1, <1>2, <2>1, <2>2, <2>3, OwnTypes DEF OtherStep
  <1>5. CASE /\ Cached(ws).uid # 0
             /\ pass' = [Idle EXCEPT !.at = "ServiceAccount", !.ws = Cached(ws),
                                     !.roles = Cached(grants)]
    <2>1. pass' \in PassType /\ pass'.ws = ws[1] /\ "ServiceAccount" \in Stages
      BY <1>3, <1>5, IdleType DEF PassType, Stages, Idle
    <2>2. PassIsOld'
      <3>1. \A i \in 1 .. Len(ws) : ws[i].uid \in Nat
        <4>1. \A i \in 1 .. Len(ws) : ws[i] \in WorkspaceVersion
          BY <1>3 DEF Versions
        <4> QED
          BY <4>1 DEF WorkspaceVersion
      <3>2. ASSUME NEW i \in 1 .. Len(ws), ws[i].uid # 0 PROVE ws[1].uid <= ws[i].uid
        BY <1>3, <1>5, <3>1, <3>2 DEF OwnInv, UidsRise
      <3>3. ws[1].uid <= 1 + spent.edits
        BY <1>3 DEF OwnInv, UidsRise
      <3> QED
        BY <1>1, <2>1, <3>2, <3>3 DEF PassIsOld
    <2>3. UidsRise'
      BY <1>1 DEF OwnInv, UidsRise
    <2>4. ASSUME NEW u \in Nat, NEW k \in OwnedKinds, NEW o \in Stored(objs[k]), u = o.owner
          PROVE  IsOld(u)'
      <3>1. IsOld(u)
        BY <2>4 DEF OwnInv, OwnersAreOld
      <3>2. u <= ws[1].uid
        BY <1>3, <1>5, <3>1 DEF IsOld
      <3> QED
        BY <1>1, <2>1, <3>1, <3>2 DEF IsOld
    <2> QED
      BY <1>1, <1>2, <2>1, <2>2, <2>3, <2>4, OwnTypes DEF OtherStep
  <1> QED
    BY <1>4, <1>5 DEF BeginReconcile

LEMMA DeliverObjectsOther ==
    ASSUME OwnInv, NEW k \in OwnedKinds, DeliverObjects(k)
    PROVE  OtherStep
  <1>1. /\ Behind(objs[k]) /\ objs' = [objs EXCEPT ![k] = Tail(@)] /\ queued' = TRUE
        /\ UNCHANGED <<ws, grants, pass, spent>>
    BY DEF DeliverObjects
  <1>2. Tail(objs[k]) \in Versions(SUBSET Object) /\ Stored(Tail(objs[k])) = Stored(objs[k])
    BY <1>1, OwnTypes, TailFacts
  <1>3. objs' \in [OwnedKinds -> Versions(SUBSET Object)]
        /\ \A j \in OwnedKinds : Stored(objs'[j]) = Stored(objs[j])
    BY <1>1, <1>2, OwnTypes
  <1> QED
    BY <1>1, <1>3, StoredKept, SameReaders, OwnTypes DEF OtherStep

LEMMA DeliverKindOther ==
    ASSUME OwnInv, DeliverKind
    PROVE  OtherStep
  <1>1. grants' \in Versions(SUBSET Roles) /\ UNCHANGED <<ws, objs, pass, spent>> /\ queued' = TRUE
    BY OwnTypes, TailFacts DEF DeliverKind
  <1>2. ObjectsKept
    BY <1>1, StoredKept, OwnTypes
  <1> QED
    BY <1>1, <1>2, SameReaders, OwnTypes DEF OtherStep

LEMMA DeliverWorkspaceOther ==
    ASSUME OwnInv, DeliverWorkspace
    PROVE  OtherStep
  <1>1. Behind(ws) /\ ws' = Tail(ws) /\ queued' = TRUE /\ UNCHANGED <<grants, objs, pass, spent>>
    BY DEF DeliverWorkspace
  <1>2. /\ ws' \in Versions(WorkspaceVersion) /\ Len(ws') = Len(ws) - 1
        /\ \A i \in 1 .. Len(ws) - 1 : ws'[i] = ws[i + 1]
    BY <1>1, OwnTypes, TailFacts
  <1>3. Len(ws) \in Nat
    BY OwnTypes DEF Versions
  <1>4. \A i \in 1 .. Len(ws') : i + 1 \in 1 .. Len(ws) /\ ws'[i] = ws[i + 1]
    BY <1>2, <1>3
  <1>5. UidsRise'
    <2>1. ASSUME NEW i \in 1 .. Len(ws'), NEW j \in 1 .. Len(ws'), i < j,
                 ws'[i].uid # 0, ws'[j].uid # 0
          PROVE  ws'[i].uid <= ws'[j].uid
      BY <1>4, <2>1 DEF OwnInv, UidsRise
    <2>2. \A i \in 1 .. Len(ws') : ws'[i].uid <= 1 + spent'.edits
      BY <1>1, <1>4 DEF OwnInv, UidsRise
    <2> QED
      BY <2>1, <2>2 DEF UidsRise
  <1>6. PassIsOld'
    BY <1>1, <1>4 DEF OwnInv, PassIsOld
  <1>7. ASSUME NEW u \in Nat, NEW k \in OwnedKinds, NEW o \in Stored(objs[k]), u = o.owner
        PROVE  IsOld(u)'
    <2>1. IsOld(u)
      BY <1>7 DEF OwnInv, OwnersAreOld
    <2> QED
      BY <1>1, <1>4, <2>1 DEF IsOld
  <1>8. ObjectsKept
    BY <1>1, StoredKept, OwnTypes
  <1> QED
    BY <1>1, <1>2, <1>5, <1>6, <1>7, <1>8, OwnTypes DEF OtherStep

LEMMA EditWorkspaceOther ==
    ASSUME OwnInv, EditWorkspace
    PROVE  OtherStep
  <1> DEFINE w == [uid |-> IF Stored(ws).uid = 0 THEN 1 + spent.edits ELSE 0, state |-> "None"]
  <1>1. /\ ws' = Put(ws, w) /\ spent' = [spent EXCEPT !.edits = @ + 1]
        /\ UNCHANGED <<grants, objs, pass, queued>>
    BY DEF EditWorkspace
  <1>2. spent \in SpentType /\ spent.edits \in Nat
    BY OwnTypes DEF SpentType
  <1>3. spent' \in SpentType /\ spent'.edits = spent.edits + 1
    BY <1>1, <1>2 DEF SpentType
  <1>4. w \in WorkspaceVersion /\ (w.uid = 0 \/ w.uid = 1 + spent.edits)
    BY <1>2 DEF WorkspaceVersion, WorkspaceStates
  <1> HIDE DEF w
  <1>5. Len(ws) \in Nat
    BY OwnTypes DEF Versions
  <1>6. /\ ws' \in Versions(WorkspaceVersion) /\ Len(ws') = Len(ws) + 1 /\ ws'[Len(ws) + 1] = w
        /\ \A i \in 1 .. Len(ws) : ws'[i] = ws[i]
    BY <1>1, <1>4, OwnTypes, PutFacts
  <1>7. \A i \in 1 .. Len(ws') : \/ i \in 1 .. Len(ws) /\ ws'[i] = ws[i]
                                 \/ i = Len(ws) + 1 /\ ws'[i] = w
    <2>1. \A i \in 1 .. Len(ws') : i \in 1 .. Len(ws) \/ i = Len(ws) + 1
      <3>1. Len(ws') = Len(ws) + 1
        BY <1>6
      <3> QED
        BY <1>5, <3>1
    <2> QED
      BY <1>6, <2>1
  <1>8. \A i \in 1 .. Len(ws) : ws[i].uid \in Nat /\ ws[i].uid <= 1 + spent.edits
    <2>1. \A i \in 1 .. Len(ws) : ws[i] \in WorkspaceVersion
      BY OwnTypes DEF Versions
    <2> QED
      BY <2>1 DEF OwnInv, UidsRise, WorkspaceVersion
  <1>9. UidsRise'
    <2>1. ASSUME NEW i \in 1 .. Len(ws'), NEW j \in 1 .. Len(ws'), i < j,
                 ws'[i].uid # 0, ws'[j].uid # 0
          PROVE  ws'[i].uid <= ws'[j].uid
      <3>1. i \in 1 .. Len(ws) /\ ws'[i] = ws[i]
        BY <1>5, <1>6, <1>7, <2>1
      <3>2. CASE j \in 1 .. Len(ws) /\ ws'[j] = ws[j]
        BY <2>1, <3>1, <3>2 DEF OwnInv, UidsRise
      <3>3. CASE ws'[j] = w
        BY <1>4, <1>8, <2>1, <3>1, <3>3
      <3> QED
        BY <1>7, <3>2, <3>3
    <2>2. ASSUME NEW i \in 1 .. Len(ws')
          PROVE  ws'[i].uid <= 1 + spent'.edits
      BY <1>2, <1>3, <1>4, <1>7, <1>8
    <2> QED
      BY <2>1, <2>2 DEF UidsRise
  <1>10. ASSUME NEW u \in Nat, u <= 1 + spent.edits,
                \A i \in 1 .. Len(ws) : ws[i].uid # 0 => u <= ws[i].uid
         PROVE  \A i \in 1 .. Len(ws') : ws'[i].uid # 0 => u <= ws'[i].uid
    BY <1>4, <1>7, <1>10
  <1>11. PassIsOld'
    <2>1. pass.ws.uid \in Nat
      BY OwnTypes DEF PassType, WorkspaceVersion
    <2>2. CASE pass.at = "idle"
      BY <1>1, <2>2 DEF PassIsOld
    <2>3. CASE pass.at # "idle"
      <3>1. PICK u \in Nat : u = pass.ws.uid
        BY <2>1
      <3>2. u <= 1 + spent.edits /\ \A i \in 1 .. Len(ws) : ws[i].uid # 0 => u <= ws[i].uid
        BY <2>3, <3>1 DEF OwnInv, PassIsOld
      <3>3. \A i \in 1 .. Len(ws') : ws'[i].uid # 0 => u <= ws'[i].uid
        BY <1>10, <3>2
      <3>4. u <= 1 + spent'.edits
        BY <1>2, <1>3, <3>2
      <3> QED
        BY <1>1, <3>1, <3>3, <3>4 DEF PassIsOld
    <2> QED
      BY <2>2, <2>3
  <1>12. ASSUME NEW u \in Nat, NEW k \in OwnedKinds, NEW o \in Stored(objs[k]), u = o.owner
         PROVE  IsOld(u)'
    <2>1. IsOld(u)
      BY <1>12 DEF OwnInv, OwnersAreOld
    <2>2. \A i \in 1 .. Len(ws') : ws'[i].uid # 0 => u <= ws'[i].uid
      BY <1>10, <2>1 DEF IsOld
    <2>3. u <= 1 + spent'.edits
      BY <1>2, <1>3, <2>1 DEF IsOld
    <2> QED
      BY <1>1, <2>1, <2>2, <2>3 DEF IsOld
  <1>13. ObjectsKept
    BY <1>1, StoredKept, OwnTypes
  <1> QED
    BY <1>1, <1>3, <1>6, <1>9, <1>11, <1>12, <1>13, OwnTypes DEF OtherStep

LEMMA EditKindOther ==
    ASSUME OwnInv, EditKind
    PROVE  OtherStep
  <1>1. spent' = [spent EXCEPT !.edits = @ + 1] /\ UNCHANGED <<ws, objs, pass, queued>>
    BY DEF EditKind
  <1>2. spent \in SpentType /\ spent.edits \in Nat
    BY OwnTypes DEF SpentType
  <1>3. spent' \in SpentType /\ spent'.edits = spent.edits + 1
    BY <1>1, <1>2 DEF SpentType
  <1>4. grants' \in Versions(SUBSET Roles)
    <2>1. PICK r \in SUBSET Roles : grants' = Put(grants, r)
      BY DEF EditKind
    <2> QED
      BY <2>1, OwnTypes, PutFacts
  <1>5. \A i \in 1 .. Len(ws) : ws[i].uid \in Nat
    <2>1. \A i \in 1 .. Len(ws) : ws[i] \in WorkspaceVersion
      BY OwnTypes DEF Versions
    <2> QED
      BY <2>1 DEF WorkspaceVersion
  <1>6. UidsRise'
    BY <1>1, <1>2, <1>3, <1>5 DEF OwnInv, UidsRise
  <1>7. PassIsOld'
    <2>1. pass.ws.uid \in Nat
      BY OwnTypes DEF PassType, WorkspaceVersion
    <2> QED
      BY <1>1, <1>2, <1>3, <2>1 DEF OwnInv, PassIsOld
  <1>8. ASSUME NEW u \in Nat, NEW k \in OwnedKinds, NEW o \in Stored(objs[k]), u = o.owner
        PROVE  IsOld(u)'
    <2>1. IsOld(u)
      BY <1>8 DEF OwnInv, OwnersAreOld
    <2> QED
      BY <1>1, <1>2, <1>3, <2>1 DEF IsOld
  <1>9. ObjectsKept
    BY <1>1, StoredKept, OwnTypes
  <1> QED
    BY <1>1, <1>3, <1>4, <1>6, <1>7, <1>8, <1>9, OwnTypes DEF OtherStep

\* A set whose objects have the names and owners of stored ones.
LEMMA SubsetKept ==
    ASSUME OwnInv, NEW k \in OwnedKinds, NEW set \in SUBSET Object, Write(k, set),
           \A o, p \in set : o.name = p.name => o = p,
           \A p \in set : \E o \in Stored(objs[k]) : o.name = p.name /\ o.owner = p.owner
    PROVE  ObjectsKept
  <1>1. /\ objs' \in [OwnedKinds -> Versions(SUBSET Object)]
        /\ Stored(objs'[k]) = set
        /\ \A j \in OwnedKinds : j # k => objs'[j] = objs[j]
    BY WriteFacts
  <1>2. ASSUME NEW j \in OwnedKinds
        PROVE  /\ \A o, p \in Stored(objs'[j]) : o.name = p.name => o = p
               /\ \A p \in Stored(objs'[j]) :
                    \E o \in Stored(objs[j]) : o.name = p.name /\ o.owner = p.owner
    <2>1. CASE j = k
      BY <1>1, <2>1
    <2>2. CASE j # k
      <3>1. objs'[j] = objs[j]
        BY <1>1, <2>2
      <3> QED
        BY <3>1 DEF OwnInv, NamesUnique
    <2> QED
      BY <2>1, <2>2
  <1> QED
    BY <1>1, <1>2 DEF ObjectsKept, NamesUnique

LEMMA CollectOther ==
    ASSUME OwnInv, NEW k \in OwnedKinds, Collect(k)
    PROVE  OtherStep
  <1>1. PICK o \in Stored(objs[k]) : Write(k, Stored(objs[k]) \ {o})
    BY DEF Collect
  <1>2. UNCHANGED <<ws, grants, pass, queued, spent>>
    BY DEF Collect
  <1>3. ObjectsKept
    BY <1>1, SubsetKept, OwnTypes DEF OwnInv, NamesUnique
  <1> QED
    BY <1>2, <1>3, SameReaders, OwnTypes DEF OtherStep

LEMMA TamperOther ==
    ASSUME OwnInv, NEW k \in OwnedKinds, Tamper(k)
    PROVE  OtherStep
  <1>1. UNCHANGED <<ws, grants, pass, queued>> /\ CountMishap
    BY DEF Tamper
  <1>2. PICK o \in Stored(objs[k]), edit \in BOOLEAN :
          Write(k, (Stored(objs[k]) \ {o})
                   \cup IF edit THEN {[o EXCEPT !.spec = Foreign, !.rv = NextVersion(o)]} ELSE {})
    BY DEF Tamper
  <1> DEFINE p == [o EXCEPT !.spec = Foreign, !.rv = NextVersion(o)]
             S == Stored(objs[k])
  <1>3. S \in SUBSET Object /\ o \in Object /\ \A x, y \in S : x.name = y.name => x = y
    BY OwnTypes DEF OwnInv, NamesUnique
  <1>4. NextVersion(o) \in Nat /\ Foreign \in 0..Foreign
    BY <1>3, BoundsAssumption DEF NextVersion, Object, Foreign
  <1>5. p \in Object /\ p.name = o.name /\ p.owner = o.owner
    BY <1>3, <1>4 DEF Object
  <1> HIDE DEF p, S
  <1>6. ObjectsKept
    <2>1. CASE edit
      <3> DEFINE set == (S \ {o}) \cup {p}
      <3>1. Write(k, set)
        BY <1>2, <2>1 DEF p, S
      <3>2. set \in SUBSET Object /\ \A x, y \in set : x.name = y.name => x = y
        BY <1>2, <1>3, <1>5 DEF S
      <3>3. \A x \in set : \E y \in Stored(objs[k]) : y.name = x.name /\ y.owner = x.owner
        BY <1>2, <1>5 DEF S
      <3> HIDE DEF set
      <3> QED
        BY <3>1, <3>2, <3>3, SubsetKept
    <2>2. CASE ~edit
      <3> DEFINE set == S \ {o}
      <3>1. Write(k, set)
        BY <1>2, <2>2 DEF S
      <3>2. set \in SUBSET Object /\ \A x, y \in set : x.name = y.name => x = y
        BY <1>3
      <3>3. \A x \in set : \E y \in Stored(objs[k]) : y.name = x.name /\ y.owner = x.owner
        BY DEF S
      <3> HIDE DEF set
      <3> QED
        BY <3>1, <3>2, <3>3, SubsetKept
    <2> QED
      BY <2>1, <2>2
  <1>7. spent' \in SpentType /\ spent'.edits = spent.edits
    BY <1>1, MishapCounts
  <1> QED
    BY <1>1, <1>6, <1>7, SameReaders, OwnTypes DEF OtherStep

LEMMA RestartOther ==
    ASSUME OwnInv, Restart
    PROVE  OtherStep
  <1>1. /\ CountMishap /\ pass' = Idle /\ queued' = TRUE
        /\ ws' = Relisted(ws) /\ grants' = Relisted(grants)
        /\ objs' = [k \in OwnedKinds |-> Relisted(objs[k])]
    BY DEF Restart
  <1>2. spent' \in SpentType /\ spent'.edits = spent.edits
    BY <1>1, MishapCounts
  <1>3. objs' \in [OwnedKinds -> Versions(SUBSET Object)]
        /\ \A k \in OwnedKinds : Stored(objs'[k]) = Stored(objs[k])
    BY <1>1, OwnTypes, RelistedFacts
  <1>4. /\ ws' \in Versions(WorkspaceVersion) /\ grants' \in Versions(SUBSET Roles)
        /\ Len(ws') = 1 /\ ws'[1] = Stored(ws)
    BY <1>1, OwnTypes, RelistedFacts
  <1>5. Len(ws) \in 1 .. Len(ws) /\ Stored(ws) = ws[Len(ws)]
    BY OwnTypes DEF Versions, Stored
  <1>6. \A i \in 1 .. Len(ws') : ws'[i] = ws[Len(ws)] /\ i = 1
    BY <1>4, <1>5
  <1>7. UidsRise'
    BY <1>2, <1>5, <1>6 DEF OwnInv, UidsRise
  <1>8. pass' \in PassType /\ pass'.at = "idle"
    BY <1>1, IdleType
  <1>9. PassIsOld'
    BY <1>8 DEF PassIsOld
  <1>10. ASSUME NEW u \in Nat, NEW k \in OwnedKinds, NEW o \in Stored(objs[k]), u = o.owner
         PROVE  IsOld(u)'
    <2>1. IsOld(u)
      BY <1>10 DEF OwnInv, OwnersAreOld
    <2> QED
      BY <1>2, <1>5, <1>6, <1>8, <2>1 DEF IsOld
  <1> QED
    BY <1>1, <1>2, <1>3, <1>4, <1>7, <1>8, <1>9, <1>10, StoredKept DEF OtherStep

-----------------------------------------------------------------------------
(***************************************************************************)
(* The theorems.                                                           *)
(***************************************************************************)

\* Every step is one of a reconcile under way, one of the others, or none.
LEMMA EveryStep ==
    ASSUME OwnInv, [Next]_vars
    PROVE  PassStep \/ OtherStep \/ UNCHANGED vars
  <1>1. CASE BeginReconcile
    BY <1>1, BeginOther
  <1>2. CASE ReconcileStep /\ ~BeginReconcile
    BY <1>2, ReconcileIsPassStep
  <1>3. ASSUME NEW k \in OwnedKinds, DeliverObjects(k) PROVE OtherStep
    BY <1>3, DeliverObjectsOther
  <1>4. CASE DeliverWorkspace
    BY <1>4, DeliverWorkspaceOther
  <1>5. CASE DeliverKind
    BY <1>5, DeliverKindOther
  <1>6. ASSUME NEW k \in OwnedKinds, Collect(k) PROVE OtherStep
    BY <1>6, CollectOther
  <1>7. CASE EditWorkspace
    BY <1>7, EditWorkspaceOther
  <1>8. CASE EditKind
    BY <1>8, EditKindOther
  <1>9. ASSUME NEW k \in OwnedKinds, Tamper(k) PROVE OtherStep
    BY <1>9, TamperOther
  <1>10. CASE Restart
    BY <1>10, RestartOther
  <1> QED
    BY <1>1, <1>2, <1>3, <1>4, <1>5, <1>6, <1>7, <1>8, <1>9, <1>10 DEF Next

\* The inductive invariant: names are unique, UIDs rise along the versions of the Workspace,
\* and no object belongs to a later Workspace than a reconcile, now or later, acts for.
THEOREM OwnInvariant == Spec => []OwnInv
  <1>1. Init => OwnInv
    BY OwnInit
  <1>2. OwnInv /\ [Next]_vars => OwnInv'
    <2> SUFFICES ASSUME OwnInv, [Next]_vars PROVE OwnInv'
      OBVIOUS
    <2>1. CASE UNCHANGED vars
      BY <2>1 DEF vars, OwnInv, TypeOK, NamesUnique, UidsRise, PassIsOld, OwnersAreOld, IsOld
    <2> QED
      BY <2>1, EveryStep, PassStepKeeps, OtherStepKeeps
  <1> QED
    BY <1>1, <1>2, PTL DEF Spec

\* Every reachable state of the Workspace, its objects, caches and reconcile is well-formed.
THEOREM TypeCorrect == Spec => []TypeOK
  <1>1. OwnInv => TypeOK
    BY DEF OwnInv
  <1> QED
    BY <1>1, OwnInvariant, PTL

\* No step gives a stored object to an earlier Workspace of the same name than it had: not
\* even a reconcile that has been holding the deleted Workspace since before.
THEOREM OwnersNeverRevert == Spec => OwnerNeverReverts
  <1> DEFINE NoRevert == \A k \in OwnedKinds : \A o \in Stored(objs[k]), p \in Stored(objs'[k]) :
                           o.name = p.name => o.owner <= p.owner
  <1>1. OwnInv /\ [Next]_vars => [NoRevert]_vars
    <2> SUFFICES ASSUME OwnInv, [Next]_vars, NEW k \in OwnedKinds,
                        NEW o \in Stored(objs[k]), NEW p \in Stored(objs'[k]),
                        o.name = p.name, ~UNCHANGED vars
                 PROVE  o.owner <= p.owner
      OBVIOUS
    <2>1. /\ o.owner \in Nat
          /\ \A x, y \in Stored(objs[k]) : x.name = y.name => x = y
      BY OwnTypes DEF Object, OwnInv, NamesUnique
    <2>2. CASE OtherStep
      <3>1. PICK x \in Stored(objs[k]) : x.name = p.name /\ x.owner = p.owner
        BY <2>2 DEF OtherStep, ObjectsKept
      <3> QED
        BY <2>1, <3>1
    <2>3. CASE PassStep
      <3>1. CASE objs' = objs
        BY <2>1, <3>1
      <3>2. ASSUME NEW j \in OwnedKinds, NEW set \in SUBSET Object, Write(j, set), Replaces(j, set)
            PROVE  o.owner <= p.owner
        <4>1. /\ Stored(objs'[j]) = set
              /\ \A i \in OwnedKinds : i # j => objs'[i] = objs[i]
          BY <3>2, WriteFacts
        <4>2. CASE k # j
          BY <2>1, <4>1, <4>2
        <4>3. CASE k = j
          <5>1. o = p \/ p.owner = pass.ws.uid
            BY <3>2, <4>1, <4>3 DEF Replaces
          <5>2. o.owner <= pass.ws.uid
            BY <2>3 DEF PassStep, OwnInv, OwnersAreOld, IsOld
          <5> QED
            BY <2>1, <5>1, <5>2
        <4> QED
          BY <4>2, <4>3
      <3> QED
        BY <2>3, <3>1, <3>2 DEF PassStep, ObjectsStep
    <2> QED
      BY <2>2, <2>3, EveryStep
  <1> QED
    BY <1>1, OwnInvariant, PTL DEF Spec, OwnerNeverReverts

\* A reconcile removes a RoleBinding only if it is, unchanged, one of those it listed.
THEOREM DeletesOnlyListed == Spec => DeletesAsListed
  <1> DEFINE Listed == \A o \in Stored(objs["RoleBinding"]) :
                 o \in pass.listed \/ \E p \in Stored(objs'["RoleBinding"]) : p.name = o.name
  <1>1. OwnInv /\ [Next]_vars => [ReconcileStep => Listed]_vars
    <2> SUFFICES ASSUME OwnInv, ReconcileStep, NEW o \in Stored(objs["RoleBinding"])
                 PROVE  o \in pass.listed \/ \E p \in Stored(objs'["RoleBinding"]) : p.name = o.name
      OBVIOUS
    <2>1. CASE objs' = objs
      BY <2>1
    <2>2. CASE BeginReconcile
      BY <2>1, <2>2 DEF BeginReconcile
    <2>3. ASSUME NEW j \in OwnedKinds, NEW set \in SUBSET Object, Write(j, set), Replaces(j, set)
          PROVE  o \in pass.listed \/ \E p \in Stored(objs'["RoleBinding"]) : p.name = o.name
      <3>1. /\ Stored(objs'[j]) = set
            /\ \A i \in OwnedKinds : i # j => objs'[i] = objs[i]
        BY <2>3, WriteFacts
      <3>2. CASE j = "RoleBinding"
        BY <2>3, <3>1, <3>2 DEF Replaces
      <3>3. CASE j # "RoleBinding"
        BY <3>1, <3>3 DEF OwnedKinds
      <3> QED
        BY <3>2, <3>3
    <2> QED
      BY <2>1, <2>2, <2>3, ReconcileIsPassStep DEF PassStep, ObjectsStep
  <1> QED
    BY <1>1, OwnInvariant, PTL DEF Spec, DeletesAsListed
=============================================================================
