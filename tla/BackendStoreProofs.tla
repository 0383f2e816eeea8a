------------------------- MODULE BackendStoreProofs -------------------------
(***************************************************************************)
(* The backend's repositories implement the register that ObjectRegister   *)
(* describes, for any clients, resources and bounds.                       *)
(*                                                                         *)
(* What a handler writes is computed from the copy it read, maybe from a   *)
(* late cache, and checked against what the caller named when it was read. *)
(* The inductive invariant says why that is enough: resourceVersions rise  *)
(* along the versions, so a copy whose resourceVersion is the stored one   *)
(* IS the stored object, and the checks hold of the object being replaced. *)
(***************************************************************************)
EXTENDS BackendStore, InformerProofs

\* Later versions have greater resourceVersions and are of the same resource.
VersionsRise ==
    /\ \A i, j \in 1 .. Len(obj) : i < j => obj[i].rv < obj[j].rv
    /\ \A i \in 1 .. Len(obj) : obj[i].res = Stored(obj).res

\* A request that is being handled is pending; a create names a value.
RequestsPend ==
    /\ \A c \in Clients : at[c] # "idle" => ans[c] = "pending"
    /\ \A c \in Clients : req[c].op = "create" => req[c].val \in {0, 1}

\* The copy an update will write back: what the handler checked holds of it,
\* and it is the stored object unless that is newer.
CopyFits(c) ==
    /\ copy[c].rv <= Stored(obj).rv
    /\ copy[c].rv = Stored(obj).rv => copy[c] = Stored(obj)
    /\ Res \in Revisioned => CalculateRevision(copy[c]) = req[c].rev
    /\ Res = "secret" => copy[c].label

CopiesFit ==
    \A c \in Clients : req[c].op = "update" /\ at[c] \in {"check", "write"} => CopyFits(c)

StoreInv == TypeOK /\ VersionsRise /\ RequestsPend /\ CopiesFit

-----------------------------------------------------------------------------
(***************************************************************************)
(* The initial state.                                                      *)
(***************************************************************************)
LEMMA FreshType == ASSUME NEW r \in Resources PROVE Fresh(r) \in Object
  BY DEF Fresh, Object, Values, NoValue

LEMMA StoreInit == Init => StoreInv
  <1> SUFFICES ASSUME Init PROVE StoreInv
    OBVIOUS
  <1>1. PICK r \in Stored0 : obj = <<Fresh(r)>>
    BY DEF Init
  <1>2. r \in Resources /\ Fresh(r) \in Object /\ Fresh(r).res = r
    BY BoundsAssumption, FreshType DEF Fresh
  <1>3. Len(obj) = 1 /\ obj[1] = Fresh(r) /\ obj \in Versions(Object) /\ Stored(obj) = Fresh(r)
    BY <1>1, <1>2 DEF Versions, Stored
  <1>4. TypeOK
    <2>1. copy \in [Clients -> Object]
      BY <1>2, <1>3 DEF Init
    <2>2. req \in [Clients -> [op : Ops, rev : Nat \X Nat, val : Values \cup {Keep}]]
      BY DEF Init, Ops, Values
    <2>3. known \in [Clients -> Nat \X Nat] /\ at \in [Clients -> Stages]
          /\ ans \in [Clients -> Answers] /\ asked \in Nat
      BY DEF Init, Stages, Answers
    <2>4. QED
      BY <1>3, <2>1, <2>2, <2>3 DEF TypeOK
  <1>5. VersionsRise
    BY <1>3 DEF VersionsRise
  <1>6. RequestsPend /\ CopiesFit
    BY DEF Init, RequestsPend, CopiesFit
  <1>7. QED
    BY <1>4, <1>5, <1>6 DEF StoreInv

LEMMA RegisterInit == Init => Register!RegInit
  <1> SUFFICES ASSUME Init PROVE Register!RegInit
    OBVIOUS
  <1>1. Stored(obj) \in Object
    BY StoreInit, ReadType DEF StoreInv, TypeOK
  <1>2. [res |-> Stored(obj).res, uid |-> Stored(obj).uid, gen |-> Stored(obj).gen,
         val |-> Stored(obj).val, stopped |-> Stored(obj).stopped,
         label |-> Stored(obj).label] \in Register!Contents
    BY <1>1 DEF Object, Resources, Values, NoValue, Register!Contents, Register!Resources,
       Register!Values, Register!NoValue
  <1>3. [c \in Clients |-> [op |-> req[c].op, rev |-> req[c].rev, val |-> req[c].val,
                            ans |-> AnswerOf(ans[c])]] = [c \in Clients |-> Register!NoCall]
    BY DEF Init, Register!NoCall, AnswerOf
  <1>4. QED
    BY <1>2, <1>3 DEF Register!RegInit

-----------------------------------------------------------------------------
(***************************************************************************)
(* The shapes that the steps of a request have.                            *)
(***************************************************************************)
\* The facts about one client that the steps below need.
LEMMA ClientTypes ==
    ASSUME TypeOK, NEW c \in Clients
    PROVE  /\ Stored(obj) \in Object /\ Cached(obj) \in Object /\ Get \in Object
           /\ copy[c] \in Object /\ at[c] \in Stages /\ ans[c] \in Answers
           /\ req[c] \in [op : Ops, rev : Nat \X Nat, val : Values \cup {Keep}]
           /\ Res \in Resources
  <1>1. Stored(obj) \in Object /\ Cached(obj) \in Object
    BY ReadType DEF TypeOK
  <1>2. QED
    BY <1>1 DEF TypeOK, Get, Res, Object

\* What a change of the handler's own state, without a write, must respect.
LEMMA LocalStep ==
    ASSUME StoreInv, NEW c \in Clients, NEW stage \in Stages, NEW status \in Answers,
           NEW o \in Object,
           UNCHANGED <<obj, req, asked>>, known' \in [Clients -> Nat \X Nat],
           at' = [at EXCEPT ![c] = stage], ans' = [ans EXCEPT ![c] = status],
           copy' = [copy EXCEPT ![c] = o],
           stage # "idle" => status = "pending",
           req[c].op = "update" /\ stage \in {"check", "write"} => CopyFits(c)'
    PROVE  StoreInv'
  <1>1. TypeOK'
    BY DEF StoreInv, TypeOK
  <1>2. VersionsRise'
    BY DEF StoreInv, VersionsRise, Stored
  <1>3. RequestsPend'
    BY DEF StoreInv, RequestsPend, TypeOK
  <1>4. CopiesFit'
    <2> SUFFICES ASSUME NEW d \in Clients, (req[d].op = "update")',
                        (at[d] \in {"check", "write"})'
                 PROVE  CopyFits(d)'
      BY DEF CopiesFit
    <2>1. CASE d = c
      BY <2>1 DEF StoreInv, TypeOK
    <2>2. CASE d # c
      <3>1. at'[d] = at[d] /\ copy'[d] = copy[d] /\ req'[d] = req[d]
        BY <2>2 DEF StoreInv, TypeOK
      <3>2. CopyFits(d)
        BY <3>1 DEF StoreInv, CopiesFit
      <3>3. QED
        BY <3>1, <3>2 DEF CopyFits, Res, Stored, CalculateRevision
    <2>3. QED
      BY <2>1, <2>2
  <1>5. QED
    BY <1>1, <1>2, <1>3, <1>4 DEF StoreInv

\* A refusal.
LEMMA RefuseStep ==
    ASSUME StoreInv, NEW c \in Clients, at[c] # "idle",
           NEW status \in {"403", "404", "409", "error"},
           Refuse(c, status), UNCHANGED <<req, asked>>
    PROVE  StoreInv' /\ Register!Refuse(c)
  <1>1. StoreInv'
    <2>1. Fresh(Res) \in Object
      BY ClientTypes, FreshType DEF StoreInv
    <2>2. status \in Answers /\ "idle" \in Stages
      BY DEF Answers, Stages
    <2>3. known' \in [Clients -> Nat \X Nat]
      BY DEF Refuse, StoreInv, TypeOK
    <2>4. QED
      BY <2>1, <2>2, <2>3, LocalStep DEF Refuse, Reply
  <1>2. Register!Refuse(c)
    <2>1. ans[c] = "pending" /\ ans \in [Clients -> Answers]
      BY DEF StoreInv, RequestsPend, TypeOK
    <2>2. ans' = [ans EXCEPT ![c] = status] /\ obj' = obj
      BY DEF Refuse, Reply
    <2>3. AnswerOf(ans[c]) = "pending" /\ AnswerOf(status) = "refused"
      BY <2>1 DEF AnswerOf
    <2>4. QED
      BY <2>1, <2>2, <2>3 DEF Register!Refuse
  <1>3. QED
    BY <1>1, <1>2

\* A step to the next stage.
LEMMA GotoStep ==
    ASSUME StoreInv, NEW c \in Clients, at[c] # "idle", Goto(c, "write"),
           req[c].op = "update" => at[c] = "check",
           UNCHANGED <<req, asked>>
    PROVE  StoreInv' /\ UNCHANGED Register!regVars
  <1>1. /\ copy[c] \in Object /\ copy' = [copy EXCEPT ![c] = copy[c]]
        /\ ans[c] \in Answers /\ ans' = [ans EXCEPT ![c] = ans[c]] /\ ans[c] = "pending"
    BY ClientTypes DEF Goto, StoreInv, TypeOK, RequestsPend
  <1>2. req[c].op = "update" => CopyFits(c)'
    <2>1. req[c].op = "update" => CopyFits(c)
      BY DEF StoreInv, CopiesFit
    <2>2. QED
      BY <2>1 DEF CopyFits, Goto, Res, Stored, CalculateRevision
  <1>3. at' = [at EXCEPT ![c] = "write"] /\ known' \in [Clients -> Nat \X Nat]
        /\ UNCHANGED <<obj, req, asked>> /\ "write" \in Stages
    BY DEF Goto, Stages, StoreInv, TypeOK
  <1>4. StoreInv'
    BY <1>1, <1>2, <1>3, LocalStep
  <1>5. UNCHANGED Register!regVars
    BY DEF Register!regVars, Goto
  <1>6. QED
    BY <1>4, <1>5

\* A write: everything a handler has read becomes older than what is stored.
LEMMA WriteStep ==
    ASSUME StoreInv, NEW o \in Object, o.res = Res, Write(o),
           UNCHANGED <<req, asked>>, known' \in [Clients -> Nat \X Nat],
           at' \in [Clients -> Stages], ans' \in [Clients -> Answers],
           copy' \in [Clients -> Object],
           \A d \in Clients : at'[d] # "idle" =>
               at'[d] = at[d] /\ ans'[d] = ans[d] /\ copy'[d] = copy[d]
    PROVE  StoreInv' /\ Stored(obj)' = [o EXCEPT !.rv = Stored(obj).rv + 1]
  <1>1. Stored(obj) \in Object /\ obj \in Versions(Object)
    BY ReadType DEF StoreInv, TypeOK
  <1>0. PICK new : new = [o EXCEPT !.rv = Stored(obj).rv + 1]
    OBVIOUS
  <1>2. new \in Object /\ new.res = Res /\ new.rv = Stored(obj).rv + 1
    BY <1>0, <1>1 DEF Object
  <1>3. obj' = Put(obj, new)
    BY <1>0 DEF Write
  <1>4. /\ obj' \in Versions(Object) /\ Stored(obj') = new /\ Len(obj') = Len(obj) + 1
        /\ obj'[Len(obj) + 1] = new /\ \A i \in 1 .. Len(obj) : obj'[i] = obj[i]
    <2>1. /\ Put(obj, new) \in Versions(Object) /\ Stored(Put(obj, new)) = new
          /\ Len(Put(obj, new)) = Len(obj) + 1 /\ Put(obj, new)[Len(obj) + 1] = new
          /\ \A i \in 1 .. Len(obj) : Put(obj, new)[i] = obj[i]
      BY <1>1, <1>2, PutFacts
    <2>2. QED
      BY <1>3, <2>1
  <1>5. TypeOK'
    BY <1>4 DEF StoreInv, TypeOK
  <1>6. Len(obj) \in Nat /\ Len(obj) > 0
    BY <1>1 DEF Versions
  <1>7. \A i \in 1 .. Len(obj) : obj[i] \in Object /\ obj[i].rv <= Stored(obj).rv
    <2> SUFFICES ASSUME NEW i \in 1 .. Len(obj)
                 PROVE  obj[i] \in Object /\ obj[i].rv <= Stored(obj).rv
      OBVIOUS
    <2>0. obj \in Seq(Object)
      BY <1>1 DEF Versions
    <2>1. obj[i] \in Object /\ obj[i].rv \in Nat
      <3>1. obj[i] \in Object
        BY <2>0
      <3>2. QED
        BY <3>1 DEF Object
    <2>2. i < Len(obj) => obj[i].rv < Stored(obj).rv
      BY <1>6 DEF StoreInv, VersionsRise, Stored
    <2>3. Stored(obj).rv \in Nat
      BY <1>1 DEF Object
    <2>4. QED
      BY <1>6, <2>1, <2>2, <2>3 DEF Stored
  <1>8. VersionsRise'
    <2>1. ASSUME NEW i \in 1 .. Len(obj'), NEW j \in 1 .. Len(obj'), i < j
          PROVE  obj'[i].rv < obj'[j].rv
      <3>0. Stored(obj).rv \in Nat /\ i \in 1 .. Len(obj) /\ obj[i].rv \in Nat
        BY <1>1, <1>4, <1>6, <1>7, <2>1 DEF Object
      <3>1. CASE j = Len(obj) + 1
        BY <1>2, <1>4, <1>7, <3>0, <3>1
      <3>2. CASE j # Len(obj) + 1
        BY <1>4, <1>6, <2>1, <3>0, <3>2 DEF StoreInv, VersionsRise
      <3>3. QED
        BY <3>1, <3>2
    <2>2. ASSUME NEW i \in 1 .. Len(obj')
          PROVE  obj'[i].res = Stored(obj').res
      <3>1. CASE i = Len(obj) + 1
        BY <1>4, <3>1
      <3>2. CASE i # Len(obj) + 1
        <4>1. i \in 1 .. Len(obj) /\ obj'[i] = obj[i]
          BY <1>4, <1>6, <3>2
        <4>2. obj[i].res = Stored(obj).res
          BY <4>1 DEF StoreInv, VersionsRise
        <4>3. QED
          BY <1>2, <1>4, <4>1, <4>2 DEF Res
      <3>3. QED
        BY <3>1, <3>2
    <2>3. QED
      BY <2>1, <2>2 DEF VersionsRise
  <1>9. RequestsPend'
    BY DEF StoreInv, RequestsPend
  <1>10. CopiesFit'
    <2> SUFFICES ASSUME NEW d \in Clients, (req[d].op = "update")',
                        (at[d] \in {"check", "write"})'
                 PROVE  CopyFits(d)'
      BY DEF CopiesFit
    <2>1. at'[d] = at[d] /\ copy'[d] = copy[d] /\ req'[d] = req[d]
      OBVIOUS
    <2>2. CopyFits(d) /\ copy[d] \in Object
      BY <2>1, ClientTypes DEF StoreInv, CopiesFit
    <2>3. copy'[d].rv < Stored(obj').rv
      <3>1. copy[d].rv \in Nat /\ Stored(obj).rv \in Nat /\ copy[d].rv <= Stored(obj).rv
        BY <1>1, <2>2 DEF CopyFits, Object
      <3>2. QED
        BY <1>2, <1>4, <2>1, <3>1
    <2>4. copy'[d].rv \in Nat /\ Stored(obj').rv \in Nat /\ Stored(obj').res = Stored(obj).res
      BY <1>1, <1>2, <1>4, <2>1, <2>2 DEF Object, Res
    <2>5. QED
      BY <2>1, <2>2, <2>3, <2>4 DEF CopyFits, Res, CalculateRevision
  <1>11. QED
    BY <1>0, <1>4, <1>5, <1>8, <1>9, <1>10 DEF StoreInv

-----------------------------------------------------------------------------
(***************************************************************************)
(* The steps of the backend as steps of the register.                      *)
(***************************************************************************)
\* What the register keeps of an object and of a client's request.
View(o) == [res |-> o.res, uid |-> o.uid, gen |-> o.gen, val |-> o.val,
            stopped |-> o.stopped, label |-> o.label]

Call(c) == [op |-> req[c].op, rev |-> req[c].rev, val |-> req[c].val, ans |-> AnswerOf(ans[c])]

LEMMA ViewType == ASSUME NEW o \in Object PROVE View(o) \in Register!Contents
  BY DEF View, Object, Resources, Values, NoValue, Register!Contents, Register!Resources,
     Register!Values, Register!NoValue

\* A successful write that the register allows for this request.
LEMMA AcceptStep ==
    ASSUME StoreInv, NEW c \in Clients, at[c] # "idle",
           NEW o \in Object, o.res = Res, Write(o), Reply(c, "200"),
           known' \in [Clients -> Nat \X Nat], UNCHANGED <<req, asked>>,
           Register!Accepted(View(Stored(obj)), Call(c), View(o))
    PROVE  StoreInv' /\ Register!Accept(c)
  <1>1. /\ at' = [at EXCEPT ![c] = "idle"] /\ ans' = [ans EXCEPT ![c] = "200"]
        /\ copy' = [copy EXCEPT ![c] = Fresh(Res)]
    BY DEF Reply
  <1>2. /\ at \in [Clients -> Stages] /\ ans \in [Clients -> Answers]
        /\ copy \in [Clients -> Object] /\ Fresh(Res) \in Object
    BY ClientTypes, FreshType DEF StoreInv, TypeOK
  <1>3. /\ at' \in [Clients -> Stages] /\ ans' \in [Clients -> Answers]
        /\ copy' \in [Clients -> Object]
    BY <1>1, <1>2 DEF Stages, Answers
  <1>4. \A d \in Clients : at'[d] # "idle" =>
               at'[d] = at[d] /\ ans'[d] = ans[d] /\ copy'[d] = copy[d]
    BY <1>1, <1>2
  <1>5. StoreInv' /\ Stored(obj)' = [o EXCEPT !.rv = Stored(obj).rv + 1]
    BY <1>3, <1>4, WriteStep
  <1>6. View(Stored(obj')) = View(o) /\ View(o) \in Register!Contents
    <2>1. View([o EXCEPT !.rv = Stored(obj).rv + 1]) = View(o)
      BY DEF View, Object
    <2>2. QED
      BY <1>5, <2>1, ViewType
  <1>7. ans[c] = "pending"
    BY DEF StoreInv, RequestsPend
  <1>8. Register!Accept(c)
    <2>1. AnswerOf(ans[c]) = "pending" /\ AnswerOf("200") = "ok"
      BY <1>7 DEF AnswerOf
    <2>2. [d \in Clients |-> Call(d)]' = [[d \in Clients |-> Call(d)] EXCEPT ![c].ans = "ok"]
      BY <1>1, <1>2, <2>1 DEF Call
    <2>3. View(Stored(obj))' = View(o)
      BY <1>6
    <2>4. /\ [d \in Clients |-> Call(d)][c].ans = "pending"
          /\ View(Stored(obj))' \in Register!Contents
          /\ Register!Accepted(View(Stored(obj)), [d \in Clients |-> Call(d)][c],
                               View(Stored(obj))')
      BY <1>6, <2>1, <2>3 DEF Call
    <2>5. QED
      BY <2>2, <2>4 DEF Register!Accept, View, Call
  <1>9. QED
    BY <1>5, <1>8

\* Succeed() keeps the callers' revisions well-formed.
LEMMA SucceedTypes ==
    ASSUME TypeOK, NEW c \in Clients, NEW o \in Object, Succeed(c, o)
    PROVE  known' \in [Clients -> Nat \X Nat]
  <1>1. CalculateRevision(o) \in Nat \X Nat /\ known \in [Clients -> Nat \X Nat]
    BY DEF CalculateRevision, Object, TypeOK
  <1>2. QED
    BY <1>1 DEF Succeed

\* A step of the register, or none.
RegStep == Register!RegNext \/ UNCHANGED Register!regVars

LEMMA ClientRegStep ==
    ASSUME NEW c \in Clients, Register!Ask(c) \/ Register!Accept(c) \/ Register!Refuse(c)
    PROVE  RegStep
  BY DEF RegStep, Register!RegNext

\* A request arrives.
LEMMA SubmitRefines ==
    ASSUME StoreInv, NEW c \in Clients, Submit(c)
    PROVE  StoreInv' /\ RegStep
  <1>1. PICK op \in OpsOf(Res) : \E v \in ValuesOf(Res, op) :
           /\ req' = [req EXCEPT ![c] = [op |-> op, rev |-> known[c], val |-> v]]
           /\ at' = [at EXCEPT ![c] = FirstStage(Res, op)]
    BY DEF Submit
  <1>2. PICK v \in ValuesOf(Res, op) :
           /\ req' = [req EXCEPT ![c] = [op |-> op, rev |-> known[c], val |-> v]]
           /\ at' = [at EXCEPT ![c] = FirstStage(Res, op)]
    BY <1>1
  <1>3. /\ ans' = [ans EXCEPT ![c] = "pending"] /\ asked' = asked + 1
        /\ UNCHANGED <<obj, known, copy>> /\ ans[c] # "pending"
    BY DEF Submit
  <1>4. Res \in Resources
    BY ClientTypes DEF StoreInv
  <1>5. op \in Ops \ {"none"}
    BY <1>4 DEF OpsOf, Ops, Resources
  <1>6. /\ v \in Values \cup {Keep}
        /\ op # "update" => v \in {0, 1}
    BY DEF ValuesOf, Values
  <1>7. FirstStage(Res, op) \in Stages /\ (op = "update" => FirstStage(Res, op) = "read")
    BY DEF FirstStage, Stages
  <1>8. known[c] \in Nat \X Nat
    BY DEF StoreInv, TypeOK
  <1> DEFINE new == [op |-> op, rev |-> known[c], val |-> v]
  <1>9. new \in [op : Ops, rev : Nat \X Nat, val : Values \cup {Keep}]
    BY <1>5, <1>6, <1>8
  <1>10. TypeOK'
    <2>1. req' \in [Clients -> [op : Ops, rev : Nat \X Nat, val : Values \cup {Keep}]]
      BY <1>2, <1>9 DEF StoreInv, TypeOK
    <2>2. at' \in [Clients -> Stages] /\ ans' \in [Clients -> Answers] /\ asked' \in Nat
      BY <1>2, <1>3, <1>7 DEF StoreInv, TypeOK, Answers
    <2>3. QED
      BY <1>3, <2>1, <2>2 DEF StoreInv, TypeOK
  <1>11. VersionsRise'
    BY <1>3 DEF StoreInv, VersionsRise, Stored
  <1>12. RequestsPend'
    <2> SUFFICES ASSUME NEW d \in Clients
                 PROVE  /\ at'[d] # "idle" => ans'[d] = "pending"
                        /\ req'[d].op = "create" => req'[d].val \in {0, 1}
      BY DEF RequestsPend
    <2>1. CASE d = c
      BY <1>2, <1>3, <1>6, <2>1 DEF StoreInv, TypeOK
    <2>2. CASE d # c
      BY <1>2, <1>3, <2>2 DEF StoreInv, TypeOK, RequestsPend
    <2>3. QED
      BY <2>1, <2>2
  <1>13. CopiesFit'
    <2> SUFFICES ASSUME NEW d \in Clients, req'[d].op = "update",
                        at'[d] \in {"check", "write"}
                 PROVE  CopyFits(d)'
      BY DEF CopiesFit
    <2>1. d # c
      BY <1>2, <1>7 DEF StoreInv, TypeOK
    <2>2. req'[d] = req[d] /\ at'[d] = at[d]
      BY <1>2, <2>1 DEF StoreInv, TypeOK
    <2>3. CopyFits(d)
      BY <2>2 DEF StoreInv, CopiesFit
    <2>4. QED
      BY <1>3, <2>2, <2>3 DEF CopyFits, Res, Stored, CalculateRevision
  <1>14. Register!Ask(c)
    <2>1. AnswerOf(ans[c]) # "pending"
      BY <1>3 DEF AnswerOf
    <2>2. \A d \in Clients : d # c => Call(d)' = Call(d)
      BY <1>2, <1>3 DEF Call, StoreInv, TypeOK
    <2>3. [d \in Clients |-> Call(d)]'
            = [[d \in Clients |-> Call(d)] EXCEPT ![c] = [d \in Clients |-> Call(d)]'[c]]
      BY <2>2
    <2>4. Call(c)' \in Register!Calls /\ Call(c)'.ans = "pending"
      <3>1. Call(c)' = [op |-> op, rev |-> known[c], val |-> v, ans |-> "pending"]
        BY <1>2, <1>3 DEF Call, AnswerOf, StoreInv, TypeOK
      <3>2. QED
        BY <1>5, <1>6, <1>8, <3>1 DEF Register!Calls, Ops, Values, Keep, NoValue,
           Register!Values, Register!Keep, Register!NoValue
    <2>5. [d \in Clients |-> Call(d)][c] = Call(c) /\ [d \in Clients |-> Call(d)]'[c] = Call(c)'
      OBVIOUS
    <2>6. Call(c).ans # "pending"
      BY <2>1 DEF Call
    <2>7. QED
      BY <1>3, <2>3, <2>4, <2>5, <2>6 DEF Register!Ask, Call
  <1>15. QED
    BY <1>10, <1>11, <1>12, <1>13, <1>14, ClientRegStep DEF StoreInv

\* A read of the revision is no step of the register.
LEMMA GetRevisionRefines ==
    ASSUME StoreInv, NEW c \in Clients, GetRevision(c)
    PROVE  StoreInv' /\ RegStep
  <1>1. known' \in [Clients -> Nat \X Nat]
    <2>1. CalculateRevision(Cached(obj)) \in Nat \X Nat
      BY ClientTypes DEF StoreInv, CalculateRevision, Object
    <2>2. QED
      BY <2>1 DEF GetRevision, StoreInv, TypeOK
  <1>2. UNCHANGED <<obj, req, at, copy, ans, asked>>
    BY DEF GetRevision
  <1>3. TypeOK' /\ VersionsRise' /\ RequestsPend'
    BY <1>1, <1>2 DEF StoreInv, TypeOK, VersionsRise, RequestsPend, Stored
  <1>4. CopiesFit'
    BY <1>2 DEF StoreInv, CopiesFit, CopyFits, Res, Stored, CalculateRevision
  <1>5. RegStep
    BY <1>2 DEF RegStep, Register!regVars
  <1>6. QED
    BY <1>3, <1>4, <1>5 DEF StoreInv

\* A watch event moves the cache; the register does not show it.
LEMMA DeliverRefines ==
    ASSUME StoreInv, Deliver
    PROVE  StoreInv' /\ RegStep
  <1>1. obj \in Versions(Object) /\ Behind(obj) /\ obj' = Tail(obj)
        /\ UNCHANGED <<known, req, at, copy, ans, asked>>
    BY DEF Deliver, StoreInv, TypeOK
  <1>2. /\ obj' \in Versions(Object) /\ Stored(obj') = Stored(obj) /\ Len(obj') = Len(obj) - 1
        /\ \A i \in 1 .. Len(obj) - 1 : obj'[i] = obj[i + 1]
    BY <1>1, TailFacts
  <1>3. Len(obj) \in Nat
    BY <1>1 DEF Versions
  <1>4. TypeOK' /\ RequestsPend'
    BY <1>1, <1>2 DEF StoreInv, TypeOK, RequestsPend
  <1>5. VersionsRise'
    <2>1. ASSUME NEW i \in 1 .. Len(obj'), NEW j \in 1 .. Len(obj'), i < j
          PROVE  obj'[i].rv < obj'[j].rv
      <3>1. i + 1 \in 1 .. Len(obj) /\ j + 1 \in 1 .. Len(obj) /\ i + 1 < j + 1
        BY <1>2, <1>3, <2>1
      <3>2. obj'[i] = obj[i + 1] /\ obj'[j] = obj[j + 1]
        BY <1>2, <1>3
      <3>3. obj[i + 1].rv < obj[j + 1].rv
        BY <3>1 DEF StoreInv, VersionsRise
      <3>4. QED
        BY <3>2, <3>3
    <2>2. ASSUME NEW i \in 1 .. Len(obj')
          PROVE  obj'[i].res = Stored(obj').res
      <3>1. i + 1 \in 1 .. Len(obj) /\ obj'[i] = obj[i + 1]
        BY <1>2, <1>3
      <3>2. QED
        BY <1>2, <3>1 DEF StoreInv, VersionsRise
    <2>3. QED
      BY <2>1, <2>2 DEF VersionsRise
  <1>6. CopiesFit'
    BY <1>1, <1>2 DEF StoreInv, CopiesFit, CopyFits, Res, CalculateRevision
  <1>7. RegStep
    BY <1>1, <1>2 DEF RegStep, Register!regVars
  <1>8. QED
    BY <1>4, <1>5, <1>6, <1>7 DEF StoreInv

LEMMA WithValueType ==
    ASSUME NEW o \in Object, NEW v \in Values
    PROVE  /\ WithValue(o, v) \in Object /\ WithValue(o, v).res = o.res
           /\ View(WithValue(o, v)) = Register!WithValue(View(o), v)
  <1>1. PICK g \in Nat : g = IF v = o.val THEN o.gen ELSE o.gen + 1
    BY DEF Object
  <1>2. WithValue(o, v) = [o EXCEPT !.val = v, !.gen = g]
    BY <1>1 DEF WithValue, Object
  <1>3. WithValue(o, v) \in Object /\ WithValue(o, v).res = o.res
    BY <1>2 DEF Object
  <1>4. Register!WithValue(View(o), v) = [View(o) EXCEPT !.val = v, !.gen = g]
    BY <1>1 DEF Register!WithValue, View
  <1>5. View([o EXCEPT !.val = v, !.gen = g]) = [View(o) EXCEPT !.val = v, !.gen = g]
    <2>1. PICK p \in Object : p = [o EXCEPT !.val = v, !.gen = g]
      BY <1>2, <1>3
    <2>2. /\ p.res = o.res /\ p.uid = o.uid /\ p.gen = g /\ p.val = v
          /\ p.stopped = o.stopped /\ p.label = o.label
      BY <2>1 DEF Object
    <2>3. PICK w \in Register!Contents : w = View(o)
      BY ViewType
    <2>4. PICK r \in Register!Contents : r = View(p)
      BY ViewType
    <2>5. /\ r.res = w.res /\ r.uid = w.uid /\ r.gen = g /\ r.val = v
          /\ r.stopped = w.stopped /\ r.label = w.label
      BY <2>2, <2>3, <2>4 DEF View
    <2>6. r = [w EXCEPT !.val = v, !.gen = g]
      BY <2>5 DEF Register!Contents
    <2>7. QED
      BY <2>1, <2>3, <2>4, <2>6
  <1>6. QED
    BY <1>2, <1>3, <1>4, <1>5

\* Controllers and administrators write what they like.
LEMMA OthersRefines ==
    ASSUME StoreInv, Others
    PROVE  StoreInv' /\ RegStep
  <1>1. PICK o \in Object : o.res = Res /\ Write(o)
    <2>1. Stored(obj) \in Object
      BY ReadType DEF StoreInv, TypeOK
    <2>2. /\ [Stored(obj) EXCEPT !.stopped = ~@] \in Object
          /\ [Stored(obj) EXCEPT !.stopped = ~@].res = Res
      BY <2>1 DEF Object, Res
    <2>3. /\ [Stored(obj) EXCEPT !.label = ~@] \in Object
          /\ [Stored(obj) EXCEPT !.label = ~@].res = Res
      BY <2>1 DEF Object, Res
    <2>4. /\ [Stored(obj) EXCEPT !.uid = 0] \in Object
          /\ [Stored(obj) EXCEPT !.uid = 0].res = Res
      BY <2>1 DEF Object, Res
    <2>5. WithValue(Stored(obj), 1) \in Object /\ WithValue(Stored(obj), 1).res = Res
      <3>1. 1 \in Values
        BY DEF Values
      <3>2. QED
        BY <2>1, <3>1, WithValueType DEF Res
    <2>6. QED
      BY <2>2, <2>3, <2>4, <2>5 DEF Others
  <1>2. UNCHANGED <<known, req, at, copy, ans, asked>>
    BY DEF Others
  <1>3. StoreInv' /\ Stored(obj)' = [o EXCEPT !.rv = Stored(obj).rv + 1]
    BY <1>1, <1>2, WriteStep DEF StoreInv, TypeOK
  <1>4. RegStep
    <2>1. View(Stored(obj))' = View(o)
      BY <1>3 DEF View, Object
    <2>2. View(o) \in Register!Contents /\ View(o).res = View(Stored(obj)).res
      BY <1>1, ViewType DEF View, Res
    <2>3. [d \in Clients |-> Call(d)]' = [d \in Clients |-> Call(d)]
      BY <1>2 DEF Call
    <2>4. Register!Others
      BY <2>1, <2>2, <2>3 DEF Register!Others, View, Call
    <2>5. QED
      BY <2>4 DEF RegStep, Register!RegNext
  <1>5. QED
    BY <1>3, <1>4

\* A refusal, as a step of the register.
LEMMA RefusalRefines ==
    ASSUME StoreInv, NEW c \in Clients, at[c] # "idle",
           NEW status \in {"403", "404", "409", "error"},
           Refuse(c, status), UNCHANGED <<req, asked>>
    PROVE  StoreInv' /\ RegStep
  BY RefuseStep, ClientRegStep

\* The checks before a create or an update, and the read before a delete.
LEMMA ChecksRefine ==
    ASSUME StoreInv, NEW c \in Clients, CheckCreate(c) \/ CheckUpdate(c) \/ ReadForDelete(c)
    PROVE  StoreInv' /\ RegStep
  <1>1. /\ at[c] # "idle" /\ UNCHANGED <<req, asked>>
        /\ req[c].op = "update" => at[c] = "check"
    BY DEF CheckCreate, CheckUpdate, ReadForDelete
  <1>2. Goto(c, "write") \/ \E status \in {"403", "404", "409", "error"} : Refuse(c, status)
    BY DEF CheckCreate, CheckUpdate, ReadForDelete
  <1>3. CASE Goto(c, "write")
    BY <1>1, <1>3, GotoStep DEF RegStep
  <1>4. QED
    BY <1>1, <1>2, <1>3, RefusalRefines

\* A create, which the register accepts when there is no object.
LEMMA CreateRefines ==
    ASSUME StoreInv, NEW c \in Clients, Create(c)
    PROVE  StoreInv' /\ RegStep
  <1>1. at[c] # "idle" /\ UNCHANGED <<req, asked>> /\ req[c].op = "create"
    BY DEF Create
  <1>2. CASE \E status \in {"403", "404", "409", "error"} : Refuse(c, status)
    BY <1>1, <1>2, RefusalRefines
  <1>3. PICK o : o = [Stored(obj) EXCEPT !.uid = Stored(obj).rv + 1, !.gen = 1,
                                         !.val = req[c].val, !.stopped = FALSE,
                                         !.label = TRUE]
    OBVIOUS
  <1>4. CASE Stored(obj).uid = 0 /\ Succeed(c, o)
    <2>1. Stored(obj) \in Object /\ req[c].val \in {0, 1}
      BY <1>1, ClientTypes DEF StoreInv, RequestsPend
    <2>2. o \in Object /\ o.res = Res /\ o.uid > 0 /\ o.val = req[c].val /\ o.label = TRUE
      <3>1. req[c].val \in Values
        BY <2>1 DEF Values
      <3>2. o \in Object
        <4>1. o = [res |-> Stored(obj).res, uid |-> Stored(obj).rv + 1, gen |-> 1,
                   val |-> req[c].val, stopped |-> FALSE, label |-> TRUE,
                   rv |-> Stored(obj).rv]
          BY <1>3, <2>1 DEF Object
        <4>2. QED
          BY <2>1, <3>1, <4>1 DEF Object
      <3>3. o.uid = Stored(obj).rv + 1 /\ Stored(obj).rv \in Nat
        BY <1>3, <2>1 DEF Object
      <3>4. o.res = Res /\ o.val = req[c].val /\ o.label = TRUE
        BY <1>3, <2>1 DEF Object, Res
      <3>5. QED
        BY <3>2, <3>3, <3>4
    <2>3. Register!Accepted(View(Stored(obj)), Call(c), View(o))
      BY <1>1, <1>4, <2>1, <2>2 DEF Register!Accepted, View, Call, Res
    <2>4. known' \in [Clients -> Nat \X Nat]
      BY <1>4, <2>2, SucceedTypes DEF StoreInv
    <2>5. QED
      BY <1>1, <1>4, <2>2, <2>3, <2>4, AcceptStep, ClientRegStep DEF Succeed
  <1>5. QED
    BY <1>2, <1>3, <1>4 DEF Create

\* The read before an update: the copy passes the checks when it is made.
LEMMA ReadForUpdateRefines ==
    ASSUME StoreInv, NEW c \in Clients, ReadForUpdate(c)
    PROVE  StoreInv' /\ RegStep
  <1>1. at[c] # "idle" /\ UNCHANGED <<req, asked>> /\ req[c].op = "update"
    BY DEF ReadForUpdate
  <1>2. CASE \E status \in {"403", "404", "409", "error"} : Refuse(c, status)
    BY <1>1, <1>2, RefusalRefines
  <1>3. CASE /\ Get.uid # 0
             /\ Res \in Revisioned => CalculateRevision(Get) = req[c].rev
             /\ Res = "secret" => Get.label
             /\ copy' = [copy EXCEPT ![c] = Get]
             /\ at' = [at EXCEPT ![c] = IF Res = "workspace" THEN "check" ELSE "write"]
             /\ UNCHANGED <<obj, known, ans>>
    <2>1. Get \in Object /\ Stored(obj) \in Object /\ obj \in Versions(Object)
      BY ClientTypes DEF StoreInv, TypeOK
    <2>2. Get.rv <= Stored(obj).rv /\ (Get.rv = Stored(obj).rv => Get = Stored(obj))
      <3>1. CASE Get = Stored(obj)
        BY <2>1, <3>1 DEF Object
      <3>2. CASE Get # Stored(obj)
        <4>1. Get = obj[1] /\ Len(obj) \in Nat /\ Len(obj) > 0 /\ Stored(obj) = obj[Len(obj)]
          BY <2>1, <3>2 DEF Get, Cached, Stored, Versions
        <4>2. 1 < Len(obj)
          BY <3>2, <4>1
        <4>3. obj[1].rv < obj[Len(obj)].rv
          BY <4>1, <4>2 DEF StoreInv, VersionsRise
        <4>4. Get.rv \in Nat /\ Stored(obj).rv \in Nat
          BY <2>1 DEF Object
        <4>5. QED
          BY <4>1, <4>3, <4>4
      <3>3. QED
        BY <3>1, <3>2
    <2>3. CopyFits(c)'
      <3>1. copy'[c] = Get /\ Stored(obj)' = Stored(obj) /\ req'[c] = req[c] /\ Res' = Res
        BY <1>1, <1>3 DEF Stored, Res, StoreInv, TypeOK
      <3>2. QED
        BY <1>3, <2>2, <3>1 DEF CopyFits, CalculateRevision
    <2>4. StoreInv'
      <3>1. PICK stage : stage = IF Res = "workspace" THEN "check" ELSE "write"
        OBVIOUS
      <3>2. stage \in Stages /\ at' = [at EXCEPT ![c] = stage]
        BY <1>3, <3>1 DEF Stages
      <3>3. /\ ans[c] = "pending" /\ ans' = [ans EXCEPT ![c] = "pending"]
            /\ "pending" \in Answers /\ known' \in [Clients -> Nat \X Nat]
        BY <1>1, <1>3 DEF StoreInv, RequestsPend, TypeOK, Answers
      <3>4. QED
        BY <1>1, <1>3, <2>1, <2>3, <3>2, <3>3, LocalStep
    <2>5. UNCHANGED Register!regVars
      BY <1>1, <1>3 DEF Register!regVars
    <2>6. QED
      BY <2>4, <2>5 DEF RegStep
  <1>4. QED
    BY <1>2, <1>3 DEF ReadForUpdate

\* What the provers need to know of the fields of a view and of a call.
LEMMA ViewFields ==
    ASSUME TypeOK, NEW c \in Clients
    PROVE  /\ View(Stored(obj)).res = Res /\ View(Stored(obj)).uid = Stored(obj).uid
           /\ View(Stored(obj)).val = Stored(obj).val
           /\ View(Stored(obj)).stopped = Stored(obj).stopped
           /\ View(Stored(obj)).label = Stored(obj).label
           /\ Register!Revision(View(Stored(obj))) = CalculateRevision(Stored(obj))
           /\ Call(c).op = req[c].op /\ Call(c).rev = req[c].rev /\ Call(c).val = req[c].val
  BY DEF View, Call, Res, Register!Revision, CalculateRevision

\* An update that is stored: the copy is the stored object, so what was
\* checked of the copy holds of the object that is replaced.
LEMMA UpdateRefines ==
    ASSUME StoreInv, NEW c \in Clients, Update(c)
    PROVE  StoreInv' /\ RegStep
  <1>1. at[c] = "write" /\ UNCHANGED <<req, asked>> /\ req[c].op = "update" /\ UpdateObject(c)
    BY DEF Update
  <1>2. CASE \E status \in {"403", "404", "409", "error"} : Refuse(c, status)
    BY <1>1, <1>2, RefusalRefines
  <1>3. CASE /\ Stored(obj).uid # 0 /\ Stored(obj).rv = copy[c].rv
             /\ Succeed(c, Applied(copy[c], req[c].val))
    <2>1. CopyFits(c)
      BY <1>1 DEF StoreInv, CopiesFit
    <2>2. /\ copy[c] = Stored(obj) /\ Stored(obj) \in Object
          /\ Res \in Revisioned => CalculateRevision(Stored(obj)) = req[c].rev
          /\ Res = "secret" => Stored(obj).label
      BY <1>3, <2>1, ClientTypes DEF CopyFits, StoreInv
    <2>3. PICK v : v = IF req[c].val = Keep THEN Stored(obj).val ELSE req[c].val
      OBVIOUS
    <2>4. v \in Values /\ Applied(copy[c], req[c].val) = WithValue(Stored(obj), v)
      BY <2>2, <2>3, ClientTypes DEF StoreInv, Object, Applied
    <2>5. PICK o \in Object : o = WithValue(Stored(obj), v)
      BY <2>2, <2>4, WithValueType
    <2>6. o.res = Res /\ View(o) = Register!WithValue(View(Stored(obj)), v)
      BY <2>2, <2>4, <2>5, WithValueType DEF Res
    <2>7. Register!Accepted(View(Stored(obj)), Call(c), View(o))
      <3>1. Call(c).op = "update" /\ View(Stored(obj)).uid # 0
        BY <1>1, <1>3, ViewFields DEF StoreInv
      <3>2. View(Stored(obj)).res \in Register!Revisioned
              => Call(c).rev = Register!Revision(View(Stored(obj)))
        BY <2>2, ViewFields DEF StoreInv, Register!Revisioned, Revisioned
      <3>3. View(Stored(obj)).res = "secret" => View(Stored(obj)).label
        BY <2>2, ViewFields DEF StoreInv
      <3>4. v = IF Call(c).val = Register!Keep THEN View(Stored(obj)).val ELSE Call(c).val
        BY <2>3, ViewFields DEF StoreInv, Register!Keep, Keep
      <3>5. QED
        BY <2>6, <3>1, <3>2, <3>3, <3>4 DEF Register!Accepted
    <2>8. Succeed(c, o)
      BY <1>3, <2>4, <2>5
    <2>9. known' \in [Clients -> Nat \X Nat]
      BY <2>8, SucceedTypes DEF StoreInv
    <2>10. QED
      BY <1>1, <2>6, <2>7, <2>8, <2>9, AcceptStep, ClientRegStep DEF Succeed
  <1>4. QED
    BY <1>1, <1>2, <1>3 DEF UpdateObject

\* A delete, accepted when there is an object.
LEMMA DeleteRefines ==
    ASSUME StoreInv, NEW c \in Clients, Delete(c)
    PROVE  StoreInv' /\ RegStep
  <1>1. at[c] = "write" /\ UNCHANGED <<req, asked>> /\ req[c].op = "delete"
    BY DEF Delete
  <1>2. CASE \E status \in {"403", "404", "409", "error"} : Refuse(c, status)
    BY <1>1, <1>2, RefusalRefines
  <1>3. CASE /\ Stored(obj).uid # 0 /\ Write([Stored(obj) EXCEPT !.uid = 0])
             /\ Reply(c, "200") /\ UNCHANGED known
    <2>1. Stored(obj) \in Object
      BY ClientTypes DEF StoreInv
    <2>2. PICK o \in Object : o = [Stored(obj) EXCEPT !.uid = 0]
      BY <2>1 DEF Object
    <2>3. /\ o.res = Stored(obj).res /\ o.uid = 0 /\ o.gen = Stored(obj).gen
          /\ o.val = Stored(obj).val /\ o.stopped = Stored(obj).stopped
          /\ o.label = Stored(obj).label
      BY <2>1, <2>2 DEF Object
    <2>4. View(o) = [View(Stored(obj)) EXCEPT !.uid = 0]
      <3>1. PICK w \in Register!Contents : w = View(Stored(obj))
        BY <2>1, ViewType
      <3>2. PICK r \in Register!Contents : r = View(o)
        BY ViewType
      <3>3. /\ r.res = w.res /\ r.uid = 0 /\ r.gen = w.gen /\ r.val = w.val
            /\ r.stopped = w.stopped /\ r.label = w.label
        BY <2>3, <3>1, <3>2 DEF View
      <3>4. r = [w EXCEPT !.uid = 0]
        BY <3>3 DEF Register!Contents
      <3>5. QED
        BY <3>1, <3>2, <3>4
    <2>5. Register!Accepted(View(Stored(obj)), Call(c), View(o))
      BY <1>1, <1>3, <2>4, ViewFields DEF Register!Accepted, StoreInv
    <2>6. known' \in [Clients -> Nat \X Nat]
      BY <1>3 DEF StoreInv, TypeOK
    <2>7. QED
      BY <1>1, <1>3, <2>2, <2>3, <2>5, <2>6, AcceptStep, ClientRegStep DEF Res
  <1>4. QED
    BY <1>2, <1>3 DEF Delete

\* Pausing and starting, whose tests the API server makes on what is stored.
LEMMA HandlePauseActionRefines ==
    ASSUME StoreInv, NEW c \in Clients, HandlePauseAction(c)
    PROVE  StoreInv' /\ RegStep
  <1>1. at[c] = "write" /\ UNCHANGED <<req, asked>> /\ req[c].op \in {"pause", "start"}
    BY DEF HandlePauseAction
  <1>2. CASE \E status \in {"403", "404", "409", "error"} : Refuse(c, status)
    BY <1>1, <1>2, RefusalRefines
  <1>3. PICK target \in {0, 1} : target = IF req[c].op = "pause" THEN 1 ELSE 0
    OBVIOUS
  <1>4. CASE /\ Stored(obj).uid # 0
             /\ Stored(obj).val = 1 - target /\ (req[c].op = "start" => Stored(obj).stopped)
             /\ Write(WithValue(Stored(obj), target))
             /\ Reply(c, "200") /\ UNCHANGED known
    <2>1. Stored(obj) \in Object /\ target \in Values
      BY ClientTypes DEF StoreInv, Values
    <2>2. PICK o \in Object : o = WithValue(Stored(obj), target)
      BY <2>1, WithValueType
    <2>3. o.res = Res /\ View(o) = Register!WithValue(View(Stored(obj)), target)
      BY <2>1, <2>2, WithValueType DEF Res
    <2>4. Register!Accepted(View(Stored(obj)), Call(c), View(o))
      <3>1. CASE req[c].op = "pause"
        BY <1>3, <1>4, <2>3, <3>1, ViewFields DEF Register!Accepted, StoreInv
      <3>2. CASE req[c].op = "start"
        BY <1>3, <1>4, <2>3, <3>2, ViewFields DEF Register!Accepted, StoreInv
      <3>3. QED
        BY <1>1, <3>1, <3>2
    <2>5. known' \in [Clients -> Nat \X Nat]
      BY <1>4 DEF StoreInv, TypeOK
    <2>6. QED
      BY <1>1, <1>4, <2>2, <2>3, <2>4, <2>5, AcceptStep, ClientRegStep
  <1>5. QED
    BY <1>2, <1>3, <1>4 DEF HandlePauseAction

\* Every step keeps the invariant and is a step of the register or none.
LEMMA StoreStep ==
    ASSUME StoreInv, [Next]_vars
    PROVE  StoreInv' /\ RegStep
  <1>1. CASE UNCHANGED vars
    <2>1. TypeOK' /\ VersionsRise' /\ RequestsPend'
      BY <1>1 DEF vars, StoreInv, TypeOK, VersionsRise, RequestsPend, Stored
    <2>2. CopiesFit'
      BY <1>1 DEF vars, StoreInv, CopiesFit, CopyFits, Res, Stored, CalculateRevision
    <2>3. RegStep
      BY <1>1 DEF vars, RegStep, Register!regVars
    <2>4. QED
      BY <2>1, <2>2, <2>3 DEF StoreInv
  <1>2. CASE Deliver \/ Others
    BY <1>2, DeliverRefines, OthersRefines
  <1>3. ASSUME NEW c \in Clients,
               \/ Submit(c) \/ GetRevision(c)
               \/ CheckCreate(c) \/ Create(c)
               \/ ReadForUpdate(c) \/ CheckUpdate(c) \/ Update(c)
               \/ ReadForDelete(c) \/ Delete(c)
               \/ HandlePauseAction(c)
        PROVE  StoreInv' /\ RegStep
    BY <1>3, SubmitRefines, GetRevisionRefines, ChecksRefine, CreateRefines,
       ReadForUpdateRefines, UpdateRefines, DeleteRefines, HandlePauseActionRefines
  <1>4. QED
    BY <1>1, <1>2, <1>3 DEF Next

\* Every reachable state of the object, the handlers and the callers is
\* well-formed.
THEOREM TypeCorrect == Spec => []TypeOK
  <1>1. Init => StoreInv
    BY StoreInit
  <1>2. StoreInv /\ [Next]_vars => StoreInv'
    BY StoreStep
  <1>3. StoreInv => TypeOK
    BY DEF StoreInv
  <1>4. QED
    BY <1>1, <1>2, <1>3, PTL DEF Spec

\* The repositories implement the register: an accepted update replaced the
\* very revision its caller named, an accepted update of a Secret kept what it
\* did not name, and no accepted write is lost, for any number of callers,
\* requests and versions, however late the cache is.
THEOREM StoreImplementsRegister == Spec => ImplementsRegister
  <1>1. Init => StoreInv
    BY StoreInit
  <1>2. StoreInv /\ [Next]_vars => StoreInv'
    BY StoreStep
  <1>3. StoreInv /\ [Next]_vars => [Register!RegNext]_(Register!regVars)
    BY StoreStep DEF RegStep
  <1>4. QED
    BY <1>1, <1>2, <1>3, RegisterInit, PTL DEF Spec, ImplementsRegister, Register!RegSpec
=============================================================================
