------------------------ MODULE BackendRequestsProofs ------------------------
(***************************************************************************)
(* What a permission does to requests, for any number of requests, any     *)
(* life of a verdict and any latency of a review.                          *)
(*                                                                         *)
(* Two arguments meet.  One is about the code of every handler, by cases:  *)
(* it asks before it calls, for a permission that covers the call, and     *)
(* writes only statuses of the document.  The other is about time: the     *)
(* verdict of a review under way is no older than the review, that of the  *)
(* cache no older than its entry and the review together, so whatever a    *)
(* request is decided by was true not long before it arrived.              *)
(***************************************************************************)
EXTENDS BackendRequests, TLAPS

Verbs == {"none", "get", "list", "create", "update", "patch", "delete"}
Kinds == {"none", "namespaces", "persistentvolumeclaims", "secrets", "storageclasses",
          "workspaces", "pods", "workspacekinds"}
Scopes == {"none", "object", "namespace", "all"}
Doings == {"check", "authorize", "call", "answer"}

PolicyType == [verb : Verbs, resource : Kinds, scope : Scopes]
StageType == [does : Doings, policy : PolicyType, fails : SUBSET Nat]

\* Whether a handler, for a permission p, asks before it calls, calls only what p covers,
\* and writes only documented statuses.
StagesSound(h, p, doc) ==
    \A i \in 1..Len(h) :
      /\ h[i].fails \subseteq doc
      /\ h[i].does = "authorize" => h[i].fails = {401, 403, 500}
      /\ h[i].does = "call" => /\ Covers(p, h[i].policy)
                               /\ \E j \in 1..i - 1 : h[j].does = "authorize"

HandlerSound(h, doc) ==
    /\ h \in Seq(StageType) /\ h # <<>>
    /\ 500 \in doc
    /\ StagesSound(h, PolicyOf(h), doc)

-----------------------------------------------------------------------------
(***************************************************************************)
(* The shapes of the handlers.                                             *)
(***************************************************************************)
AuthStage(p) == Stage("authorize", p, {401, 403, 500})
CallStage(e, f) == Stage("call", e, f)
AnswerStage(f) == Stage("answer", NoPolicy, f)

\* The stages that handlers are made of are stages.
LEMMA StagesType ==
    ASSUME NEW f \in SUBSET Nat
    PROVE  Check(f) \in StageType /\ AnswerStage(f) \in StageType
  <1>1. NoPolicy \in PolicyType
    BY DEF NoPolicy, Policy, PolicyType, Verbs, Kinds, Scopes
  <1> QED
    BY <1>1 DEF Check, AnswerStage, Stage, StageType, Doings

LEMMA AuthStageType ==
    ASSUME NEW p \in PolicyType
    PROVE  AuthStage(p) \in StageType
  BY DEF AuthStage, Stage, StageType, Doings

LEMMA CallStageType ==
    ASSUME NEW e \in PolicyType, NEW f \in SUBSET Nat
    PROVE  CallStage(e, f) \in StageType
  BY DEF CallStage, Stage, StageType, Doings


\* The permission of a handler with one requireAuth() is the one that it names.
LEMMA PolicyOfOne ==
    ASSUME NEW h, NEW k \in 1..Len(h), h[k].does = "authorize",
           \A i \in 1..Len(h) : i # k => h[i].does # "authorize"
    PROVE  PolicyOf(h) = h[k].policy
  <1> DEFINE S == {h[i] : i \in 1..Len(h)}
  <1>1. h[k] \in S /\ \A s \in S : s.does = "authorize" => s = h[k]
    OBVIOUS
  <1>2. (CHOOSE s \in S : s.does = "authorize") = h[k]
    BY <1>1
  <1> QED
    BY <1>2 DEF PolicyOf

\* Stage i of a handler that asks at its stage k, and calls only later.
StageFits(h, k, i, doc) ==
    /\ h[i].fails \subseteq doc
    /\ h[i].does = "authorize" <=> i = k
    /\ i = k => h[i].fails = {401, 403, 500}
    /\ h[i].does = "call" => i > k /\ Covers(h[k].policy, h[i].policy)

\* It is enough to look at each stage.
LEMMA SoundByStages ==
    ASSUME NEW h, h \in Seq(StageType), NEW doc,
           \E k \in 1..Len(h) : \A i \in 1..Len(h) : StageFits(h, k, i, doc)
    PROVE  HandlerSound(h, doc)
  <1>1. PICK k \in 1..Len(h) : \A i \in 1..Len(h) : StageFits(h, k, i, doc)
    OBVIOUS
  <1>2. StageFits(h, k, k, doc)
    BY <1>1
  <1>3. PolicyOf(h) = h[k].policy
    BY <1>1, <1>2, PolicyOfOne DEF StageFits
  <1>4. h # <<>> /\ 500 \in doc
    BY <1>2 DEF StageFits
  <1>5. ASSUME NEW i \in 1..Len(h), h[i].does = "call"
        PROVE  Covers(h[k].policy, h[i].policy) /\ \E j \in 1..i - 1 : h[j].does = "authorize"
    <2>1. Covers(h[k].policy, h[i].policy) /\ k \in 1..i - 1
      BY <1>1, <1>5 DEF StageFits
    <2> QED
      BY <1>2, <2>1 DEF StageFits
  <1>6. \A i \in 1..Len(h) : h[i].fails \subseteq doc
                             /\ (h[i].does = "authorize" => h[i].fails = {401, 403, 500})
    BY <1>1 DEF StageFits
  <1> QED
    BY <1>3, <1>4, <1>5, <1>6 DEF HandlerSound, StagesSound

\* requireAuth(), the call, the answer.
LEMMA AuthCall ==
    ASSUME NEW p \in PolicyType, NEW e \in PolicyType, Covers(p, e),
           NEW doc \in SUBSET Nat, {401, 403, 500} \subseteq doc,
           NEW f2 \in SUBSET doc, NEW f3 \in SUBSET doc
    PROVE  HandlerSound(<<AuthStage(p), CallStage(e, f2), AnswerStage(f3)>>, doc)
  <1> DEFINE h == <<AuthStage(p), CallStage(e, f2), AnswerStage(f3)>>
  <1>1. f2 \in SUBSET Nat /\ f3 \in SUBSET Nat
    OBVIOUS
  <1>2. /\ AuthStage(p) \in StageType
        /\ CallStage(e, f2) \in StageType
        /\ AnswerStage(f3) \in StageType
    <2>1. AuthStage(p) \in StageType
      BY AuthStageType
    <2>2. CallStage(e, f2) \in StageType
      BY <1>1, CallStageType
    <2>3. AnswerStage(f3) \in StageType
      BY <1>1, StagesType
    <2> QED
      BY <2>1, <2>2, <2>3
  <1>3. h \in Seq(StageType) /\ Len(h) = 3
    BY <1>2
  <1>4. /\ h[1].does = "authorize" /\ h[1].policy = p /\ h[1].fails = {401, 403, 500}
        /\ h[2].does = "call" /\ h[2].policy = e /\ h[2].fails = f2
        /\ h[3].does = "answer" /\ h[3].fails = f3
    BY DEF Check, AuthStage, CallStage, AnswerStage, Stage
  <1> HIDE DEF h
  <1>5. /\ StageFits(h, 1, 1, doc)
        /\ StageFits(h, 1, 2, doc)
        /\ StageFits(h, 1, 3, doc)
    BY <1>4 DEF StageFits
  <1>6. 1 \in 1..Len(h) /\ \A i \in 1..Len(h) : StageFits(h, 1, i, doc)
    BY <1>3, <1>5
  <1>7. \E k \in 1..Len(h) : \A i \in 1..Len(h) : StageFits(h, k, i, doc)
    BY <1>6
  <1>8. h \in Seq(StageType)
    BY <1>3
  <1>9. HandlerSound(h, doc)
    BY <1>7, <1>8, SoundByStages
  <1> QED
    BY <1>9 DEF h

\* The same, after a check.
LEMMA CheckAuthCall ==
    ASSUME NEW p \in PolicyType, NEW e \in PolicyType, Covers(p, e),
           NEW doc \in SUBSET Nat, {401, 403, 500} \subseteq doc,
           NEW f1 \in SUBSET doc, NEW f3 \in SUBSET doc, NEW f4 \in SUBSET doc
    PROVE  HandlerSound(<<Check(f1), AuthStage(p), CallStage(e, f3), AnswerStage(f4)>>, doc)
  <1> DEFINE h == <<Check(f1), AuthStage(p), CallStage(e, f3), AnswerStage(f4)>>
  <1>1. f1 \in SUBSET Nat /\ f3 \in SUBSET Nat /\ f4 \in SUBSET Nat
    OBVIOUS
  <1>2. /\ Check(f1) \in StageType
        /\ AuthStage(p) \in StageType
        /\ CallStage(e, f3) \in StageType
        /\ AnswerStage(f4) \in StageType
    <2>1. Check(f1) \in StageType
      BY <1>1, StagesType
    <2>2. AuthStage(p) \in StageType
      BY AuthStageType
    <2>3. CallStage(e, f3) \in StageType
      BY <1>1, CallStageType
    <2>4. AnswerStage(f4) \in StageType
      BY <1>1, StagesType
    <2> QED
      BY <2>1, <2>2, <2>3, <2>4
  <1>3. h \in Seq(StageType) /\ Len(h) = 4
    BY <1>2
  <1>4. /\ h[1].does = "check" /\ h[1].fails = f1
        /\ h[2].does = "authorize" /\ h[2].policy = p /\ h[2].fails = {401, 403, 500}
        /\ h[3].does = "call" /\ h[3].policy = e /\ h[3].fails = f3
        /\ h[4].does = "answer" /\ h[4].fails = f4
    BY DEF Check, AuthStage, CallStage, AnswerStage, Stage
  <1> HIDE DEF h
  <1>5. /\ StageFits(h, 2, 1, doc)
        /\ StageFits(h, 2, 2, doc)
        /\ StageFits(h, 2, 3, doc)
        /\ StageFits(h, 2, 4, doc)
    BY <1>4 DEF StageFits
  <1>6. 2 \in 1..Len(h) /\ \A i \in 1..Len(h) : StageFits(h, 2, i, doc)
    BY <1>3, <1>5
  <1>7. \E k \in 1..Len(h) : \A i \in 1..Len(h) : StageFits(h, k, i, doc)
    BY <1>6
  <1>8. h \in Seq(StageType)
    BY <1>3
  <1>9. HandlerSound(h, doc)
    BY <1>7, <1>8, SoundByStages
  <1> QED
    BY <1>9 DEF h

\* The same, when the body is read before requireAuth().
LEMMA BodyAuthCall ==
    ASSUME NEW p \in PolicyType, NEW e \in PolicyType, Covers(p, e),
           NEW doc \in SUBSET Nat, {401, 403, 500} \subseteq doc,
           NEW f1 \in SUBSET doc, NEW f2 \in SUBSET doc, NEW f4 \in SUBSET doc, NEW f5 \in SUBSET doc
    PROVE  HandlerSound(<<Check(f1), Check(f2), AuthStage(p), CallStage(e, f4), AnswerStage(f5)>>, doc)
  <1> DEFINE h == <<Check(f1), Check(f2), AuthStage(p), CallStage(e, f4), AnswerStage(f5)>>
  <1>1. f1 \in SUBSET Nat /\ f2 \in SUBSET Nat /\ f4 \in SUBSET Nat /\ f5 \in SUBSET Nat
    OBVIOUS
  <1>2. /\ Check(f1) \in StageType
        /\ Check(f2) \in StageType
        /\ AuthStage(p) \in StageType
        /\ CallStage(e, f4) \in StageType
        /\ AnswerStage(f5) \in StageType
    <2>1. Check(f1) \in StageType
      BY <1>1, StagesType
    <2>2. Check(f2) \in StageType
      BY <1>1, StagesType
    <2>3. AuthStage(p) \in StageType
      BY AuthStageType
    <2>4. CallStage(e, f4) \in StageType
      BY <1>1, CallStageType
    <2>5. AnswerStage(f5) \in StageType
      BY <1>1, StagesType
    <2> QED
      BY <2>1, <2>2, <2>3, <2>4, <2>5
  <1>3. h \in Seq(StageType) /\ Len(h) = 5
    BY <1>2
  <1>4. /\ h[1].does = "check" /\ h[1].fails = f1
        /\ h[2].does = "check" /\ h[2].fails = f2
        /\ h[3].does = "authorize" /\ h[3].policy = p /\ h[3].fails = {401, 403, 500}
        /\ h[4].does = "call" /\ h[4].policy = e /\ h[4].fails = f4
        /\ h[5].does = "answer" /\ h[5].fails = f5
    BY DEF Check, AuthStage, CallStage, AnswerStage, Stage
  <1> HIDE DEF h
  <1>5. /\ StageFits(h, 3, 1, doc)
        /\ StageFits(h, 3, 2, doc)
        /\ StageFits(h, 3, 3, doc)
        /\ StageFits(h, 3, 4, doc)
        /\ StageFits(h, 3, 5, doc)
    BY <1>4 DEF StageFits
  <1>6. 3 \in 1..Len(h) /\ \A i \in 1..Len(h) : StageFits(h, 3, i, doc)
    BY <1>3, <1>5
  <1>7. \E k \in 1..Len(h) : \A i \in 1..Len(h) : StageFits(h, k, i, doc)
    BY <1>6
  <1>8. h \in Seq(StageType)
    BY <1>3
  <1>9. HandlerSound(h, doc)
    BY <1>7, <1>8, SoundByStages
  <1> QED
    BY <1>9 DEF h

\* The same, when the body is read after requireAuth().
LEMMA AuthBodyCall ==
    ASSUME NEW p \in PolicyType, NEW e \in PolicyType, Covers(p, e),
           NEW doc \in SUBSET Nat, {401, 403, 500} \subseteq doc,
           NEW f1 \in SUBSET doc, NEW f3 \in SUBSET doc, NEW f4 \in SUBSET doc, NEW f5 \in SUBSET doc
    PROVE  HandlerSound(<<Check(f1), AuthStage(p), Check(f3), CallStage(e, f4), AnswerStage(f5)>>, doc)
  <1> DEFINE h == <<Check(f1), AuthStage(p), Check(f3), CallStage(e, f4), AnswerStage(f5)>>
  <1>1. f1 \in SUBSET Nat /\ f3 \in SUBSET Nat /\ f4 \in SUBSET Nat /\ f5 \in SUBSET Nat
    OBVIOUS
  <1>2. /\ Check(f1) \in StageType
        /\ AuthStage(p) \in StageType
        /\ Check(f3) \in StageType
        /\ CallStage(e, f4) \in StageType
        /\ AnswerStage(f5) \in StageType
    <2>1. Check(f1) \in StageType
      BY <1>1, StagesType
    <2>2. AuthStage(p) \in StageType
      BY AuthStageType
    <2>3. Check(f3) \in StageType
      BY <1>1, StagesType
    <2>4. CallStage(e, f4) \in StageType
      BY <1>1, CallStageType
    <2>5. AnswerStage(f5) \in StageType
      BY <1>1, StagesType
    <2> QED
      BY <2>1, <2>2, <2>3, <2>4, <2>5
  <1>3. h \in Seq(StageType) /\ Len(h) = 5
    BY <1>2
  <1>4. /\ h[1].does = "check" /\ h[1].fails = f1
        /\ h[2].does = "authorize" /\ h[2].policy = p /\ h[2].fails = {401, 403, 500}
        /\ h[3].does = "check" /\ h[3].fails = f3
        /\ h[4].does = "call" /\ h[4].policy = e /\ h[4].fails = f4
        /\ h[5].does = "answer" /\ h[5].fails = f5
    BY DEF Check, AuthStage, CallStage, AnswerStage, Stage
  <1> HIDE DEF h
  <1>5. /\ StageFits(h, 2, 1, doc)
        /\ StageFits(h, 2, 2, doc)
        /\ StageFits(h, 2, 3, doc)
        /\ StageFits(h, 2, 4, doc)
        /\ StageFits(h, 2, 5, doc)
    BY <1>4 DEF StageFits
  <1>6. 2 \in 1..Len(h) /\ \A i \in 1..Len(h) : StageFits(h, 2, i, doc)
    BY <1>3, <1>5
  <1>7. \E k \in 1..Len(h) : \A i \in 1..Len(h) : StageFits(h, k, i, doc)
    BY <1>6
  <1>8. h \in Seq(StageType)
    BY <1>3
  <1>9. HandlerSound(h, doc)
    BY <1>7, <1>8, SoundByStages
  <1> QED
    BY <1>9 DEF h

\* getHealthcheck asks for nothing and calls nothing on a user's behalf.
LEMMA CheckOnly ==
    ASSUME NEW doc \in SUBSET Nat, 500 \in doc, NEW f1 \in SUBSET doc, NEW f2 \in SUBSET doc
    PROVE  HandlerSound(<<Check(f1), AnswerStage(f2)>>, doc)
  <1> DEFINE h == <<Check(f1), AnswerStage(f2)>>
  <1>1. Check(f1) \in StageType /\ AnswerStage(f2) \in StageType
    BY StagesType
  <1>2. h \in Seq(StageType) /\ Len(h) = 2 /\ h # <<>>
    BY <1>1
  <1>3. h[1].does = "check" /\ h[1].fails = f1 /\ h[2].does = "answer" /\ h[2].fails = f2
    BY DEF Check, AnswerStage, Stage
  <1> HIDE DEF h
  <1>4. \A i \in 1..Len(h) : i \in {1, 2}
    BY <1>2
  <1>5. StagesSound(h, PolicyOf(h), doc)
    BY <1>3, <1>4 DEF StagesSound
  <1>6. HandlerSound(h, doc)
    BY <1>2, <1>5 DEF HandlerSound
  <1> QED
    BY <1>6 DEF h

-----------------------------------------------------------------------------
(***************************************************************************)
(* The handlers, one by one.                                               *)
(***************************************************************************)

\* A permission covers itself.
LEMMA CoversItself ==
    ASSUME NEW v, NEW r, NEW s \in {"object", "namespace", "all"}
    PROVE  Covers(Policy(v, r, s), Policy(v, r, s))
  BY DEF Covers, Policy, Breadth

\* The words of the policies.
LEMMA PolicyWords ==
    ASSUME NEW v \in Verbs, NEW r \in Kinds, NEW s \in Scopes
    PROVE  Policy(v, r, s) \in PolicyType
  BY DEF Policy, PolicyType

\* What is checked of parameters and bodies.
LEMMA Bodies == Params = Check({422}) /\ JsonBody = Check({400, 413, 415, 422})
  <1>1. {400, 415} \cup {400, 413} \cup {422} = {400, 413, 415, 422}
    OBVIOUS
  <1> QED
    BY <1>1 DEF Params, ParamsInvalid, JsonBody, ValidateContentType, DecodeJSON, DataInvalid

\* Every way of Routes() to handle an operation asks for a permission that covers its call
\* before it calls, and answers with the statuses that the document gives for the operation.
LEMMA RoutesSound ==
    ASSUME NEW op \in Operations, NEW h \in Routes[op]
    PROVE  HandlerSound(h, Documented[op])
  <1>1. HandlerSound(GetNamespacesHandler, DocListNamespaces)
    <2> DEFINE p == Policy("list", "namespaces", "all")
    <2>1. p \in PolicyType /\ Covers(p, p)
      BY CoversItself, PolicyWords DEF Verbs, Kinds, Scopes
    <2> HIDE DEF p
    <2>2. HandlerSound(<<AuthStage(p), CallStage(p, {500}), AnswerStage({200, 500})>>, DocListNamespaces)
      BY <2>1, AuthCall DEF DocListNamespaces
    <2> QED
      BY <2>2 DEF p, GetNamespacesHandler, RequireAuth, Call,
         Answer, AuthStage, CallStage, AnswerStage
  <1>2. HandlerSound(GetPVCsByNamespaceHandler, DocListPVCs)
    <2> DEFINE p == Policy("list", "persistentvolumeclaims", "namespace")
    <2>1. p \in PolicyType /\ Covers(p, p)
      BY CoversItself, PolicyWords DEF Verbs, Kinds, Scopes
    <2> HIDE DEF p
    <2>2. HandlerSound(<<Check({422}), AuthStage(p),
             CallStage(p, {500}), AnswerStage({200, 500})>>, DocListPVCs)
      BY <2>1, CheckAuthCall DEF DocListPVCs
    <2> QED
      BY <2>2, Bodies DEF p, GetPVCsByNamespaceHandler, RequireAuth, Call,
         Answer, AuthStage, CallStage, AnswerStage
  <1>3. HandlerSound(CreatePVCHandler, DocCreatePVC)
    <2> DEFINE p == Policy("create", "persistentvolumeclaims", "object")
    <2>1. p \in PolicyType /\ Covers(p, p)
      BY CoversItself, PolicyWords DEF Verbs, Kinds, Scopes
    <2> HIDE DEF p
    <2>2. HandlerSound(<<Check({422}), Check({400, 413, 415, 422}), AuthStage(p),
             CallStage(p, {422, 409, 500}), AnswerStage({201, 500})>>, DocCreatePVC)
      BY <2>1, BodyAuthCall DEF DocCreatePVC
    <2> QED
      BY <2>2, Bodies DEF p, CreatePVCHandler, RequireAuth, Call,
         Answer, AuthStage, CallStage, AnswerStage
  <1>4. HandlerSound(DeletePVCHandler, DocDeletePVC)
    <2> DEFINE p == Policy("delete", "persistentvolumeclaims", "object")
    <2>1. p \in PolicyType /\ Covers(p, p)
      BY CoversItself, PolicyWords DEF Verbs, Kinds, Scopes
    <2> HIDE DEF p
    <2>2. HandlerSound(<<Check({422}), AuthStage(p),
             CallStage(p, {404, 403, 409, 500}), AnswerStage({204})>>, DocDeletePVC)
      BY <2>1, CheckAuthCall DEF DocDeletePVC
    <2> QED
      BY <2>2, Bodies DEF p, DeletePVCHandler, RequireAuth, Call,
         DeletedResponse, AuthStage, CallStage, AnswerStage
  <1>5. HandlerSound(GetSecretsByNamespaceHandler, DocListSecrets)
    <2> DEFINE p == Policy("list", "secrets", "namespace")
    <2>1. p \in PolicyType /\ Covers(p, p)
      BY CoversItself, PolicyWords DEF Verbs, Kinds, Scopes
    <2> HIDE DEF p
    <2>2. HandlerSound(<<Check({422}), AuthStage(p),
             CallStage(p, {500}), AnswerStage({200, 500})>>, DocListSecrets)
      BY <2>1, CheckAuthCall DEF DocListSecrets
    <2> QED
      BY <2>2, Bodies DEF p, GetSecretsByNamespaceHandler, RequireAuth, Call,
         Answer, AuthStage, CallStage, AnswerStage
  <1>6. HandlerSound(GetSecretHandler, DocGetSecret)
    <2> DEFINE p == Policy("get", "secrets", "object")
    <2>1. p \in PolicyType /\ Covers(p, p)
      BY CoversItself, PolicyWords DEF Verbs, Kinds, Scopes
    <2> HIDE DEF p
    <2>2. HandlerSound(<<Check({422}), AuthStage(p),
             CallStage(p, {404, 500}), AnswerStage({200, 500})>>, DocGetSecret)
      BY <2>1, CheckAuthCall DEF DocGetSecret
    <2> QED
      BY <2>2, Bodies DEF p, GetSecretHandler, RequireAuth, Call,
         Answer, AuthStage, CallStage, AnswerStage
  <1>7. HandlerSound(CreateSecretHandler, DocCreateSecret)
    <2> DEFINE p == Policy("create", "secrets", "object")
    <2>1. p \in PolicyType /\ Covers(p, p)
      BY CoversItself, PolicyWords DEF Verbs, Kinds, Scopes
    <2> HIDE DEF p
    <2>2. HandlerSound(<<Check({422}), Check({400, 413, 415, 422}), AuthStage(p),
             CallStage(p, {409, 422, 500}), AnswerStage({201, 500})>>, DocCreateSecret)
      BY <2>1, BodyAuthCall DEF DocCreateSecret
    <2> QED
      BY <2>2, Bodies DEF p, CreateSecretHandler, RequireAuth, Call,
         Answer, AuthStage, CallStage, AnswerStage
  <1>8. HandlerSound(UpdateSecretHandler, DocUpdateSecret)
    <2> DEFINE p == Policy("update", "secrets", "object")
    <2>1. p \in PolicyType /\ Covers(p, p)
      BY CoversItself, PolicyWords DEF Verbs, Kinds, Scopes
    <2> HIDE DEF p
    <2>2. HandlerSound(<<Check({422}), AuthStage(p), Check({400, 413, 415, 422}),
             CallStage(p, {404, 403, 422, 500}), AnswerStage({200, 500})>>, DocUpdateSecret)
      BY <2>1, AuthBodyCall DEF DocUpdateSecret
    <2> QED
      BY <2>2, Bodies DEF p, UpdateSecretHandler, RequireAuth, Call,
         Answer, AuthStage, CallStage, AnswerStage
  <1>9. HandlerSound(DeleteSecretHandler, DocDeleteSecret)
    <2> DEFINE p == Policy("delete", "secrets", "object")
    <2>1. p \in PolicyType /\ Covers(p, p)
      BY CoversItself, PolicyWords DEF Verbs, Kinds, Scopes
    <2> HIDE DEF p
    <2>2. HandlerSound(<<Check({422}), AuthStage(p),
             CallStage(p, {404, 403, 409, 500}), AnswerStage({204})>>, DocDeleteSecret)
      BY <2>1, CheckAuthCall DEF DocDeleteSecret
    <2> QED
      BY <2>2, Bodies DEF p, DeleteSecretHandler, RequireAuth, Call,
         DeletedResponse, AuthStage, CallStage, AnswerStage
  <1>10. HandlerSound(GetStorageClassesHandler(TRUE), DocListStorageClasses)
    <2> DEFINE p == Policy("create", "persistentvolumeclaims", "namespace")
    <2> DEFINE e == Policy("list", "storageclasses", "all")
    <2>1. p \in PolicyType /\ e \in PolicyType /\ Covers(p, e)
      BY PolicyWords DEF Verbs, Kinds, Scopes, Covers, Policy
    <2> HIDE DEF p, e
    <2>2. HandlerSound(<<Check({422}), AuthStage(p),
             CallStage(e, {500}), AnswerStage({200, 500})>>, DocListStorageClasses)
      BY <2>1, CheckAuthCall DEF DocListStorageClasses
    <2> QED
      BY <2>2, Bodies DEF p, e, GetStorageClassesHandler, RequireAuth, Call,
         Answer, AuthStage, CallStage, AnswerStage
  <1>11. HandlerSound(GetStorageClassesHandler(FALSE), DocListStorageClasses)
    <2> DEFINE p == Policy("list", "storageclasses", "all")
    <2>1. p \in PolicyType /\ Covers(p, p)
      BY CoversItself, PolicyWords DEF Verbs, Kinds, Scopes
    <2> HIDE DEF p
    <2>2. HandlerSound(<<Check({422}), AuthStage(p),
             CallStage(p, {500}), AnswerStage({200, 500})>>, DocListStorageClasses)
      BY <2>1, CheckAuthCall DEF DocListStorageClasses
    <2> QED
      BY <2>2, Bodies DEF p, GetStorageClassesHandler, RequireAuth, Call,
         Answer, AuthStage, CallStage, AnswerStage
  <1>12. HandlerSound(GetWorkspaceHandler, DocGetWorkspace)
    <2> DEFINE p == Policy("get", "workspaces", "object")
    <2>1. p \in PolicyType /\ Covers(p, p)
      BY CoversItself, PolicyWords DEF Verbs, Kinds, Scopes
    <2> HIDE DEF p
    <2>2. HandlerSound(<<Check({422}), AuthStage(p),
             CallStage(p, {404, 500}), AnswerStage({200, 500})>>, DocGetWorkspace)
      BY <2>1, CheckAuthCall DEF DocGetWorkspace
    <2> QED
      BY <2>2, Bodies DEF p, GetWorkspaceHandler, RequireAuth, Call,
         Answer, AuthStage, CallStage, AnswerStage
  <1>13. HandlerSound(GetAllWorkspacesHandler, DocListAllWorkspaces)
    <2> DEFINE p == Policy("list", "workspaces", "all")
    <2>1. p \in PolicyType /\ Covers(p, p)
      BY CoversItself, PolicyWords DEF Verbs, Kinds, Scopes
    <2> HIDE DEF p
    <2>2. HandlerSound(<<AuthStage(p), CallStage(p, {500}), AnswerStage({200, 500})>>, DocListAllWorkspaces)
      BY <2>1, AuthCall DEF DocListAllWorkspaces
    <2> QED
      BY <2>2 DEF p, GetAllWorkspacesHandler, RequireAuth, Call,
         Answer, AuthStage, CallStage, AnswerStage
  <1>14. HandlerSound(GetWorkspacesByNamespaceHandler, DocListWorkspacesByNamespace)
    <2> DEFINE p == Policy("list", "workspaces", "namespace")
    <2>1. p \in PolicyType /\ Covers(p, p)
      BY CoversItself, PolicyWords DEF Verbs, Kinds, Scopes
    <2> HIDE DEF p
    <2>2. HandlerSound(<<Check({422}), AuthStage(p),
             CallStage(p, {500}), AnswerStage({200, 500})>>, DocListWorkspacesByNamespace)
      BY <2>1, CheckAuthCall DEF DocListWorkspacesByNamespace
    <2> QED
      BY <2>2, Bodies DEF p, GetWorkspacesByNamespaceHandler, RequireAuth, Call,
         Answer, AuthStage, CallStage, AnswerStage
  <1>15. HandlerSound(CreateWorkspaceHandler, DocCreateWorkspace)
    <2> DEFINE p == Policy("create", "workspaces", "object")
    <2>1. p \in PolicyType /\ Covers(p, p)
      BY CoversItself, PolicyWords DEF Verbs, Kinds, Scopes
    <2> HIDE DEF p
    <2>2. HandlerSound(<<Check({422}), Check({400, 413, 415, 422}), AuthStage(p),
             CallStage(p, {403, 422, 409, 500}), AnswerStage({201, 500})>>, DocCreateWorkspace)
      BY <2>1, BodyAuthCall DEF DocCreateWorkspace
    <2> QED
      BY <2>2, Bodies DEF p, CreateWorkspaceHandler, RequireAuth, Call,
         Answer, AuthStage, CallStage, AnswerStage
  <1>16. HandlerSound(UpdateWorkspaceHandler, DocUpdateWorkspace)
    <2> DEFINE p == Policy("update", "workspaces", "object")
    <2>1. p \in PolicyType /\ Covers(p, p)
      BY CoversItself, PolicyWords DEF Verbs, Kinds, Scopes
    <2> HIDE DEF p
    <2>2. HandlerSound(<<Check({422}), AuthStage(p), Check({400, 413, 415, 422}),
             CallStage(p, {403, 404, 422, 409, 500}), AnswerStage({200, 500})>>, DocUpdateWorkspace)
      BY <2>1, AuthBodyCall DEF DocUpdateWorkspace
    <2> QED
      BY <2>2, Bodies DEF p, UpdateWorkspaceHandler, RequireAuth, Call,
         Answer, AuthStage, CallStage, AnswerStage
  <1>17. HandlerSound(DeleteWorkspaceHandler, DocDeleteWorkspace)
    <2> DEFINE p == Policy("delete", "workspaces", "object")
    <2>1. p \in PolicyType /\ Covers(p, p)
      BY CoversItself, PolicyWords DEF Verbs, Kinds, Scopes
    <2> HIDE DEF p
    <2>2. HandlerSound(<<Check({422}), AuthStage(p),
             CallStage(p, {404, 409, 500}), AnswerStage({204})>>, DocDeleteWorkspace)
      BY <2>1, CheckAuthCall DEF DocDeleteWorkspace
    <2> QED
      BY <2>2, Bodies DEF p, DeleteWorkspaceHandler, RequireAuth, Call,
         DeletedResponse, AuthStage, CallStage, AnswerStage
  <1>18. HandlerSound(PauseActionWorkspaceHandler, DocUpdateWorkspacePauseState)
    <2> DEFINE p == Policy("update", "workspaces", "object")
    <2> DEFINE e == Policy("patch", "workspaces", "object")
    <2>1. p \in PolicyType /\ e \in PolicyType /\ Covers(p, e)
      BY PolicyWords DEF Verbs, Kinds, Scopes, Covers, Policy
    <2> HIDE DEF p, e
    <2>2. HandlerSound(<<Check({422}), Check({400, 413, 415, 422}), AuthStage(p),
             CallStage(e, {404, 409, 500}), AnswerStage({200, 500})>>, DocUpdateWorkspacePauseState)
      BY <2>1, BodyAuthCall DEF DocUpdateWorkspacePauseState
    <2> QED
      BY <2>2, Bodies DEF p, e, PauseActionWorkspaceHandler, RequireAuth, Call,
         Answer, AuthStage, CallStage, AnswerStage
  <1>19. HandlerSound(GetWorkspacePodTemplateDetailsHandler, DocGetWorkspacePodTemplateDetails)
    <2> DEFINE p == Policy("get", "workspaces", "object")
    <2>1. p \in PolicyType /\ Covers(p, p)
      BY CoversItself, PolicyWords DEF Verbs, Kinds, Scopes
    <2> HIDE DEF p
    <2>2. HandlerSound(<<Check({422}), AuthStage(p),
             CallStage(p, {404, 500}), AnswerStage({200, 500})>>, DocGetWorkspacePodTemplateDetails)
      BY <2>1, CheckAuthCall DEF DocGetWorkspacePodTemplateDetails
    <2> QED
      BY <2>2, Bodies DEF p, GetWorkspacePodTemplateDetailsHandler, RequireAuth, Call,
         Answer, AuthStage, CallStage, AnswerStage
  <1>20. HandlerSound(GetWorkspacePodTemplateLogsHandler, DocGetWorkspacePodTemplateLogsBatch)
    <2> DEFINE p == Policy("get", "workspaces", "object")
    <2> DEFINE e == Policy("get", "pods", "object")
    <2>1. p \in PolicyType /\ e \in PolicyType /\ Covers(p, e)
      BY PolicyWords DEF Verbs, Kinds, Scopes, Covers, Policy
    <2> HIDE DEF p, e
    <2>2. HandlerSound(<<Check({422}), AuthStage(p),
             CallStage(e, {404, 400, 500}), AnswerStage({200})>>, DocGetWorkspacePodTemplateLogsBatch)
      BY <2>1, CheckAuthCall DEF DocGetWorkspacePodTemplateLogsBatch
    <2> QED
      BY <2>2, Bodies DEF p, e, GetWorkspacePodTemplateLogsHandler, RequireAuth, Call,
         AuthStage, CallStage, AnswerStage
  <1>21. HandlerSound(GetWorkspacePodTemplateResourcesHandler, DocGetWorkspacePodTemplateResources)
    <2> DEFINE p == Policy("get", "workspaces", "object")
    <2> DEFINE e == Policy("get", "pods", "object")
    <2>1. p \in PolicyType /\ e \in PolicyType /\ Covers(p, e)
      BY PolicyWords DEF Verbs, Kinds, Scopes, Covers, Policy
    <2> HIDE DEF p, e
    <2>2. HandlerSound(<<Check({422}), AuthStage(p),
             CallStage(e, {404, 400, 500}), AnswerStage({200, 500})>>, DocGetWorkspacePodTemplateResources)
      BY <2>1, CheckAuthCall DEF DocGetWorkspacePodTemplateResources
    <2> QED
      BY <2>2, Bodies DEF p, e, GetWorkspacePodTemplateResourcesHandler, RequireAuth, Call,
         Answer, AuthStage, CallStage, AnswerStage
  <1>22. HandlerSound(GetWorkspaceKindHandler, DocGetWorkspaceKind)
    <2> DEFINE p == Policy("get", "workspacekinds", "object")
    <2>1. p \in PolicyType /\ Covers(p, p)
      BY CoversItself, PolicyWords DEF Verbs, Kinds, Scopes
    <2> HIDE DEF p
    <2>2. HandlerSound(<<Check({422}), AuthStage(p),
             CallStage(p, {404, 500}), AnswerStage({200, 500})>>, DocGetWorkspaceKind)
      BY <2>1, CheckAuthCall DEF DocGetWorkspaceKind
    <2> QED
      BY <2>2, Bodies DEF p, GetWorkspaceKindHandler, RequireAuth, Call,
         Answer, AuthStage, CallStage, AnswerStage
  <1>23. HandlerSound(GetWorkspaceKindsHandler(TRUE), DocListWorkspaceKinds)
    <2> DEFINE p == Policy("create", "workspaces", "namespace")
    <2> DEFINE e == Policy("list", "workspacekinds", "all")
    <2>1. p \in PolicyType /\ e \in PolicyType /\ Covers(p, e)
      BY PolicyWords DEF Verbs, Kinds, Scopes, Covers, Policy
    <2> HIDE DEF p, e
    <2>2. HandlerSound(<<Check({422}), AuthStage(p),
             CallStage(e, {422, 500}), AnswerStage({200, 500})>>, DocListWorkspaceKinds)
      BY <2>1, CheckAuthCall DEF DocListWorkspaceKinds
    <2> QED
      BY <2>2, Bodies DEF p, e, GetWorkspaceKindsHandler, RequireAuth, Call,
         Answer, AuthStage, CallStage, AnswerStage
  <1>24. HandlerSound(GetWorkspaceKindsHandler(FALSE), DocListWorkspaceKinds)
    <2> DEFINE p == Policy("list", "workspacekinds", "all")
    <2>1. p \in PolicyType /\ Covers(p, p)
      BY CoversItself, PolicyWords DEF Verbs, Kinds, Scopes
    <2> HIDE DEF p
    <2>2. HandlerSound(<<Check({422}), AuthStage(p),
             CallStage(p, {422, 500}), AnswerStage({200, 500})>>, DocListWorkspaceKinds)
      BY <2>1, CheckAuthCall DEF DocListWorkspaceKinds
    <2> QED
      BY <2>2, Bodies DEF p, GetWorkspaceKindsHandler, RequireAuth, Call,
         Answer, AuthStage, CallStage, AnswerStage
  <1>25. HandlerSound(CreateWorkspaceKindHandler, DocCreateWorkspaceKind)
    <2> DEFINE p == Policy("create", "workspacekinds", "object")
    <2>1. p \in PolicyType /\ Covers(p, p)
      BY CoversItself, PolicyWords DEF Verbs, Kinds, Scopes
    <2> HIDE DEF p
    <2>2. HandlerSound(<<Check({400, 413, 415, 422, 500}), AuthStage(p),
             CallStage(p, {409, 422, 500}), AnswerStage({201, 500})>>, DocCreateWorkspaceKind)
      BY <2>1, CheckAuthCall DEF DocCreateWorkspaceKind
    <2> QED
      BY <2>2 DEF p, CreateWorkspaceKindHandler, ValidateContentType, RequireAuth, Call,
         Answer, AuthStage, CallStage, AnswerStage
  <1>26. HandlerSound(UpdateWorkspaceKindHandler, DocUpdateWorkspaceKind)
    <2> DEFINE p == Policy("update", "workspacekinds", "object")
    <2>1. p \in PolicyType /\ Covers(p, p)
      BY CoversItself, PolicyWords DEF Verbs, Kinds, Scopes
    <2> HIDE DEF p
    <2>2. HandlerSound(<<Check({422}), AuthStage(p), Check({400, 413, 415, 422}),
             CallStage(p, {404, 422, 409, 500}), AnswerStage({200, 500})>>, DocUpdateWorkspaceKind)
      BY <2>1, AuthBodyCall DEF DocUpdateWorkspaceKind
    <2> QED
      BY <2>2, Bodies DEF p, UpdateWorkspaceKindHandler, RequireAuth, Call,
         Answer, AuthStage, CallStage, AnswerStage
  <1>27. HandlerSound(DeleteWorkspaceKindHandler, DocDeleteWorkspaceKind)
    <2> DEFINE p == Policy("delete", "workspacekinds", "object")
    <2>1. p \in PolicyType /\ Covers(p, p)
      BY CoversItself, PolicyWords DEF Verbs, Kinds, Scopes
    <2> HIDE DEF p
    <2>2. HandlerSound(<<Check({422}), AuthStage(p),
             CallStage(p, {404, 409, 500}), AnswerStage({204})>>, DocDeleteWorkspaceKind)
      BY <2>1, CheckAuthCall DEF DocDeleteWorkspaceKind
    <2> QED
      BY <2>2, Bodies DEF p, DeleteWorkspaceKindHandler, RequireAuth, Call,
         DeletedResponse, AuthStage, CallStage, AnswerStage
  <1>28. HandlerSound(PodTemplateOptionsListValuesHandler(TRUE), DocPodTemplateOptionsListValues)
    <2> DEFINE p == Policy("create", "workspaces", "namespace")
    <2> DEFINE e == Policy("get", "workspacekinds", "object")
    <2>1. p \in PolicyType /\ e \in PolicyType /\ Covers(p, e)
      BY PolicyWords DEF Verbs, Kinds, Scopes, Covers, Policy
    <2> HIDE DEF p, e
    <2>2. HandlerSound(<<Check({422}), Check({400, 413, 415, 422}), AuthStage(p),
             CallStage(e, {404, 422, 500}), AnswerStage({200, 500})>>, DocPodTemplateOptionsListValues)
      BY <2>1, BodyAuthCall DEF DocPodTemplateOptionsListValues
    <2> QED
      BY <2>2, Bodies DEF p, e, PodTemplateOptionsListValuesHandler, RequireAuth, Call,
         Answer, AuthStage, CallStage, AnswerStage
  <1>29. HandlerSound(PodTemplateOptionsListValuesHandler(FALSE), DocPodTemplateOptionsListValues)
    <2> DEFINE p == Policy("get", "workspacekinds", "object")
    <2>1. p \in PolicyType /\ Covers(p, p)
      BY CoversItself, PolicyWords DEF Verbs, Kinds, Scopes
    <2> HIDE DEF p
    <2>2. HandlerSound(<<Check({422}), Check({400, 413, 415, 422}), AuthStage(p),
             CallStage(p, {404, 422, 500}), AnswerStage({200, 500})>>, DocPodTemplateOptionsListValues)
      BY <2>1, BodyAuthCall DEF DocPodTemplateOptionsListValues
    <2> QED
      BY <2>2, Bodies DEF p, PodTemplateOptionsListValuesHandler, RequireAuth, Call,
         Answer, AuthStage, CallStage, AnswerStage
  <1>30. HandlerSound(GetWorkspaceKindAssetHandler(TRUE), DocGetWorkspaceKindIcon)
    <2> DEFINE p == Policy("list", "workspaces", "namespace")
    <2> DEFINE e == Policy("get", "workspacekinds", "object")
    <2>1. p \in PolicyType /\ e \in PolicyType /\ Covers(p, e)
      BY PolicyWords DEF Verbs, Kinds, Scopes, Covers, Policy
    <2> HIDE DEF p, e
    <2>2. HandlerSound(<<Check({422}), AuthStage(p),
             CallStage(e, {404, 500}), AnswerStage({200, 500})>>, DocGetWorkspaceKindIcon)
      BY <2>1, CheckAuthCall DEF DocGetWorkspaceKindIcon
    <2> QED
      BY <2>2, Bodies DEF p, e, GetWorkspaceKindAssetHandler, RequireAuth, Call,
         Answer, AuthStage, CallStage, AnswerStage
  <1>31. HandlerSound(GetWorkspaceKindAssetHandler(FALSE), DocGetWorkspaceKindIcon)
    <2> DEFINE p == Policy("get", "workspacekinds", "object")
    <2>1. p \in PolicyType /\ Covers(p, p)
      BY CoversItself, PolicyWords DEF Verbs, Kinds, Scopes
    <2> HIDE DEF p
    <2>2. HandlerSound(<<Check({422}), AuthStage(p),
             CallStage(p, {404, 500}), AnswerStage({200, 500})>>, DocGetWorkspaceKindIcon)
      BY <2>1, CheckAuthCall DEF DocGetWorkspaceKindIcon
    <2> QED
      BY <2>2, Bodies DEF p, GetWorkspaceKindAssetHandler, RequireAuth, Call,
         Answer, AuthStage, CallStage, AnswerStage
  <1>32. HandlerSound(GetHealthcheckHandler, DocGetHealthcheck)
    BY CheckOnly DEF GetHealthcheckHandler, DocGetHealthcheck, Answer, AnswerStage
  <1>33. DocGetWorkspaceKindLogo = DocGetWorkspaceKindIcon
    BY DEF DocGetWorkspaceKindLogo, DocGetWorkspaceKindIcon
  <1>34. op \in {"listNamespaces", "listPVCs", "createPVC",
         "deletePVC", "listSecrets", "getSecret",
         "createSecret", "updateSecret", "deleteSecret",
         "listStorageClasses", "getWorkspace", "listAllWorkspaces",
         "listWorkspacesByNamespace", "createWorkspace", "updateWorkspace",
         "deleteWorkspace", "updateWorkspacePauseState", "getWorkspacePodTemplateDetails",
         "getWorkspacePodTemplateLogsBatch", "getWorkspacePodTemplateResources", "getWorkspaceKind",
         "listWorkspaceKinds", "createWorkspaceKind", "updateWorkspaceKind",
         "deleteWorkspaceKind", "podTemplateOptionsListValues", "getWorkspaceKindIcon",
         "getHealthcheck", "getWorkspaceKindLogo"}
    BY DEF Operations, Routes
  <1>35. CASE op = "listNamespaces"
    BY <1>35, <1>1 DEF Routes, Documented
  <1>36. CASE op = "listPVCs"
    BY <1>36, <1>2 DEF Routes, Documented
  <1>37. CASE op = "createPVC"
    BY <1>37, <1>3 DEF Routes, Documented
  <1>38. CASE op = "deletePVC"
    BY <1>38, <1>4 DEF Routes, Documented
  <1>39. CASE op = "listSecrets"
    BY <1>39, <1>5 DEF Routes, Documented
  <1>40. CASE op = "getSecret"
    BY <1>40, <1>6 DEF Routes, Documented
  <1>41. CASE op = "createSecret"
    BY <1>41, <1>7 DEF Routes, Documented
  <1>42. CASE op = "updateSecret"
    BY <1>42, <1>8 DEF Routes, Documented
  <1>43. CASE op = "deleteSecret"
    BY <1>43, <1>9 DEF Routes, Documented
  <1>44. CASE op = "listStorageClasses"
    BY <1>44, <1>10, <1>11 DEF Routes, Documented
  <1>45. CASE op = "getWorkspace"
    BY <1>45, <1>12 DEF Routes, Documented
  <1>46. CASE op = "listAllWorkspaces"
    BY <1>46, <1>13 DEF Routes, Documented
  <1>47. CASE op = "listWorkspacesByNamespace"
    BY <1>47, <1>14 DEF Routes, Documented
  <1>48. CASE op = "createWorkspace"
    BY <1>48, <1>15 DEF Routes, Documented
  <1>49. CASE op = "updateWorkspace"
    BY <1>49, <1>16 DEF Routes, Documented
  <1>50. CASE op = "deleteWorkspace"
    BY <1>50, <1>17 DEF Routes, Documented
  <1>51. CASE op = "updateWorkspacePauseState"
    BY <1>51, <1>18 DEF Routes, Documented
  <1>52. CASE op = "getWorkspacePodTemplateDetails"
    BY <1>52, <1>19 DEF Routes, Documented
  <1>53. CASE op = "getWorkspacePodTemplateLogsBatch"
    BY <1>53, <1>20 DEF Routes, Documented
  <1>54. CASE op = "getWorkspacePodTemplateResources"
    BY <1>54, <1>21 DEF Routes, Documented
  <1>55. CASE op = "getWorkspaceKind"
    BY <1>55, <1>22 DEF Routes, Documented
  <1>56. CASE op = "listWorkspaceKinds"
    BY <1>56, <1>23, <1>24 DEF Routes, Documented
  <1>57. CASE op = "createWorkspaceKind"
    BY <1>57, <1>25 DEF Routes, Documented
  <1>58. CASE op = "updateWorkspaceKind"
    BY <1>58, <1>26 DEF Routes, Documented
  <1>59. CASE op = "deleteWorkspaceKind"
    BY <1>59, <1>27 DEF Routes, Documented
  <1>60. CASE op = "podTemplateOptionsListValues"
    BY <1>60, <1>28, <1>29 DEF Routes, Documented
  <1>61. CASE op = "getWorkspaceKindIcon"
    BY <1>61, <1>30, <1>31 DEF Routes, Documented
  <1>62. CASE op = "getHealthcheck"
    BY <1>62, <1>32 DEF Routes, Documented
  <1>63. CASE op = "getWorkspaceKindLogo"
    BY <1>63, <1>30, <1>31, <1>33 DEF Routes, Documented
  <1> QED
    BY <1>34, <1>35, <1>36, <1>37, <1>38, <1>39, <1>40, <1>41, <1>42, <1>43,
       <1>44, <1>45, <1>46, <1>47, <1>48, <1>49, <1>50, <1>51, <1>52, <1>53,
       <1>54, <1>55, <1>56, <1>57, <1>58, <1>59, <1>60, <1>61, <1>62, <1>63

-----------------------------------------------------------------------------
(***************************************************************************)
(* The inductive invariant.                                                *)
(***************************************************************************)

\* PolicyOf() is what PipelinesOf sorts by: a request of the focus goes through a handler
\* that is sound for it.
LEMMA PipelinesSound ==
    ASSUME NEW f \in Policies, NEW p \in PipelinesOf[f]
    PROVE  /\ p.op \in Operations
           /\ p.stages \in Seq(StageType) /\ p.stages # <<>>
           /\ 500 \in Documented[p.op]
           /\ StagesSound(p.stages, f, Documented[p.op])
  <1>1. p \in Pipelines /\ PolicyOf(p.stages) = f
    BY DEF PipelinesOf
  <1>2. PICK op \in Operations : \E h \in Routes[op] : p = [op |-> op, stages |-> h]
    BY <1>1 DEF Pipelines
  <1>3. PICK h \in Routes[op] : p = [op |-> op, stages |-> h]
    BY <1>2
  <1>4. p.op = op /\ p.stages = h
    BY <1>3
  <1> QED
    BY <1>1, <1>4, RoutesSound DEF HandlerSound

RequestType == [op : Operations \cup {"none"}, todo : Seq(StageType), verdict : Verdicts,
                age : 0..Latency, mayPass : BOOLEAN, mayFail : BOOLEAN, status : Nat,
                by : Doings \cup {"none"}]

\* What a handler has yet to do is sound for p, given that it passed requireAuth() or not.
AheadSound(todo, p, doc, passed) ==
    \A i \in 1..Len(todo) :
      /\ todo[i].fails \subseteq doc
      /\ todo[i].does = "authorize" => todo[i].fails = {401, 403, 500}
      /\ todo[i].does = "call" => /\ Covers(p, todo[i].policy)
                                  /\ passed \/ \E j \in 1..i - 1 : todo[j].does = "authorize"

\* A request q for the permission p, last held and last not held as s says.  The verdict of
\* its review was true no longer ago than the review was asked for; and what it may not have
\* seen, neither has anybody since long before it came.
RequestFits(q, p, s) ==
    /\ q.verdict # "none" => q.todo # <<>>
    /\ q.verdict = "allow" => s.held <= q.age
    /\ q.verdict = "deny" => s.denied <= q.age
    /\ q.todo # <<>> =>
         /\ q.op \in Operations /\ q.status = 0 /\ 500 \in Documented[q.op]
         /\ ~q.mayPass => s.held = Stale
         /\ ~q.mayFail => s.denied = Stale
         /\ AheadSound(q.todo, p, Documented[q.op], q.mayPass)
    /\ q.status # 0 => q.status \in Documented[q.op]
    /\ q.by = "authorize" /\ q.status = 403 => q.mayFail

\* The clock and the cache: what the cache says was true no longer ago than its entry is old,
\* and the review before that.
ClockFits ==
    /\ IF held THEN since.held = 0 ELSE since.denied = 0
    /\ cache.verdict = "allow" => since.held <= cache.age + Latency
    /\ cache.verdict = "deny" => since.denied <= cache.age + Latency

StateType ==
    /\ focus \in Policies
    /\ held \in BOOLEAN
    /\ since \in [held : 0..Stale, denied : 0..Stale]
    /\ cache \in [verdict : Verdicts, age : 0..TTL]
    /\ req \in [Requests -> RequestType]

RequestsInv == StateType /\ ClockFits /\ \A r \in Requests : RequestFits(req[r], focus, since)

LEMMA RequestsInit == Init => RequestsInv
  <1> SUFFICES ASSUME Init PROVE RequestsInv
    OBVIOUS
  <1> USE TimesAssumption DEF Init
  <1>1. Stale \in Nat /\ Stale > Latency
    BY DEF Stale
  <1>2. NoRequest \in RequestType
    BY DEF NoRequest, RequestType, Verdicts
  <1>3. StateType
    BY <1>1, <1>2 DEF StateType, Verdicts
  <1>4. ClockFits
    BY DEF ClockFits
  <1>5. RequestFits(NoRequest, focus, since)
    BY DEF RequestFits, NoRequest
  <1> QED
    BY <1>3, <1>4, <1>5 DEF RequestsInv

\* The record of a request that passes a stage, and of one that is answered.
LEMMA PassedRecord ==
    ASSUME NEW q \in RequestType, NEW m \in Seq(StageType)
    PROVE  [q EXCEPT !.todo = m, !.verdict = "none", !.age = 0] \in RequestType
  <1>1. "none" \in Verdicts /\ 0 \in 0..Latency
    BY TimesAssumption DEF Verdicts
  <1> QED
    BY <1>1 DEF RequestType

LEMMA AnsweredRecord ==
    ASSUME NEW q \in RequestType, NEW st \in Nat, NEW b \in Doings \cup {"none"}
    PROVE  [NoRequest EXCEPT !.op = q.op, !.mayFail = q.mayFail, !.status = st, !.by = b]
             \in RequestType
  <1>1. "none" \in Verdicts /\ 0 \in 0..Latency /\ <<>> \in Seq(StageType) /\ FALSE \in BOOLEAN
    BY TimesAssumption DEF Verdicts
  <1>2. q.op \in Operations \cup {"none"} /\ q.mayFail \in BOOLEAN
    BY DEF RequestType
  <1> QED
    BY <1>1, <1>2 DEF RequestType, NoRequest

LEMMA ArrivedRecord ==
    ASSUME NEW o \in Operations, NEW t \in Seq(StageType), NEW mp \in BOOLEAN, NEW mf \in BOOLEAN
    PROVE  [NoRequest EXCEPT !.op = o, !.todo = t, !.mayPass = mp, !.mayFail = mf] \in RequestType
  <1>1. "none" \in Verdicts /\ 0 \in 0..Latency
    BY TimesAssumption DEF Verdicts
  <1> QED
    BY <1>1 DEF RequestType, NoRequest

\* A request that passes a stage fits, if only those that may pass requireAuth() do.
LEMMA PassedFits ==
    ASSUME NEW q \in RequestType, NEW p, NEW s, RequestFits(q, p, s), q.todo # <<>>,
           Head(q.todo).does = "authorize" => q.mayPass
    PROVE  LET n == [q EXCEPT !.todo = Tail(q.todo), !.verdict = "none", !.age = 0]
           IN  n \in RequestType /\ RequestFits(n, p, s)
  <1> DEFINE n == [q EXCEPT !.todo = Tail(q.todo), !.verdict = "none", !.age = 0]
             t == q.todo
             m == Tail(t)
  <1>1. /\ n.todo = m /\ n.verdict = "none" /\ n.op = q.op /\ n.age = 0 /\ n.status = q.status
        /\ n.by = q.by /\ n.mayPass = q.mayPass /\ n.mayFail = q.mayFail
    BY DEF RequestType
  <1>2. t \in Seq(StageType) /\ t # <<>>
    BY DEF RequestType
  <1>3. m \in Seq(StageType) /\ Len(m) = Len(t) - 1 /\ \A i \in 1..Len(m) : m[i] = t[i + 1]
    BY <1>2
  <1>4. n \in RequestType
    BY <1>3, PassedRecord
  <1>5. AheadSound(t, p, Documented[q.op], q.mayPass)
    BY DEF RequestFits
  <1>6. AheadSound(m, p, Documented[q.op], q.mayPass)
    <2> SUFFICES ASSUME NEW i \in 1..Len(m)
                 PROVE  /\ m[i].fails \subseteq Documented[q.op]
                        /\ m[i].does = "authorize" => m[i].fails = {401, 403, 500}
                        /\ m[i].does = "call" =>
                             /\ Covers(p, m[i].policy)
                             /\ q.mayPass \/ \E j \in 1..i - 1 : m[j].does = "authorize"
      BY DEF AheadSound
    <2>1. i + 1 \in 1..Len(t) /\ m[i] = t[i + 1] /\ t[1] = Head(t)
      BY <1>2, <1>3
    <2>2. /\ m[i].fails \subseteq Documented[q.op]
          /\ m[i].does = "authorize" => m[i].fails = {401, 403, 500}
      BY <1>5, <2>1 DEF AheadSound
    <2>3. ASSUME m[i].does = "call", ~q.mayPass
          PROVE  \E j \in 1..i - 1 : m[j].does = "authorize"
      <3>1. PICK j \in 1..i : t[j].does = "authorize"
        BY <1>5, <2>1, <2>3 DEF AheadSound
      <3>2. j # 1
        BY <2>1, <2>3, <3>1
      <3>3. j - 1 \in 1..i - 1 /\ m[j - 1] = t[j]
        BY <1>3, <3>1, <3>2
      <3> QED
        BY <3>1, <3>3
    <2>4. m[i].does = "call" => Covers(p, m[i].policy)
      BY <1>5, <2>1 DEF AheadSound
    <2> QED
      BY <2>2, <2>3, <2>4
  <1> HIDE DEF n, m
  <1>7. RequestFits(n, p, s)
    BY <1>1, <1>6 DEF RequestFits
  <1> QED
    BY <1>4, <1>7 DEF n

\* A request that is answered fits, if the status is documented and a refusal justified.
LEMMA AnsweredFits ==
    ASSUME NEW q \in RequestType, NEW p, NEW s, RequestFits(q, p, s), q.todo # <<>>,
           NEW status \in Nat, status \in Documented[q.op],
           Head(q.todo).does = "authorize" /\ status = 403 => q.mayFail
    PROVE  LET n == [NoRequest EXCEPT !.op = q.op, !.mayFail = q.mayFail,
                                      !.status = status, !.by = Head(q.todo).does]
           IN  n \in RequestType /\ RequestFits(n, p, s)
  <1> DEFINE n == [NoRequest EXCEPT !.op = q.op, !.mayFail = q.mayFail,
                                    !.status = status, !.by = Head(q.todo).does]
  <1>1. /\ n.todo = <<>> /\ n.verdict = "none" /\ n.op = q.op /\ n.age = 0 /\ n.status = status
        /\ n.by = Head(q.todo).does /\ n.mayPass = FALSE /\ n.mayFail = q.mayFail
    BY DEF NoRequest
  <1>2. Head(q.todo) \in StageType
    BY DEF RequestType
  <1>3. n \in RequestType
    BY <1>2, AnsweredRecord DEF StageType
  <1> HIDE DEF n
  <1>4. RequestFits(n, p, s)
    BY <1>1 DEF RequestFits
  <1> QED
    BY <1>3, <1>4 DEF n

-----------------------------------------------------------------------------
(***************************************************************************)
(* The steps of a request.  They leave the permission, the clock and the   *)
(* other requests alone.                                                   *)
(***************************************************************************)

\* A step of one request, that may leave its verdict in the cache: if its record still fits,
\* everything does.
LEMMA OneRequestCached ==
    ASSUME RequestsInv, NEW r \in Requests, NEW q \in RequestType,
           RequestFits(q, focus, since), req' = [req EXCEPT ![r] = q],
           UNCHANGED <<focus, held, since>>,
           cache' \in [verdict : Verdicts, age : 0..TTL], ClockFits'
    PROVE  RequestsInv'
  <1>1. StateType'
    BY DEF RequestsInv, StateType
  <1>2. \A x \in Requests : RequestFits(req'[x], focus, since)
    BY DEF RequestsInv, StateType
  <1>3. \A x \in Requests : RequestFits(req[x], focus, since)'
    BY <1>2 DEF RequestFits
  <1> QED
    BY <1>1, <1>3 DEF RequestsInv

LEMMA OneRequest ==
    ASSUME RequestsInv, NEW r \in Requests, NEW q \in RequestType,
           RequestFits(q, focus, since), req' = [req EXCEPT ![r] = q],
           UNCHANGED <<focus, held, since, cache>>
    PROVE  RequestsInv'
  <1>1. cache' \in [verdict : Verdicts, age : 0..TTL] /\ ClockFits'
    BY DEF RequestsInv, StateType, ClockFits
  <1> QED
    BY <1>1, OneRequestCached

LEMMA ArriveFits ==
    ASSUME RequestsInv, NEW r \in Requests, Arrive(r)
    PROVE  RequestsInv'
  <1>1. PICK p \in PipelinesOf[focus] :
          req' = [req EXCEPT ![r] = [NoRequest EXCEPT
                   !.op = p.op, !.todo = p.stages,
                   !.mayPass = (since.held < Stale), !.mayFail = (since.denied < Stale)]]
    BY DEF Arrive
  <1> DEFINE q == [NoRequest EXCEPT !.op = p.op, !.todo = p.stages,
                     !.mayPass = (since.held < Stale), !.mayFail = (since.denied < Stale)]
  <1>2. /\ p.op \in Operations /\ p.stages \in Seq(StageType) /\ p.stages # <<>>
        /\ 500 \in Documented[p.op] /\ StagesSound(p.stages, focus, Documented[p.op])
    BY PipelinesSound DEF RequestsInv, StateType
  <1>3. /\ q.op = p.op /\ q.todo = p.stages /\ q.verdict = "none" /\ q.age = 0 /\ q.status = 0
        /\ q.by = "none" /\ q.mayPass = (since.held < Stale) /\ q.mayFail = (since.denied < Stale)
    BY DEF NoRequest
  <1>4. q \in RequestType
    <2>1. (since.held < Stale) \in BOOLEAN /\ (since.denied < Stale) \in BOOLEAN
      OBVIOUS
    <2> QED
      BY <1>2, <2>1, ArrivedRecord
  <1>5. Stale \in Nat /\ since.held \in 0..Stale /\ since.denied \in 0..Stale
    BY TimesAssumption DEF RequestsInv, StateType, Stale
  <1> HIDE DEF q
  <1>6. AheadSound(q.todo, focus, Documented[q.op], q.mayPass)
    BY <1>2, <1>3 DEF AheadSound, StagesSound
  <1>7. (~q.mayPass => since.held = Stale) /\ (~q.mayFail => since.denied = Stale)
    <2>1. /\ ~(since.held < Stale) => since.held = Stale
          /\ ~(since.denied < Stale) => since.denied = Stale
      BY <1>5
    <2>2. (~q.mayPass => ~(since.held < Stale)) /\ (~q.mayFail => ~(since.denied < Stale))
      BY <1>3, Zenon
    <2> QED
      BY <2>1, <2>2, Zenon
  <1>8. RequestFits(q, focus, since)
    BY <1>2, <1>3, <1>6, <1>7 DEF RequestFits
  <1>9. req' = [req EXCEPT ![r] = q] /\ UNCHANGED <<focus, held, since, cache>>
    BY <1>1 DEF Arrive, q
  <1> QED
    BY <1>4, <1>8, <1>9, OneRequest

\* A request at a stage is one, and its stage is sound.
LEMMA AtStage ==
    ASSUME RequestsInv, NEW r \in Requests, InFlight(r)
    PROVE  /\ req[r] \in RequestType /\ RequestFits(req[r], focus, since) /\ req[r].todo # <<>>
           /\ Now(r) \in StageType /\ Now(r).fails \subseteq Documented[req[r].op]
           /\ Now(r).does = "authorize" => Now(r).fails = {401, 403, 500}
           /\ 500 \in Documented[req[r].op]
  <1>1. req[r] \in RequestType /\ RequestFits(req[r], focus, since) /\ req[r].todo # <<>>
    BY DEF RequestsInv, StateType, InFlight
  <1>2. req[r].todo \in Seq(StageType)
    BY <1>1 DEF RequestType
  <1>3. Now(r) = req[r].todo[1] /\ 1 \in 1..Len(req[r].todo) /\ Now(r) \in StageType
    BY <1>1, <1>2 DEF Now
  <1>4. AheadSound(req[r].todo, focus, Documented[req[r].op], req[r].mayPass)
        /\ 500 \in Documented[req[r].op]
    BY <1>1 DEF RequestFits
  <1> QED
    BY <1>1, <1>3, <1>4 DEF AheadSound

\* Proceed() and Respond(), each under the condition that makes it right.
LEMMA ProceedFits ==
    ASSUME RequestsInv, NEW r \in Requests, InFlight(r), Proceed(r),
           Now(r).does = "authorize" => req[r].mayPass, UNCHANGED <<focus, held, since, cache>>
    PROVE  RequestsInv'
  <1> DEFINE q == [req[r] EXCEPT !.todo = Tail(req[r].todo), !.verdict = "none", !.age = 0]
  <1>1. req[r] \in RequestType /\ RequestFits(req[r], focus, since) /\ req[r].todo # <<>>
    BY AtStage
  <1>2. q \in RequestType /\ RequestFits(q, focus, since)
    BY <1>1, PassedFits DEF Now
  <1>3. req' = [req EXCEPT ![r] = q]
    BY DEF Proceed, RequestsInv, StateType
  <1> QED
    BY <1>2, <1>3, OneRequest

LEMMA RespondFits ==
    ASSUME RequestsInv, NEW r \in Requests, InFlight(r), NEW status \in Nat, Respond(r, status),
           status \in Documented[req[r].op],
           Now(r).does = "authorize" /\ status = 403 => req[r].mayFail,
           UNCHANGED <<focus, held, since, cache>>
    PROVE  RequestsInv'
  <1> DEFINE q == [NoRequest EXCEPT !.op = req[r].op, !.mayFail = req[r].mayFail,
                                    !.status = status, !.by = Head(req[r].todo).does]
  <1>1. req[r] \in RequestType /\ RequestFits(req[r], focus, since) /\ req[r].todo # <<>>
    BY AtStage
  <1>2. q \in RequestType /\ RequestFits(q, focus, since)
    BY <1>1, AnsweredFits DEF Now
  <1>3. req' = [req EXCEPT ![r] = q]
    BY DEF Respond, Now
  <1> QED
    BY <1>2, <1>3, OneRequest

LEMMA PassCheckFits ==
    ASSUME RequestsInv, NEW r \in Requests, PassCheck(r) PROVE RequestsInv'
  BY ProceedFits DEF PassCheck, At

LEMMA FailCheckFits ==
    ASSUME RequestsInv, NEW r \in Requests, FailCheck(r) PROVE RequestsInv'
  <1>1. InFlight(r) /\ Now(r).does = "check" /\ UNCHANGED <<focus, held, since, cache>>
    BY DEF FailCheck, At
  <1>2. PICK status \in Now(r).fails : Respond(r, status)
    BY DEF FailCheck
  <1>3. status \in Nat /\ status \in Documented[req[r].op]
    BY <1>1, AtStage DEF StageType
  <1> QED
    BY <1>1, <1>2, <1>3, RespondFits

LEMMA CallRepositoryFits ==
    ASSUME RequestsInv, NEW r \in Requests, CallRepository(r) PROVE RequestsInv'
  <1>1. InFlight(r) /\ Now(r).does = "call" /\ UNCHANGED <<focus, held, since, cache>>
    BY DEF CallRepository, At
  <1>2. CASE Proceed(r)
    BY <1>1, <1>2, ProceedFits
  <1>3. CASE \E status \in Now(r).fails : Respond(r, status)
    <2>1. PICK status \in Now(r).fails : Respond(r, status)
      BY <1>3
    <2>2. status \in Nat /\ status \in Documented[req[r].op]
      BY <1>1, AtStage DEF StageType
    <2> QED
      BY <1>1, <2>1, <2>2, RespondFits
  <1> QED
    BY <1>2, <1>3 DEF CallRepository

LEMMA WriteAnswerFits ==
    ASSUME RequestsInv, NEW r \in Requests, WriteAnswer(r) PROVE RequestsInv'
  <1>1. InFlight(r) /\ Now(r).does = "answer" /\ UNCHANGED <<focus, held, since, cache>>
    BY DEF WriteAnswer, At
  <1>2. PICK status \in Now(r).fails : Respond(r, status)
    BY DEF WriteAnswer
  <1>3. status \in Nat /\ status \in Documented[req[r].op]
    BY <1>1, AtStage DEF StageType
  <1> QED
    BY <1>1, <1>2, <1>3, RespondFits

LEMMA RecoverPanicFits ==
    ASSUME RequestsInv, NEW r \in Requests, RecoverPanic(r) PROVE RequestsInv'
  <1>1. InFlight(r) /\ Respond(r, 500) /\ UNCHANGED <<focus, held, since, cache>>
    BY DEF RecoverPanic
  <1>2. 500 \in Documented[req[r].op] /\ 500 \in Nat
    BY <1>1, AtStage
  <1> QED
    BY <1>1, <1>2, RespondFits

LEMMA UnauthenticatedFits ==
    ASSUME RequestsInv, NEW r \in Requests, Unauthenticated(r) PROVE RequestsInv'
  <1>1. InFlight(r) /\ Now(r).does = "authorize" /\ UNCHANGED <<focus, held, since, cache>>
    BY DEF Unauthenticated, At
  <1>2. PICK status \in {401, 500} : Respond(r, status)
    BY DEF Unauthenticated
  <1>3. status \in Nat /\ status \in Documented[req[r].op] /\ status # 403
    BY <1>1, AtStage
  <1> QED
    BY <1>1, <1>2, <1>3, RespondFits

LEMMA ReviewFailedFits ==
    ASSUME RequestsInv, NEW r \in Requests, ReviewFailed(r) PROVE RequestsInv'
  <1>1. InFlight(r) /\ Respond(r, 500) /\ UNCHANGED <<focus, held, since, cache>>
    BY DEF ReviewFailed, At
  <1>2. 500 \in Documented[req[r].op] /\ 500 \in Nat
    BY <1>1, AtStage
  <1> QED
    BY <1>1, <1>2, RespondFits

\* A request is decided by a verdict that was true not longer ago than TTL + Latency.
LEMMA DecideFits ==
    ASSUME RequestsInv, NEW r \in Requests, At(r, "authorize"), NEW v \in {"allow", "deny"},
           v = "allow" => since.held < Stale, v = "deny" => since.denied < Stale,
           Decide(r, v), UNCHANGED <<focus, held, since>>,
           cache' \in [verdict : Verdicts, age : 0..TTL], ClockFits'
    PROVE  RequestsInv'
  <1>1. /\ InFlight(r) /\ req[r] \in RequestType /\ RequestFits(req[r], focus, since)
        /\ req[r].todo # <<>> /\ Now(r).fails \subseteq Documented[req[r].op]
        /\ Now(r).does = "authorize" /\ Now(r).fails = {401, 403, 500}
    BY AtStage DEF At
  <1>2. since.held \in Nat /\ since.denied \in Nat /\ Stale \in Nat
    BY TimesAssumption DEF RequestsInv, StateType, Stale
  <1>3. CASE v = "allow"
    <2> DEFINE q == [req[r] EXCEPT !.todo = Tail(req[r].todo), !.verdict = "none", !.age = 0]
    <2>1. since.held # Stale
      BY <1>2, <1>3
    <2>2. req[r].mayPass
      BY <1>1, <2>1 DEF RequestFits
    <2>3. q \in RequestType /\ RequestFits(q, focus, since)
      BY <1>1, <2>2, PassedFits DEF Now
    <2>4. req' = [req EXCEPT ![r] = q]
      BY <1>3 DEF Decide, Proceed, RequestsInv, StateType
    <2> QED
      BY <2>3, <2>4, OneRequestCached
  <1>4. CASE v = "deny"
    <2>0. PICK st \in Nat : st = 403
      OBVIOUS
    <2> DEFINE q == [NoRequest EXCEPT !.op = req[r].op, !.mayFail = req[r].mayFail,
                                      !.status = st, !.by = Head(req[r].todo).does]
    <2>1. since.denied # Stale
      BY <1>2, <1>4
    <2>2. req[r].mayFail
      BY <1>1, <2>1 DEF RequestFits
    <2>3. st \in Documented[req[r].op]
      BY <1>1, <2>0
    <2>4. q \in RequestType /\ RequestFits(q, focus, since)
      BY <1>1, <2>2, <2>3, AnsweredFits DEF Now
    <2>5. req' = [req EXCEPT ![r] = q]
      BY <1>4, <2>0 DEF Decide, Respond, Now
    <2> QED
      BY <2>4, <2>5, OneRequestCached
  <1> QED
    BY <1>3, <1>4

LEMMA UseCachedFits ==
    ASSUME RequestsInv, NEW r \in Requests, UseCached(r) PROVE RequestsInv'
  <1>1. /\ At(r, "authorize") /\ Decide(r, cache.verdict) /\ cache.verdict # "none"
        /\ UNCHANGED <<focus, held, since, cache>>
    BY DEF UseCached
  <1>2. cache.verdict \in {"allow", "deny"} /\ cache.age \in 0..TTL
    BY <1>1 DEF RequestsInv, StateType, Verdicts
  <1>3. /\ cache.verdict = "allow" => since.held < Stale
        /\ cache.verdict = "deny" => since.denied < Stale
    BY <1>2, TimesAssumption DEF RequestsInv, StateType, ClockFits, Stale
  <1>4. cache' \in [verdict : Verdicts, age : 0..TTL] /\ ClockFits'
    BY <1>1 DEF RequestsInv, StateType, ClockFits
  <1> QED
    BY <1>1, <1>2, <1>3, <1>4, DecideFits

LEMMA ReviewAnsweredFits ==
    ASSUME RequestsInv, NEW r \in Requests, ReviewAnswered(r) PROVE RequestsInv'
  <1> DEFINE v == req[r].verdict
  <1>1. /\ At(r, "authorize") /\ Decide(r, v) /\ v # "none"
        /\ cache' = [verdict |-> v, age |-> 0] /\ UNCHANGED <<focus, held, since>>
    BY DEF ReviewAnswered
  <1>2. v \in {"allow", "deny"} /\ req[r].age \in 0..Latency /\ RequestFits(req[r], focus, since)
    BY <1>1 DEF RequestsInv, StateType, Verdicts, RequestType
  <1>3. (v = "allow" => since.held <= Latency) /\ (v = "deny" => since.denied <= Latency)
    BY <1>2, TimesAssumption DEF RequestFits, RequestsInv, StateType, Stale
  <1>4. (v = "allow" => since.held < Stale) /\ (v = "deny" => since.denied < Stale)
    BY <1>3, TimesAssumption DEF RequestsInv, StateType, Stale
  <1>5. cache' \in [verdict : Verdicts, age : 0..TTL]
    BY <1>1, <1>2, TimesAssumption DEF Verdicts
  <1>6. cache'.verdict = v /\ cache'.age = 0 /\ since' = since /\ held' = held
    BY <1>1
  <1>7. ClockFits'
    BY <1>3, <1>6, TimesAssumption DEF ClockFits, RequestsInv
  <1> QED
    BY <1>1, <1>2, <1>4, <1>5, <1>7, DecideFits

LEMMA AskReviewFits ==
    ASSUME RequestsInv, NEW r \in Requests, AskReview(r) PROVE RequestsInv'
  <1> DEFINE v == IF held THEN "allow" ELSE "deny"
             q == [req[r] EXCEPT !.verdict = v]
  <1>1. /\ InFlight(r) /\ UNCHANGED <<focus, held, since, cache>>
        /\ req' = [req EXCEPT ![r] = q]
    BY DEF AskReview, At, RequestsInv, StateType
  <1>2. req[r] \in RequestType /\ RequestFits(req[r], focus, since) /\ req[r].todo # <<>>
    BY <1>1, AtStage
  <1>3. v \in Verdicts
    BY DEF Verdicts
  <1>4. q \in RequestType
    <2> HIDE DEF v
    <2> QED
      BY <1>2, <1>3 DEF RequestType
  <1>5. /\ q.verdict = v /\ q.todo = req[r].todo /\ q.op = req[r].op /\ q.age = req[r].age
        /\ q.status = req[r].status /\ q.by = req[r].by
        /\ q.mayPass = req[r].mayPass /\ q.mayFail = req[r].mayFail
    BY <1>2 DEF RequestType
  <1>6. (v = "allow" => since.held <= req[r].age) /\ (v = "deny" => since.denied <= req[r].age)
    <2>1. req[r].age \in Nat
      BY <1>2, TimesAssumption DEF RequestType
    <2>2. (held => since.held = 0) /\ (~held => since.denied = 0)
      BY DEF RequestsInv, ClockFits
    <2>3. (v = "allow" => held) /\ (v = "deny" => ~held)
      OBVIOUS
    <2> HIDE DEF v
    <2> QED
      BY <2>1, <2>2, <2>3
  <1> HIDE DEF q, v
  <1>7. RequestFits(q, focus, since)
    BY <1>2, <1>5, <1>6 DEF RequestFits
  <1> QED
    BY <1>1, <1>4, <1>7, OneRequest

-----------------------------------------------------------------------------
(***************************************************************************)
(* The administrator and the clock.                                        *)
(***************************************************************************)

\* What RequestFits looks at, for a request that keeps everything but its window.
LEMMA RegrantFits ==
    ASSUME RequestsInv, Regrant PROVE RequestsInv'
  <1>1. /\ focus' = focus /\ cache' = cache /\ held' = ~held
        /\ since' = IF held' THEN [since EXCEPT !.held = 0] ELSE [since EXCEPT !.denied = 0]
        /\ req' = [r \in Requests |->
                     IF ~InFlight(r) THEN req[r]
                     ELSE IF held' THEN [req[r] EXCEPT !.mayPass = TRUE]
                     ELSE [req[r] EXCEPT !.mayFail = TRUE]]
    BY DEF Regrant
  <1>2. /\ since.held \in 0..Stale /\ since.denied \in 0..Stale /\ Stale \in Nat
        /\ cache \in [verdict : Verdicts, age : 0..TTL] /\ focus \in Policies /\ held \in BOOLEAN
        /\ since \in [held : 0..Stale, denied : 0..Stale]
    BY TimesAssumption DEF RequestsInv, StateType, Stale
  <1>3. since' \in [held : 0..Stale, denied : 0..Stale] /\ held' \in BOOLEAN
    BY <1>1, <1>2
  <1>4. /\ held' => since'.held = 0 /\ since'.denied = since.denied
        /\ ~held' => since'.denied = 0 /\ since'.held = since.held
    BY <1>1, <1>2
  <1>5. ClockFits'
    <2>1. cache.age + Latency >= 0
      BY <1>2, TimesAssumption
    <2> QED
      BY <1>1, <1>2, <1>4, <2>1 DEF RequestsInv, ClockFits
  <1>6. ASSUME NEW r \in Requests
        PROVE  req'[r] \in RequestType /\ RequestFits(req'[r], focus, since')
    <2>1. req[r] \in RequestType /\ RequestFits(req[r], focus, since)
      BY DEF RequestsInv, StateType
    <2>2. req[r].age \in Nat /\ req[r].verdict \in Verdicts
      BY <2>1, TimesAssumption DEF RequestType
    <2>3. CASE ~InFlight(r)
      <3>1. req'[r] = req[r] /\ req[r].todo = <<>> /\ req[r].verdict = "none"
        BY <1>1, <2>1, <2>3 DEF InFlight, RequestFits
      <3> QED
        BY <2>1, <3>1 DEF RequestFits
    <2>4. CASE InFlight(r) /\ held'
      <3> DEFINE q == [req[r] EXCEPT !.mayPass = TRUE]
      <3>1. req'[r] = q
        BY <1>1, <2>4
      <3>2. q \in RequestType
        BY <2>1 DEF RequestType
      <3>3. /\ q.verdict = req[r].verdict /\ q.todo = req[r].todo /\ q.op = req[r].op
            /\ q.age = req[r].age /\ q.status = req[r].status /\ q.by = req[r].by
            /\ q.mayPass = TRUE /\ q.mayFail = req[r].mayFail
        BY <2>1 DEF RequestType
      <3> HIDE DEF q
      <3>4. q.todo # <<>> => AheadSound(q.todo, focus, Documented[q.op], q.mayPass)
        BY <2>1, <3>3 DEF RequestFits, AheadSound
      <3>5. since'.held <= q.age /\ since'.denied = since.denied
        BY <1>4, <2>2, <2>4, <3>3
      <3>6. RequestFits(q, focus, since')
        BY <2>1, <3>3, <3>4, <3>5 DEF RequestFits
      <3> QED
        BY <3>1, <3>2, <3>6
    <2>5. CASE InFlight(r) /\ ~held'
      <3> DEFINE q == [req[r] EXCEPT !.mayFail = TRUE]
      <3>1. req'[r] = q
        BY <1>1, <2>5
      <3>2. q \in RequestType
        BY <2>1 DEF RequestType
      <3>3. /\ q.verdict = req[r].verdict /\ q.todo = req[r].todo /\ q.op = req[r].op
            /\ q.age = req[r].age /\ q.status = req[r].status /\ q.by = req[r].by
            /\ q.mayFail = TRUE /\ q.mayPass = req[r].mayPass
        BY <2>1 DEF RequestType
      <3> HIDE DEF q
      <3>4. since'.denied <= q.age /\ since'.held = since.held
        BY <1>4, <2>2, <2>5, <3>3
      <3>5. RequestFits(q, focus, since')
        BY <2>1, <3>3, <3>4 DEF RequestFits
      <3> QED
        BY <3>1, <3>2, <3>5
    <2> QED
      BY <2>3, <2>4, <2>5
  <1>7. req' \in [Requests -> RequestType]
    BY <1>1, <1>6
  <1>8. \A r \in Requests : RequestFits(req[r], focus, since)'
    <2>1. focus' = focus /\ \A r \in Requests : RequestFits(req'[r], focus, since')
      BY <1>1, <1>6
    <2> QED
      BY <2>1 DEF RequestFits
  <1>9. StateType'
    BY <1>1, <1>2, <1>3, <1>7 DEF StateType
  <1> QED
    BY <1>5, <1>8, <1>9 DEF RequestsInv

LEMMA TickFits ==
    ASSUME RequestsInv, Tick PROVE RequestsInv'
  <1> USE TimesAssumption
  <1>1. /\ focus' = focus /\ held' = held
        /\ \A r \in Requests : req[r].verdict # "none" => req[r].age < Latency
        /\ since' = [held   |-> IF held \/ since.held = Stale THEN since.held ELSE since.held + 1,
                     denied |-> IF ~held \/ since.denied = Stale THEN since.denied
                                ELSE since.denied + 1]
        /\ cache' = IF cache.verdict = "none" THEN cache
                    ELSE IF cache.age = TTL THEN [verdict |-> "none", age |-> 0]
                    ELSE [cache EXCEPT !.age = @ + 1]
        /\ req' = [r \in Requests |-> IF req[r].verdict = "none" THEN req[r]
                                      ELSE [req[r] EXCEPT !.age = @ + 1]]
    BY DEF Tick
  <1>2. /\ since.held \in 0..Stale /\ since.denied \in 0..Stale /\ Stale \in Nat
        /\ cache \in [verdict : Verdicts, age : 0..TTL] /\ focus \in Policies /\ held \in BOOLEAN
    BY DEF RequestsInv, StateType, Stale
  <1>3. /\ since'.held = (IF held \/ since.held = Stale THEN since.held ELSE since.held + 1)
        /\ since'.denied = (IF ~held \/ since.denied = Stale THEN since.denied
                            ELSE since.denied + 1)
    BY <1>1
  <1>4. /\ since'.held <= since.held + 1 /\ since'.denied <= since.denied + 1
        /\ held => since'.held = since.held
        /\ ~held => since'.denied = since.denied
        /\ since.held = Stale => since'.held = Stale
        /\ since.denied = Stale => since'.denied = Stale
        /\ since'.held \in 0..Stale /\ since'.denied \in 0..Stale
    BY <1>2, <1>3
  <1>5. since' \in [held : 0..Stale, denied : 0..Stale]
    BY <1>1, <1>2
  <1>6. /\ cache' \in [verdict : Verdicts, age : 0..TTL]
        /\ cache'.verdict \in {"none", cache.verdict}
        /\ cache'.verdict # "none" => cache'.age = cache.age + 1
    <2>1. CASE cache.verdict = "none"
      BY <1>1, <1>2, <2>1
    <2>2. CASE cache.verdict # "none" /\ cache.age = TTL
      BY <1>1, <2>2 DEF Verdicts
    <2>3. CASE cache.verdict # "none" /\ cache.age # TTL
      <3>1. cache' = [cache EXCEPT !.age = cache.age + 1] /\ cache.age + 1 \in 0..TTL
        BY <1>1, <1>2, <2>3
      <3> QED
        BY <1>2, <3>1
    <2> QED
      BY <2>1, <2>2, <2>3
  <1>7. ClockFits'
    <2>1. IF held THEN since.held = 0 ELSE since.denied = 0
      BY DEF RequestsInv, ClockFits
    <2>2. IF held' THEN since'.held = 0 ELSE since'.denied = 0
      BY <1>1, <1>4, <2>1
    <2>3. /\ cache'.verdict = "allow" => since'.held <= cache'.age + Latency
          /\ cache'.verdict = "deny" => since'.denied <= cache'.age + Latency
      BY <1>2, <1>4, <1>6 DEF RequestsInv, ClockFits
    <2> QED
      BY <2>2, <2>3 DEF ClockFits
  <1>8. ASSUME NEW r \in Requests
        PROVE  req'[r] \in RequestType /\ RequestFits(req'[r], focus, since')
    <2>1. req[r] \in RequestType /\ RequestFits(req[r], focus, since)
      BY DEF RequestsInv, StateType
    <2>2. req[r].age \in 0..Latency /\ req[r].verdict \in Verdicts
      BY <2>1 DEF RequestType
    <2>3. CASE req[r].verdict = "none"
      <3>1. req'[r] = req[r]
        BY <1>1, <2>3
      <3> QED
        BY <1>4, <2>1, <2>3, <3>1 DEF RequestFits
    <2>4. CASE req[r].verdict # "none"
      <3> DEFINE q == [req[r] EXCEPT !.age = req[r].age + 1]
      <3>1. req'[r] = q
        BY <1>1, <2>4
      <3>2. req[r].age + 1 \in 0..Latency
        BY <1>1, <2>2, <2>4
      <3>3. q \in RequestType
        BY <2>1, <3>2 DEF RequestType
      <3>4. /\ q.verdict = req[r].verdict /\ q.todo = req[r].todo /\ q.op = req[r].op
            /\ q.age = req[r].age + 1 /\ q.status = req[r].status /\ q.by = req[r].by
            /\ q.mayPass = req[r].mayPass /\ q.mayFail = req[r].mayFail
        BY <2>1 DEF RequestType
      <3> HIDE DEF q
      <3>5. /\ since.held <= req[r].age => since'.held <= q.age
            /\ since.denied <= req[r].age => since'.denied <= q.age
        BY <1>2, <1>4, <2>2, <3>4
      <3>6. RequestFits(q, focus, since')
        BY <1>4, <2>1, <3>4, <3>5 DEF RequestFits
      <3> QED
        BY <3>1, <3>3, <3>6
    <2> QED
      BY <2>3, <2>4
  <1>9. req' \in [Requests -> RequestType]
    BY <1>1, <1>8
  <1>10. \A r \in Requests : RequestFits(req[r], focus, since)'
    <2>1. focus' = focus /\ \A r \in Requests : RequestFits(req'[r], focus, since')
      BY <1>1, <1>8
    <2> QED
      BY <2>1 DEF RequestFits
  <1>11. StateType'
    BY <1>1, <1>2, <1>5, <1>6, <1>9 DEF StateType
  <1> QED
    BY <1>7, <1>10, <1>11 DEF RequestsInv

-----------------------------------------------------------------------------
(***************************************************************************)
(* The theorems.                                                           *)
(***************************************************************************)

LEMMA RequestsStep == RequestsInv /\ [Next]_vars => RequestsInv'
  <1> SUFFICES ASSUME RequestsInv, [Next]_vars PROVE RequestsInv'
    OBVIOUS
  <1>1. ASSUME NEW r \in Requests, Arrive(r) PROVE RequestsInv'
    BY <1>1, ArriveFits
  <1>2. ASSUME NEW r \in Requests, PassCheck(r) PROVE RequestsInv'
    BY <1>2, PassCheckFits
  <1>3. ASSUME NEW r \in Requests, FailCheck(r) PROVE RequestsInv'
    BY <1>3, FailCheckFits
  <1>4. ASSUME NEW r \in Requests, CallRepository(r) PROVE RequestsInv'
    BY <1>4, CallRepositoryFits
  <1>5. ASSUME NEW r \in Requests, WriteAnswer(r) PROVE RequestsInv'
    BY <1>5, WriteAnswerFits
  <1>6. ASSUME NEW r \in Requests, Unauthenticated(r) PROVE RequestsInv'
    BY <1>6, UnauthenticatedFits
  <1>7. ASSUME NEW r \in Requests, UseCached(r) PROVE RequestsInv'
    BY <1>7, UseCachedFits
  <1>8. ASSUME NEW r \in Requests, AskReview(r) PROVE RequestsInv'
    BY <1>8, AskReviewFits
  <1>9. ASSUME NEW r \in Requests, ReviewAnswered(r) PROVE RequestsInv'
    BY <1>9, ReviewAnsweredFits
  <1>10. ASSUME NEW r \in Requests, ReviewFailed(r) PROVE RequestsInv'
    BY <1>10, ReviewFailedFits
  <1>11. ASSUME NEW r \in Requests, RecoverPanic(r) PROVE RequestsInv'
    BY <1>11, RecoverPanicFits
  <1>12. CASE Regrant
    BY <1>12, RegrantFits
  <1>13. CASE Tick
    BY <1>13, TickFits
  <1>14. CASE UNCHANGED vars
    BY <1>14 DEF vars, RequestsInv, StateType, ClockFits, RequestFits
  <1> QED
    BY <1>1, <1>2, <1>3, <1>4, <1>5, <1>6, <1>7, <1>8, <1>9, <1>10, <1>11, <1>12, <1>13,
       <1>14 DEF Next

\* The inductive invariant: every request under way goes through what is left of a sound
\* handler, and every verdict in use was true not long before the request came.
THEOREM RequestsInvariant == Spec => []RequestsInv
  <1>1. Init => RequestsInv
    BY RequestsInit
  <1>2. RequestsInv /\ [Next]_vars => RequestsInv'
    BY RequestsStep
  <1> QED
    BY <1>1, <1>2, PTL DEF Spec

\* Every reachable state is well-formed, with a verdict no older than TTL, or Latency.
THEOREM TypeCorrect == Spec => []TypeOK
  <1>1. RequestsInv => TypeOK
    BY DEF RequestsInv, StateType, TypeOK, RequestType
  <1> QED
    BY <1>1, RequestsInvariant, PTL

\* No repository is called for a user without a permission that covers the call, held at some
\* time since TTL + Latency before the request arrived: for all handlers of Routes().
THEOREM CallsAreAllowed == Spec => []CallsWereAllowed
  <1>1. RequestsInv => CallsWereAllowed
    <2> SUFFICES ASSUME RequestsInv, NEW r \in Requests, At(r, "call")
                 PROVE  req[r].mayPass /\ Covers(focus, Now(r).policy)
      BY DEF CallsWereAllowed
    <2>1. InFlight(r) /\ Now(r).does = "call"
      BY DEF At
    <2>2. req[r] \in RequestType /\ RequestFits(req[r], focus, since) /\ req[r].todo # <<>>
      BY <2>1, AtStage
    <2>3. req[r].todo \in Seq(StageType) /\ AheadSound(req[r].todo, focus, Documented[req[r].op], req[r].mayPass)
      BY <2>2 DEF RequestType, RequestFits
    <2>4. Now(r) = req[r].todo[1] /\ 1 \in 1..Len(req[r].todo) /\ 1..1 - 1 = {}
      BY <2>2, <2>3 DEF Now
    <2> QED
      BY <2>1, <2>3, <2>4 DEF AheadSound
  <1> QED
    BY <1>1, RequestsInvariant, PTL

\* The authorizer refuses nobody (403) who held the permission all the time since
\* TTL + Latency before the request arrived.
THEOREM RefusalsAreJustified == Spec => []RefusalsWereDenied
  <1>1. RequestsInv => RefusalsWereDenied
    BY DEF RequestsInv, RequestFits, RefusalsWereDenied
  <1> QED
    BY <1>1, RequestsInvariant, PTL

\* Every answer of every handler has a status that the OpenAPI document gives for it.
THEOREM AnswersAreDocumented == Spec => []AnswersDocumented
  <1>1. RequestsInv => AnswersDocumented
    BY DEF RequestsInv, RequestFits, AnswersDocumented
  <1> QED
    BY <1>1, RequestsInvariant, PTL
=============================================================================
