--------------------------- MODULE BackendRequests ---------------------------
(***************************************************************************)
(* Requests on their way through the handlers of the REST API, and the     *)
(* authorizer they share.                                                  *)
(*                                                                         *)
(* A handler asks the authorizer once, before or after it has read the     *)
(* body, and then calls a repository, which acts with the backend's own    *)
(* rights: nothing after requireAuth() looks at the user's.  The           *)
(* authorizer keeps every verdict of a SubjectAccessReview for a while,    *)
(* for all requests, while an administrator grants and revokes.            *)
(*                                                                         *)
(* Only requests that need the same permission share a verdict, so a       *)
(* behaviour is about the requests of one permission.                      *)
(***************************************************************************)
EXTENDS ApiHandlers, OpenApiDocument

CONSTANTS Requests,  \* the requests there can be at a time
          TTL,       \* allowCacheTTL and denyCacheTTL
          Latency    \* EXTERNAL: the time a SubjectAccessReview may take

ASSUME TimesAssumption == TTL \in Nat /\ Latency \in Nat

VARIABLES focus,  \* the permission (a policy) the requests need
          held,   \* whether RBAC grants it now
          since,  \* the time since it was last held, and since it was last not
          cache,  \* the authorizer's entry for it
          req     \* the requests

vars == <<focus, held, since, cache, req>>

\* The permission a handler asks for.
PolicyOf(h) == IF \E i \in 1..Len(h) : h[i].does = "authorize"
               THEN (CHOOSE s \in {h[i] : i \in 1..Len(h)} : s.does = "authorize").policy
               ELSE NoPolicy

Pipelines == UNION {{[op |-> op, stages |-> h] : h \in Routes[op]} : op \in Operations}
Policies == {PolicyOf(p.stages) : p \in Pipelines}
PipelinesOf == [p \in Policies |-> {q \in Pipelines : PolicyOf(q.stages) = p}]

Verdicts == {"none", "allow", "deny"}

\* A permission held (or not held) so long before a request arrived is stale.
Stale == TTL + Latency + 1

\* op is the operation and todo what its handler has yet to do; verdict is the answer of a
\* SubjectAccessReview under way, and age the time since it was asked for.  mayPass and
\* mayFail say whether the permission was held, or was not, at some time since
\* TTL + Latency before the request arrived.  status is the answer, from the stage by.
NoRequest == [op |-> "none", todo |-> <<>>, verdict |-> "none", age |-> 0,
              mayPass |-> FALSE, mayFail |-> FALSE, status |-> 0, by |-> "none"]

TypeOK ==
    /\ focus \in Policies
    /\ held \in BOOLEAN
    /\ since \in [held : 0..Stale, denied : 0..Stale]
    /\ cache \in [verdict : Verdicts, age : 0..TTL]
    /\ \A r \in Requests :
         /\ req[r].op \in Operations \cup {"none"}
         /\ req[r].verdict \in Verdicts /\ req[r].age \in 0..Latency

Init ==
    /\ focus \in Policies
    /\ held \in BOOLEAN
    /\ since = IF held THEN [held |-> 0, denied |-> Stale] ELSE [held |-> Stale, denied |-> 0]
    /\ cache = [verdict |-> "none", age |-> 0]
    /\ req = [r \in Requests |-> NoRequest]

-----------------------------------------------------------------------------
(* Handling a request.                                                     *)

InFlight(r) == req[r].todo # <<>>
Now(r) == Head(req[r].todo)
At(r, does) == InFlight(r) /\ Now(r).does = does

Arrive(r) ==
    /\ ~InFlight(r)
    /\ \E p \in PipelinesOf[focus] :
         req' = [req EXCEPT ![r] = [NoRequest EXCEPT
                   !.op = p.op, !.todo = p.stages,
                   !.mayPass = (since.held < Stale), !.mayFail = (since.denied < Stale)]]
    /\ UNCHANGED <<focus, held, since, cache>>

Proceed(r) == req' = [req EXCEPT ![r].todo = Tail(@), ![r].verdict = "none", ![r].age = 0]

Respond(r, status) ==
    req' = [req EXCEPT ![r] = [NoRequest EXCEPT !.op = req[r].op, !.mayFail = req[r].mayFail,
                                                !.status = status, !.by = Now(r).does]]

\* A stage that lets the request pass, or answers it.
PassCheck(r) ==
    /\ At(r, "check") /\ Proceed(r)
    /\ UNCHANGED <<focus, held, since, cache>>

FailCheck(r) ==
    /\ At(r, "check")
    /\ \E status \in Now(r).fails : Respond(r, status)
    /\ UNCHANGED <<focus, held, since, cache>>

CallRepository(r) ==
    /\ At(r, "call")
    /\ Proceed(r) \/ \E status \in Now(r).fails : Respond(r, status)
    /\ UNCHANGED <<focus, held, since, cache>>

WriteAnswer(r) ==
    /\ At(r, "answer")
    /\ \E status \in Now(r).fails : Respond(r, status)
    /\ UNCHANGED <<focus, held, since, cache>>

\* recoverPanic()
RecoverPanic(r) ==
    /\ InFlight(r)
    /\ Respond(r, 500)
    /\ UNCHANGED <<focus, held, since, cache>>

-----------------------------------------------------------------------------
(* requireAuth().                                                          *)

\* AuthenticateRequest(): the header with the user is missing, or cannot be used.
Unauthenticated(r) ==
    /\ At(r, "authorize") /\ req[r].verdict = "none"
    /\ \E status \in {401, 500} : Respond(r, status)
    /\ UNCHANGED <<focus, held, since, cache>>

\* Authorize() said allow or deny.
Decide(r, verdict) == IF verdict = "allow" THEN Proceed(r) ELSE Respond(r, 403)

\* EXTERNAL: the delegating authorizer has a verdict that is not too old.
UseCached(r) ==
    /\ At(r, "authorize") /\ req[r].verdict = "none" /\ cache.verdict # "none"
    /\ Decide(r, cache.verdict)
    /\ UNCHANGED <<focus, held, since, cache>>

\* EXTERNAL: it has none, and asks the API server, which looks at the permission.
AskReview(r) ==
    /\ At(r, "authorize") /\ req[r].verdict = "none" /\ cache.verdict = "none"
    /\ req' = [req EXCEPT ![r].verdict = IF held THEN "allow" ELSE "deny"]
    /\ UNCHANGED <<focus, held, since, cache>>

\* The answer arrives and is kept for others.
ReviewAnswered(r) ==
    /\ At(r, "authorize") /\ req[r].verdict # "none"
    /\ cache' = [verdict |-> req[r].verdict, age |-> 0]
    /\ Decide(r, req[r].verdict)
    /\ UNCHANGED <<focus, held, since>>

\* MUTANT of ReviewFailed: the error is dropped, and no verdict is no permission.
ReviewFailedDenies(r) ==
    /\ At(r, "authorize") /\ req[r].verdict # "none"
    /\ Respond(r, 403)
    /\ UNCHANGED <<focus, held, since, cache>>

\* The review failed, after the retries.
ReviewFailed(r) ==
    /\ At(r, "authorize") /\ req[r].verdict # "none"
    /\ Respond(r, 500)
    /\ UNCHANGED <<focus, held, since, cache>>

-----------------------------------------------------------------------------
(* The environment.                                                        *)

\* An administrator grants or revokes the permission.
Regrant ==
    /\ held' = ~held
    /\ since' = IF held' THEN [since EXCEPT !.held = 0] ELSE [since EXCEPT !.denied = 0]
    /\ req' = [r \in Requests |->
                 IF ~InFlight(r) THEN req[r]
                 ELSE IF held' THEN [req[r] EXCEPT !.mayPass = TRUE]
                 ELSE [req[r] EXCEPT !.mayFail = TRUE]]
    /\ UNCHANGED <<focus, cache>>

\* MUTANT of Tick: the entry of the authorizer's cache does not expire.
TickNeverExpires ==
    /\ \A r \in Requests : req[r].verdict # "none" => req[r].age < Latency
    /\ since' = [held   |-> IF held \/ since.held = Stale THEN since.held ELSE since.held + 1,
                 denied |-> IF ~held \/ since.denied = Stale THEN since.denied
                            ELSE since.denied + 1]
    /\ cache' = [cache EXCEPT !.age = @ + 1]
    /\ req' = [r \in Requests |-> IF req[r].verdict = "none" THEN req[r]
                                  ELSE [req[r] EXCEPT !.age = @ + 1]]
    /\ UNCHANGED <<focus, held>>

\* Time passes; the entry of the authorizer's cache expires.
Tick ==
    /\ \A r \in Requests : req[r].verdict # "none" => req[r].age < Latency
    /\ since' = [held   |-> IF held \/ since.held = Stale THEN since.held ELSE since.held + 1,
                 denied |-> IF ~held \/ since.denied = Stale THEN since.denied
                            ELSE since.denied + 1]
    /\ cache' = IF cache.verdict = "none" THEN cache
                ELSE IF cache.age = TTL THEN [verdict |-> "none", age |-> 0]
                ELSE [cache EXCEPT !.age = @ + 1]
    /\ req' = [r \in Requests |-> IF req[r].verdict = "none" THEN req[r]
                                  ELSE [req[r] EXCEPT !.age = @ + 1]]
    /\ UNCHANGED <<focus, held>>

Next ==
    \/ \E r \in Requests :
         \/ Arrive(r) \/ PassCheck(r) \/ FailCheck(r) \/ CallRepository(r) \/ WriteAnswer(r)
         \/ Unauthenticated(r) \/ UseCached(r) \/ AskReview(r) \/ ReviewAnswered(r)
         \/ ReviewFailed(r) \/ RecoverPanic(r)
    \/ Regrant
    \/ Tick

Spec == Init /\ [][Next]_vars

-----------------------------------------------------------------------------
(* Properties.                                                             *)

Breadth(scope) == CASE scope = "object" -> 1 [] scope = "namespace" -> 2 [] scope = "all" -> 3

\* Who may do p may have the backend do e: the same on as many objects, or what the API
\* grants beyond RBAC - to see the kinds, their options and assets, and the storage classes
\* for those who may use them in a namespace, and the Pod of a Workspace one may see.
Covers(p, e) ==
    \/ p.verb = e.verb /\ p.resource = e.resource /\ Breadth(p.scope) >= Breadth(e.scope)
    \/ p.verb = "update" /\ e.verb = "patch" /\ p.resource = e.resource /\ p.scope = e.scope
    \/ /\ p.resource = "workspaces" /\ p.scope = "namespace" /\ p.verb \in {"create", "list"}
       /\ e.resource = "workspacekinds" /\ e.verb \in {"get", "list"}
    \/ /\ p = Policy("create", "persistentvolumeclaims", "namespace")
       /\ e = Policy("list", "storageclasses", "all")
    \/ /\ p = Policy("get", "workspaces", "object")
       /\ e = Policy("get", "pods", "object")

\* A repository is called on behalf of a user only if the user had a permission that covers
\* the call, at some time since TTL + Latency before the request arrived: a permission that
\* was revoked longer ago than that has no effect, whatever verdicts are shared and however
\* long the handler takes over the body.
CallsWereAllowed ==
    \A r \in Requests :
      At(r, "call") => req[r].mayPass /\ Covers(focus, Now(r).policy)

\* A user is refused by the authorizer (403) only if the permission was not held at some time
\* since TTL + Latency before the request arrived.
RefusalsWereDenied ==
    \A r \in Requests : req[r].by = "authorize" /\ req[r].status = 403 => req[r].mayFail

\* Every answer has a status that the OpenAPI document gives for the operation.
AnswersDocumented ==
    \A r \in Requests : req[r].status # 0 => req[r].status \in Documented[req[r].op]
=============================================================================
