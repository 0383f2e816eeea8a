--------------------------- MODULE OwnedResources ---------------------------
(***************************************************************************)
(* The objects the Workspace controller owns next to the Pod: one          *)
(* ServiceAccount, StatefulSet, Service and (with Istio) VirtualService,   *)
(* and one RoleBinding per ClusterRole of the WorkspaceKind.               *)
(*                                                                         *)
(* The objects have generated names, so a reconcile finds them by listing  *)
(* a CACHE by the NAME of the owning Workspace: a list can miss an object  *)
(* the previous reconcile created, and can return objects of a deleted     *)
(* Workspace of the same name that the garbage collector has not reached.  *)
(* Every API call of a reconcile is a step here; users, the garbage        *)
(* collector, watch events, API failures and restarts of the manager come  *)
(* between.  What the StatefulSet does with its Pod is WorkspaceRollout's. *)
(***************************************************************************)
EXTENDS Informer, FiniteSets

CONSTANTS Roles,       \* the ClusterRoles a WorkspaceKind may list
          Settings,    \* the settings a behaviour can have, see Setting
          MaxNames     \* bound: names in use at a time, per kind

VARIABLES ws,      \* versions of the Workspace: [uid, state], uid 0 when there is none
          grants,  \* versions of the WorkspaceKind's clusterRoles
          objs,    \* per kind, the versions of the set of owned objects
          pass,    \* the reconcile under way
          queued,  \* the work queue holds a request for the Workspace
          spent    \* the setting, and how much of its bounds is used up

vars == <<ws, grants, objs, pass, queued, spent>>

NoRole == "NoRole"
Singles == {"ServiceAccount", "StatefulSet", "Service", "VirtualService"}
OwnedKinds == Singles \cup {"RoleBinding"}

\* config.EnvConfig.UseIstio, and the bounds on edits (of the Workspace and its kind) and
\* on mishaps (foreign edits and deletions, failed calls, restarts); lag bounds
\* the watch events under way, and late are the kinds whose events others can overtake.
Setting == [useIstio : BOOLEAN, edits : Nat, mishaps : Nat, lag : Nat,
            late : SUBSET OwnedKinds]

ASSUME BoundsAssumption ==
    /\ Settings \subseteq Setting
    /\ MaxNames \in Nat

\* The kinds reconciled, in the order of Reconcile(), and the stages after them.
Stages == {"idle", "ServiceAccount", "StatefulSet", "Service", "VirtualService",
           "ListRoleBindings", "RoleBindings", "Finish"}

\* spec is what the controller writes into an object: the name of the object
\* it refers to, 0 where it refers to none; Foreign is what somebody else put
\* there.  rv is metadata.resourceVersion, counted modulo the number of versions that
\* others can store during one reconcile.
Foreign == MaxNames + 1

Object == [name : 1..MaxNames, owner : Nat, spec : 0..Foreign, role : Roles \cup {NoRole},
           rv : Nat]

NextVersion(o) == IF o.rv = spent.limit.mishaps THEN 0 ELSE o.rv + 1

WorkspaceStates == {"None", "Ok", "Multiple", "Failed"}
WorkspaceVersion == [uid : Nat, state : WorkspaceStates]

Idle == [at |-> "idle", ws |-> [uid |-> 0, state |-> "None"], roles |-> {},
         account |-> 0, service |-> 0, listed |-> {}, desired |-> {}]

TypeOK ==
    /\ ws \in Versions(WorkspaceVersion)
    /\ grants \in Versions(SUBSET Roles)
    /\ objs \in [OwnedKinds -> Versions(SUBSET Object)]
    /\ pass \in [at : Stages, ws : WorkspaceVersion, roles : SUBSET Roles, account : 0..MaxNames,
                 service : 0..MaxNames, listed : SUBSET Object, desired : SUBSET Roles]
    /\ queued \in BOOLEAN
    /\ spent \in [limit : Setting, edits : Nat, mishaps : Nat]

\* A Workspace that was just created, and a kind that grants any roles.
Init ==
    /\ ws = <<[uid |-> 1, state |-> "None"]>>
    /\ grants \in {<<r>> : r \in SUBSET Roles}
    /\ objs = [k \in OwnedKinds |-> <<{}>>]
    /\ pass = Idle
    /\ queued = TRUE
    /\ spent \in {[limit |-> l, edits |-> 0, mishaps |-> 0] : l \in Settings}

-----------------------------------------------------------------------------
(* Calls of the API server.                                                *)

\* The version of an object that is stored now has the version that was read.
Unchanged(k, o) == o \in Stored(objs[k])

Gone(k, o) == \A p \in Stored(objs[k]) : p.name # o.name

\* Watch events that are under way.
UnderWay == {<<"ws", i>> : i \in 2..Len(ws)} \cup {<<"grants", i>> : i \in 2..Len(grants)}
            \cup UNION {{<<k, i>> : i \in 2..Len(objs[k])} : k \in OwnedKinds}

Room == Cardinality(UnderWay) < spent.limit.lag

Write(k, set) == objs' = [objs EXCEPT ![k] = Put(objs[k], set)]

MayFail == spent.mishaps < spent.limit.mishaps
CountMishap == spent' = [spent EXCEPT !.mishaps = @ + 1]

-----------------------------------------------------------------------------
(* How a reconcile ends early.                                             *)

\* ctrl.Result{RequeueAfter: 1}: an update met a newer version.
Requeue == pass' = Idle /\ queued' = TRUE /\ UNCHANGED ws

\* updateWorkspaceState(): writes the status when the state differs from the one that was
\* read; a newer Workspace makes it a conflict, which is retried.  Only a Workspace with
\* another UID and the status written here, which ends the pass, replace the one that was
\* read: it is stored unchanged exactly if its resourceVersion is.
UpdateWorkspaceState(state, again) ==
    \/ /\ pass.ws.state = state
       /\ pass' = Idle /\ queued' = (queued \/ again) /\ UNCHANGED ws
    \/ /\ pass.ws.state # state /\ Stored(ws) = pass.ws /\ Room
       /\ ws' = Put(ws, [pass.ws EXCEPT !.state = state])
       /\ pass' = Idle /\ queued' = (queued \/ again)
    \/ /\ pass.ws.state # state /\ Stored(ws) # pass.ws
       /\ Requeue

\* updateWorkspaceStateThenError(): the request goes back to the queue, with back-off.
UpdateWorkspaceStateThenError == UpdateWorkspaceState("Failed", TRUE)

-----------------------------------------------------------------------------
(* The reconcile.                                                          *)

\* MUTANT of BeginReconcile: one read in two goes past the cache.
BeginReconcileMixedReads ==
    /\ queued /\ pass.at = "idle"
    /\ queued' = FALSE
    /\ \E w \in {Cached(ws), Stored(ws)} :
         pass' = IF w.uid = 0 THEN Idle
                 ELSE [Idle EXCEPT !.at = "ServiceAccount", !.ws = w, !.roles = Cached(grants)]
    /\ UNCHANGED <<ws, grants, objs, spent>>

\* Reconcile() fetches the Workspace and its kind; it stops when the Workspace is gone.
BeginReconcile ==
    /\ queued /\ pass.at = "idle"
    /\ queued' = FALSE
    /\ pass' = IF Cached(ws).uid = 0 THEN Idle
               ELSE [Idle EXCEPT !.at = "ServiceAccount", !.ws = Cached(ws),
                                 !.roles = Cached(grants)]
    /\ UNCHANGED <<ws, grants, objs, spent>>

\* metadata.generateName: a name that no object of the kind has and nothing refers to.
Seen(k) == UNION {objs[k][i] : i \in 1..Len(objs[k])}
           \cup IF k = "RoleBinding" THEN pass.listed ELSE {}

Taken(k) ==
    {o.name : o \in Seen(k)}
    \cup CASE k = "ServiceAccount" ->
                {pass.account} \cup {o.spec : o \in Seen("StatefulSet") \cup Seen("RoleBinding")}
           [] k = "Service" -> {pass.service} \cup {o.spec : o \in Seen("VirtualService")}
           [] OTHER -> {}

\* MUTANT of FreshNames: the prefix is left out, and a name can be empty.
FreshNamesOrNone(k) == 0..MaxNames \ Taken(k)

FreshNames(k) == 1..MaxNames \ Taken(k)

\* The object to create, with a controller reference to the Workspace that was read.
Generate(k, spec, role) ==
    [name |-> CHOOSE n \in FreshNames(k) : TRUE, owner |-> pass.ws.uid, spec |-> spec,
     role |-> role, rv |-> 0]

\* ReplaceWorkspaceAsController() and Copy*Fields(): the found object with the
\* controller reference and the fields it should have.
Adopted(o, spec) == [o EXCEPT !.owner = pass.ws.uid, !.spec = spec]

CreateObject(k, o) ==
    /\ FreshNames(k) # {} /\ Room
    /\ Write(k, Stored(objs[k]) \cup {o})
    /\ UNCHANGED spent

\* Update(): accepted for the version that was read.
UpdateObject(k, o, p) ==
    /\ Unchanged(k, o) /\ Room
    /\ Write(k, (Stored(objs[k]) \ {o}) \cup {[p EXCEPT !.rv = NextVersion(o)]})
    /\ UNCHANGED spent

\* An update that is refused: for a newer version a conflict, for an object
\* that is gone an error.
RefusedUpdate(k, o) ==
    /\ ~Unchanged(k, o)
    /\ IF Gone(k, o) THEN UpdateWorkspaceStateThenError ELSE Requeue
    /\ UNCHANGED <<objs, spent>>

\* A call that fails for another reason.
FailedCall ==
    /\ MayFail /\ CountMishap
    /\ UpdateWorkspaceStateThenError
    /\ UNCHANGED objs

\* What the rest of the reconcile remembers: serviceAccount and service are used below.
Continue(k, next, name) ==
    /\ pass' = [pass EXCEPT !.at = next,
                            !.account = IF k = "ServiceAccount" THEN name ELSE @,
                            !.service = IF k = "Service" THEN name ELSE @]
    /\ UNCHANGED <<ws, queued>>

\* One kind of which the Workspace owns one object.  Several found: the state Error, with no
\* retry.  None: create it.  One: adopt it, and update it when something differs.
ReconcileOne(k, spec, next) ==
    /\ pass.at = k
    /\ LET found == Cached(objs[k])
       IN  \/ /\ Cardinality(found) > 1
              /\ UpdateWorkspaceState("Multiple", FALSE)
              /\ UNCHANGED <<objs, spent>>
           \/ /\ found = {}
              /\ LET o == Generate(k, spec, NoRole)
                 IN  \/ CreateObject(k, o) /\ Continue(k, next, o.name)
                     \/ FailedCall
           \/ /\ Cardinality(found) = 1
              /\ \E o \in found :
                   LET p == Adopted(o, spec)
                   IN  \/ /\ p = o /\ Continue(k, next, o.name)
                          /\ UNCHANGED <<objs, spent>>
                       \/ p # o /\ UpdateObject(k, o, p) /\ Continue(k, next, o.name)
                       \/ p # o /\ RefusedUpdate(k, o)
                       \/ p # o /\ FailedCall
    /\ UNCHANGED grants

ReconcileServiceAccount == ReconcileOne("ServiceAccount", 0, "StatefulSet")

\* The Pod template runs under the ServiceAccount.
ReconcileStatefulSet == ReconcileOne("StatefulSet", pass.account, "Service")

ReconcileService ==
    ReconcileOne("Service", 0, IF spent.limit.useIstio THEN "VirtualService" ELSE "ListRoleBindings")

\* The route leads to the Service.
ReconcileVirtualService == ReconcileOne("VirtualService", pass.service, "ListRoleBindings")

\* reconcileRoleBindings(): the desired map, keyed by roleRef, and the listing.
ListRoleBindings ==
    /\ pass.at = "ListRoleBindings"
    /\ pass' = [pass EXCEPT !.at = "RoleBindings", !.desired = pass.roles,
                            !.listed = Cached(objs["RoleBinding"])]
    /\ UNCHANGED <<ws, grants, objs, queued, spent>>

\* A found RoleBinding whose role is desired is adopted and leaves the desired map, so a
\* second one of the same role is surplus.
KeepRoleBinding(o) ==
    LET p    == Adopted(o, pass.account)
        kept == /\ pass' = [pass EXCEPT !.desired = @ \ {o.role}, !.listed = @ \ {o}]
                /\ UNCHANGED <<ws, queued>>
    IN  \/ p = o /\ kept /\ UNCHANGED <<objs, spent>>
        \/ p # o /\ UpdateObject("RoleBinding", o, p) /\ kept
        \/ p # o /\ RefusedUpdate("RoleBinding", o)
        \/ p # o /\ FailedCall

\* MUTANT of DeleteObject: by name, without preconditions.
DeleteAnyVersion(o) ==
    /\ Room
    /\ Write("RoleBinding", {p \in Stored(objs["RoleBinding"]) : p.name # o.name})
    /\ pass' = [pass EXCEPT !.listed = @ \ {o}]
    /\ UNCHANGED <<ws, queued>>

\* Delete() with the UID and resourceVersion that were read as preconditions: gone already
\* is as good, a newer version is a conflict.
DeleteObject(o) ==
    \/ /\ Unchanged("RoleBinding", o) /\ Room
       /\ Write("RoleBinding", Stored(objs["RoleBinding"]) \ {o})
       /\ pass' = [pass EXCEPT !.listed = @ \ {o}]
       /\ UNCHANGED <<ws, queued>>
    \/ /\ Gone("RoleBinding", o)
       /\ pass' = [pass EXCEPT !.listed = @ \ {o}]
       /\ UNCHANGED <<objs, ws, queued>>
    \/ /\ ~Unchanged("RoleBinding", o) /\ ~Gone("RoleBinding", o)
       /\ Requeue /\ UNCHANGED objs

DeleteRoleBinding(o) ==
    \/ DeleteObject(o) /\ UNCHANGED spent
    \/ FailedCall

\* MUTANT of ReconcileRoleBinding: a role found once is dropped from the listing with
\* its duplicates.
ReconcileRoleBindingOnce ==
    /\ pass.at = "RoleBindings"
    /\ \E o \in pass.listed :
         IF o.role \in pass.desired THEN KeepRoleBinding(o)
         ELSE IF o.role \in pass.roles
              THEN /\ pass' = [pass EXCEPT !.listed = @ \ {o}]
                   /\ UNCHANGED <<ws, objs, queued, spent>>
              ELSE DeleteRoleBinding(o)
    /\ UNCHANGED grants

\* The loop over the listing, in the order the cache returns it (any).
ReconcileRoleBinding ==
    /\ pass.at = "RoleBindings"
    /\ \E o \in pass.listed :
         IF o.role \in pass.desired THEN KeepRoleBinding(o) ELSE DeleteRoleBinding(o)
    /\ UNCHANGED grants

\* The loop over what is left of the desired map, in map order (any).
CreateRoleBinding ==
    /\ pass.at = "RoleBindings" /\ pass.listed = {}
    /\ \E r \in pass.desired :
         \/ /\ CreateObject("RoleBinding", Generate("RoleBinding", pass.account, r))
            /\ pass' = [pass EXCEPT !.desired = @ \ {r}]
            /\ UNCHANGED <<ws, queued>>
         \/ FailedCall
    /\ UNCHANGED grants

RoleBindingsDone ==
    /\ pass.at = "RoleBindings" /\ pass.listed = {} /\ pass.desired = {}
    /\ pass' = [Idle EXCEPT !.at = "Finish", !.ws = pass.ws]
    /\ UNCHANGED <<ws, grants, objs, queued, spent>>

\* The status at the end of the reconcile; every state but Error is Ok here.
FinishReconcile ==
    /\ pass.at = "Finish"
    /\ UpdateWorkspaceState("Ok", FALSE)
    /\ UNCHANGED <<grants, objs, spent>>

\* The kinds that are not late are seen before anything else happens.
Prompt == \A k \in OwnedKinds \ spent.limit.late : Current(objs[k])

ReconcileStep ==
    /\ Prompt
    /\ \/ BeginReconcile
       \/ ReconcileServiceAccount \/ ReconcileStatefulSet
       \/ ReconcileService \/ ReconcileVirtualService
       \/ ListRoleBindings \/ ReconcileRoleBinding \/ CreateRoleBinding \/ RoleBindingsDone
       \/ FinishReconcile

-----------------------------------------------------------------------------
(* The environment.                                                        *)

\* Watch events: Owns() and Watches() map every event to the Workspace.
DeliverObjects(k) ==
    /\ Behind(objs[k])
    /\ objs' = [objs EXCEPT ![k] = Tail(@)]
    /\ queued' = TRUE
    /\ UNCHANGED <<ws, grants, pass, spent>>

DeliverWorkspace ==
    /\ Behind(ws)
    /\ ws' = Tail(ws)
    /\ queued' = TRUE
    /\ UNCHANGED <<grants, objs, pass, spent>>

DeliverKind ==
    /\ Behind(grants)
    /\ grants' = Tail(grants)
    /\ queued' = TRUE
    /\ UNCHANGED <<ws, objs, pass, spent>>

\* EXTERNAL: the garbage collector removes an object whose controller does not exist.
Collect(k) ==
    /\ Prompt /\ Room
    /\ \E o \in Stored(objs[k]) :
         /\ o.owner # Stored(ws).uid
         /\ Write(k, Stored(objs[k]) \ {o})
    /\ UNCHANGED <<ws, grants, pass, queued, spent>>

\* A user deletes the Workspace, and may create it again under the same name.
EditWorkspace ==
    /\ spent.edits < spent.limit.edits /\ Prompt /\ Room
    /\ ws' = Put(ws, [uid |-> IF Stored(ws).uid = 0 THEN 1 + spent.edits ELSE 0,
                      state |-> "None"])
    /\ spent' = [spent EXCEPT !.edits = @ + 1]
    /\ UNCHANGED <<grants, objs, pass, queued>>

\* An administrator changes clusterRoles.
EditKind ==
    /\ spent.edits < spent.limit.edits /\ Prompt /\ Room
    /\ \E r \in SUBSET Roles : r # Stored(grants) /\ grants' = Put(grants, r)
    /\ spent' = [spent EXCEPT !.edits = @ + 1]
    /\ UNCHANGED <<ws, objs, pass, queued>>

\* Somebody edits or deletes an owned object.
Tamper(k) ==
    /\ MayFail /\ CountMishap /\ Prompt /\ Room
    /\ \E o \in Stored(objs[k]), edit \in BOOLEAN :
         Write(k, (Stored(objs[k]) \ {o})
                  \cup IF edit THEN {[o EXCEPT !.spec = Foreign, !.rv = NextVersion(o)]} ELSE {})
    /\ UNCHANGED <<ws, grants, pass, queued>>

\* The manager restarts: every cache is listed afresh and every Workspace is queued.
Restart ==
    /\ MayFail /\ CountMishap
    /\ pass' = Idle /\ queued' = TRUE
    /\ ws' = Relisted(ws) /\ grants' = Relisted(grants)
    /\ objs' = [k \in OwnedKinds |-> Relisted(objs[k])]

Next ==
    \/ ReconcileStep
    \/ \E k \in OwnedKinds : DeliverObjects(k)
    \/ DeliverWorkspace
    \/ DeliverKind
    \/ \E k \in OwnedKinds : Collect(k)
    \/ EditWorkspace
    \/ EditKind
    \/ \E k \in OwnedKinds : Tamper(k)
    \/ Restart

\* The manager works its queue off, watches deliver and the garbage collector runs.
Fairness ==
    /\ WF_vars(ReconcileStep)
    /\ \A k \in OwnedKinds : WF_vars(DeliverObjects(k)) /\ WF_vars(Collect(k))
    /\ WF_vars(DeliverWorkspace) /\ WF_vars(DeliverKind)

Spec == Init /\ [][Next]_vars /\ Fairness

-----------------------------------------------------------------------------
(* Properties.                                                             *)

Reconciled == IF spent.limit.useIstio THEN Singles ELSE Singles \ {"VirtualService"}

\* The object of kind k when there is just one.
Sole(k) == CHOOSE o \in Stored(objs[k]) : TRUE

\* Every kind has one object, of the living Workspace and with the right
\* reference; there is one RoleBinding per role of the kind and no other.
InPlace ==
    /\ \A k \in Reconciled : /\ Cardinality(Stored(objs[k])) = 1
                             /\ Sole(k).owner = Stored(ws).uid
    /\ Sole("StatefulSet").spec = Sole("ServiceAccount").name
    /\ spent.limit.useIstio => Sole("VirtualService").spec = Sole("Service").name
    /\ LET rb == Stored(objs["RoleBinding"])
       IN  /\ {o.role : o \in rb} = Stored(grants)
           /\ Cardinality(rb) = Cardinality(Stored(grants))
           /\ \A o \in rb : /\ o.owner = Stored(ws).uid
                            /\ o.spec = Sole("ServiceAccount").name
    /\ Stored(ws).state = "Ok"

\* Two objects where the controller expects one, reported as such.
DuplicatesReported ==
    /\ \E k \in Reconciled : Cardinality(Stored(objs[k])) > 1
    /\ Stored(ws).state = "Multiple"

\* Whatever fails or is edited on the way, and however late the caches are, the owned
\* objects end up in place once reconciles start from caches that have caught up; or a
\* list that missed a new object has made a duplicate, and the Workspace says so.
\* Without a Workspace nothing is left.
EventuallyInPlace ==
    <>[][BeginReconcile => UnderWay = {}]_vars =>
    <>[](IF Stored(ws).uid = 0 THEN \A k \in OwnedKinds : Stored(objs[k]) = {}
                               ELSE InPlace \/ DuplicatesReported)

\* A Workspace created again under the same name takes over the objects of
\* the deleted one; a late reconcile for the deleted one never takes them back.
OwnerNeverReverts ==
    [][\A k \in OwnedKinds : \A o \in Stored(objs[k]), p \in Stored(objs'[k]) :
          o.name = p.name => o.owner <= p.owner]_vars

\* The controller deletes a RoleBinding only as it was listed: one that somebody changed
\* since is listed again first.
DeletesAsListed ==
    [][ReconcileStep =>
         \A o \in Stored(objs["RoleBinding"]) :
            o \in pass.listed \/ \E p \in Stored(objs'["RoleBinding"]) : p.name = o.name]_vars

=============================================================================
