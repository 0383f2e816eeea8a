-------------------------- MODULE WorkspaceOptions --------------------------
(***************************************************************************)
(* A WorkspaceKind, a Workspace of it, and the labels of the Workspace's   *)
(* namespace over time: administrators write the kind and relabel the      *)
(* namespace, users select options through the backend or with kubectl.    *)
(* Every write goes through the webhooks (KindAdmission), and those of the *)
(* backend also through the filter rules (FilterRules).                    *)
(*                                                                         *)
(* The webhooks look at the other object through a cache, which may be     *)
(* behind: the kind's webhook learns which options are in use from a       *)
(* cached Workspace (`seen`), the Workspace's webhook which options there  *)
(* are from a cached kind (`known`).  Whether a kind may be deleted is     *)
(* what the controllers last published about its use (`used`).  The object *)
(* that is written itself reaches a webhook with the request.              *)
(*                                                                         *)
(* The backend's filter rules read the stored kind and namespace: a write  *)
(* that it lets through on older ones is a step of ApplyWorkspace, if the  *)
(* webhook admits it.  Publishing is one step; the two controllers that    *)
(* list, count and write in steps of their own are KindProtection.         *)
(***************************************************************************)
EXTENDS KindAdmission

CONSTANTS
    Kinds,      \* the WorkspaceKinds administrators write
    NoKind,     \* the kind does not exist
    Images,     \* ids of image configs that users select
    Pods,       \* ids of pod configs that users select
    NoWorkspace,
    Labelings   \* the sets of labels of the namespace

\* An id or a kind that is written is not the mark of an absent one.
ASSUME AbsentAssumption ==
    NoKind \notin Kinds /\ NoWorkspace \notin [image : Images, pod : Pods]

\* The option values of a kind are lists in a Kubernetes object.
ASSUME FiniteAssumption ==
    \A k \in Kinds : IsFiniteSet(DOMAIN k.images) /\ IsFiniteSet(DOMAIN k.pods)

VARIABLES
    kind,       \* the stored WorkspaceKind
    labels,     \* the labels of the namespace
    workspace,  \* the options of the stored Workspace
    seen,       \* the Workspace in the cache of webhooks and controllers
    known,      \* the options of the kind in that cache
    used,       \* status.workspaces > 0, or the finalizer is on the kind
    raced       \* history: a webhook admitted a write that concerns the other
                \* object while what it knew of that object was out of date

vars == <<kind, labels, workspace, seen, known, used, raced>>

Selections == [image : Images, pod : Pods]

\* What the webhook of the Workspace asks of a kind.
OptionIds(k) ==
    IF k = NoKind THEN [images |-> {}, pods |-> {}]
    ELSE [images |-> DOMAIN k.images, pods |-> DOMAIN k.pods]

Init ==
    /\ kind = NoKind /\ labels \in Labelings
    /\ workspace = NoWorkspace /\ seen = NoWorkspace
    /\ known = OptionIds(NoKind) /\ used = FALSE /\ raced = FALSE

\* The options in use according to the webhook's cache (getOptionsUsageCounts).
UsedImages == {s.image : s \in {seen} \ {NoWorkspace}}
UsedPods == {s.pod : s \in {seen} \ {NoWorkspace}}
-----------------------------------------------------------------------------
\* A new kind has no status and no finalizer.
CreateKind(new) ==
    /\ kind = NoKind
    /\ ValidateCreate(new)
    /\ kind' = new /\ used' = FALSE
    /\ UNCHANGED <<labels, workspace, seen, known, raced>>

\* The API server lets no update change a name.
UpdateKind(new) ==
    /\ kind # NoKind
    /\ new.name = kind.name
    /\ ValidateUpdate(kind, new, UsedImages, UsedPods)
    /\ kind' = new
    /\ raced' = (raced \/ seen # workspace)
    /\ UNCHANGED <<labels, workspace, seen, known, used>>

\* ValidateDelete: status.workspaces and the finalizer say that it is unused.
DeleteKind ==
    /\ kind # NoKind
    /\ ~used
    /\ kind' = NoKind
    /\ raced' = (raced \/ used # (workspace # NoWorkspace))
    /\ UNCHANGED <<labels, workspace, seen, known, used>>

\* The controllers count the Workspaces in the cache, and publish the count
\* and the finalizer that goes with it.
PublishUse ==
    /\ kind # NoKind
    /\ used' = (seen # NoWorkspace)
    /\ UNCHANGED <<kind, labels, workspace, seen, known, raced>>

RelabelNamespace(new) ==
    /\ labels' = new
    /\ UNCHANGED <<kind, workspace, seen, known, used, raced>>

\* The Workspace reaches the cache.
Observe ==
    /\ seen' = workspace
    /\ UNCHANGED <<kind, labels, workspace, known, used, raced>>

\* The kind reaches the cache.
ObserveKind ==
    /\ known' = OptionIds(kind)
    /\ UNCHANGED <<kind, labels, workspace, seen, used, raced>>
-----------------------------------------------------------------------------
(***************************************************************************)
(* The Workspace.  webhookAccepts* are the checks of its webhook.          *)
(***************************************************************************)
\* WorkspaceValidator.ValidateCreate: both options exist in the cached kind.
webhookAcceptsCreate(s) == s.image \in known.images /\ s.pod \in known.pods

\* WorkspaceValidator.ValidateUpdate: what changes exists in the cached kind.
webhookAcceptsUpdate(s) ==
    /\ s.image # workspace.image => s.image \in known.images
    /\ s.pod # workspace.pod => s.pod \in known.pods

\* Mutant: on create only the option values' own rules are enforced.
createAllowedByOptions(k, s) ==
    LET ctx == BuildEvalContextForImageAndPodCfg(k, {labels}, s.image, s.pod)
    IN enforceImageConfigFilterRule(k, ctx, s.image) /\ enforcePodConfigFilterRule(k, ctx, s.pod)

\* What CreateWorkspace of the repository enforces.
createAllowed(k, s) ==
    LET ctx == BuildEvalContextForImageAndPodCfg(k, {labels}, s.image, s.pod)
    IN /\ enforceWorkspaceKindFilterRules(k, {labels})
       /\ enforceImageConfigFilterRule(k, ctx, s.image)
       /\ enforcePodConfigFilterRule(k, ctx, s.pod)

\* What UpdateWorkspace enforces: of the options, only those that change.
updateAllowed(k, s) ==
    LET ctx == BuildEvalContextForImageAndPodCfg(k, {labels}, s.image, s.pod)
    IN /\ enforceWorkspaceKindFilterRules(k, {labels})
       /\ s.image # workspace.image => enforceImageConfigFilterRule(k, ctx, s.image)
       /\ s.pod # workspace.pod => enforcePodConfigFilterRule(k, ctx, s.pod)

\* The Workspace is stored, whether or not the cached kind is the stored one.
StoreWorkspace(s) ==
    /\ workspace' = s
    /\ raced' = (raced \/ (s # workspace /\ known # OptionIds(kind)))
    /\ UNCHANGED <<kind, labels, seen, known, used>>

CreateWorkspace(s) ==
    /\ workspace = NoWorkspace /\ kind # NoKind
    /\ createAllowed(kind, s)
    /\ webhookAcceptsCreate(s)
    /\ StoreWorkspace(s)

UpdateWorkspace(s) ==
    /\ workspace # NoWorkspace /\ kind # NoKind
    /\ updateAllowed(kind, s)
    /\ webhookAcceptsUpdate(s)
    /\ StoreWorkspace(s)

\* With kubectl: the filter rules are the backend's.
ApplyWorkspace(s) ==
    /\ \/ workspace = NoWorkspace /\ webhookAcceptsCreate(s)
       \/ workspace # NoWorkspace /\ webhookAcceptsUpdate(s)
    /\ StoreWorkspace(s)

DeleteWorkspace ==
    /\ workspace # NoWorkspace
    /\ workspace' = NoWorkspace
    /\ UNCHANGED <<kind, labels, seen, known, used, raced>>

Next ==
    \/ \E new \in Kinds : CreateKind(new) \/ UpdateKind(new)
    \/ DeleteKind
    \/ PublishUse
    \/ \E new \in Labelings : RelabelNamespace(new)
    \/ Observe
    \/ ObserveKind
    \/ \E s \in Selections : CreateWorkspace(s) \/ UpdateWorkspace(s) \/ ApplyWorkspace(s)
    \/ DeleteWorkspace

Spec == Init /\ [][Next]_vars
-----------------------------------------------------------------------------
(***************************************************************************)
(* Properties.                                                             *)
(***************************************************************************)
\* However it came about by updates, each of which ValidateUpdate checked only
\* in part, the stored kind would pass all of ValidateCreate.
StoredKindValid == kind # NoKind => ValidateCreate(kind)

\* What the webhook admits the controller can work with: every option of the
\* stored kind leads along its redirects to one that exists, Kubernetes objects
\* can be generated for every selection, and the pause rule can be evaluated.
StoredKindUsable ==
    kind # NoKind =>
        /\ \A i \in DOMAIN kind.images : ConfigResolves(kind.images, i)
        /\ \A p \in DOMAIN kind.pods : ConfigResolves(kind.pods, p)
        /\ \A i \in DOMAIN kind.images, p \in DOMAIN kind.pods : Generates(kind, i, p)
        /\ \A p \in DOMAIN kind.pods :
              ~PauseRuleFails(kind.activityRules, labels, kind.pods[p].labels)

\* Unless a write was admitted on outdated knowledge of the other object - a
\* kind updated on an older Workspace, deleted while the published use did not
\* include the Workspace, or a Workspace selecting options of an older kind -
\* the stored Workspace has a kind and its options resolve in it: the checks of
\* the two webhooks, each of its own object, and the published use add up.
UsedOptionsResolve ==
    workspace # NoWorkspace /\ ~raced =>
        /\ kind # NoKind
        /\ ConfigResolves(kind.images, workspace.image)
        /\ ConfigResolves(kind.pods, workspace.pod)

\* A selection is offered when the list of kinds and the list of option values,
\* asked with this namespace and these options, show it without a restriction.
Offered(s) ==
    LET values == ListPodTemplateOptionsValues(kind, {labels}, {s.image}, {s.pod})
    IN /\ ListedKind(kind, {labels}) /\ ~DeniedKind(kind, {labels})
       /\ s.image \in DOMAIN values.images /\ ~values.images[s.image]
       /\ s.pod \in DOMAIN values.pods /\ ~values.pods[s.pod]

\* What the read endpoints offer to a user is what creating a Workspace then
\* accepts, and nothing else: they evaluate the rules along different paths.
OfferedIsAccepted ==
    kind # NoKind =>
        \A i \in DOMAIN kind.images, p \in DOMAIN kind.pods :
            LET s == [image |-> i, pod |-> p]
            IN Offered(s) <=> createAllowed(kind, s)

\* `deny`: "reject any workspace create/update which selects it".  An update of
\* a Workspace whose options the rules allow does not leave it with options
\* that they deny.
UpdateSelectsAllowed ==
    [][\A s \in Selections :
          UpdateWorkspace(s) /\ createAllowed(kind, workspace) => createAllowed(kind, s)]_vars
=============================================================================
