----------------------------- MODULE ApiHandlers -----------------------------
(***************************************************************************)
(* The handlers of the backend's REST API, each as the sequence of stages  *)
(* its code goes through.  A stage that does not let the request pass      *)
(* writes the answer and returns: fails are the statuses it can write.     *)
(*                                                                         *)
(* The checks of a handler that follow each other are one stage.           *)
(***************************************************************************)
EXTENDS Integers, Sequences

\* NewResourcePolicy(): what a SubjectAccessReview asks for.  scope is the breadth of
\* ResourceMeta: one object, the objects of a namespace, or all.
Policy(verb, resource, scope) == [verb |-> verb, resource |-> resource, scope |-> scope]
NoPolicy == Policy("none", "none", "none")

Stage(does, policy, fails) == [does |-> does, policy |-> policy, fails |-> fails]
Check(fails) == Stage("check", NoPolicy, fails)

\* requireAuth(): who asks is not known (401), may not (403), or that cannot be found out.
RequireAuth(verb, resource, scope) == Stage("authorize", Policy(verb, resource, scope), {401, 403, 500})

\* The repository does this, or returns an error that the handler turns into a status.
\* It names the operation the handler is for; what else the repository reads for it (kinds,
\* namespaces, PersistentVolumeClaims, Pods) is left out.
Call(verb, resource, scope, fails) == Stage("call", Policy(verb, resource, scope), fails)

\* dataResponse(), createdResponse() and wskAssetResponse() answer 500 when they cannot
\* write the answer; deletedResponse() writes no body.
Answer(status) == Stage("answer", NoPolicy, {status, 500})
DeletedResponse == Stage("answer", NoPolicy, {204})

\* Path and query parameters are checked for their syntax.
ParamsInvalid == {422}

\* ValidateContentType(): no header or another media type (415), or no media type (400).
ValidateContentType == {400, 415}

\* DecodeJSON() through http.MaxBytesHandler, and what each handler makes of its errors.
DecodeJSON == {400, 413}

\* bodyEnvelope.Data == nil and, except for the pause action, Validate() of the model.
DataInvalid == {422}

JsonBody == Check(ValidateContentType \cup DecodeJSON \cup DataInvalid)
Params == Check(ParamsInvalid)

-----------------------------------------------------------------------------

GetHealthcheckHandler == <<Check({500}), Answer(200)>>

GetNamespacesHandler ==
    <<RequireAuth("list", "namespaces", "all"), Call("list", "namespaces", "all", {500}), Answer(200)>>

GetPVCsByNamespaceHandler ==
    <<Params, RequireAuth("list", "persistentvolumeclaims", "namespace"),
      Call("list", "persistentvolumeclaims", "namespace", {500}), Answer(200)>>

CreatePVCHandler ==
    <<Params, JsonBody, RequireAuth("create", "persistentvolumeclaims", "object"),
      Call("create", "persistentvolumeclaims", "object", {422, 409, 500}), Answer(201)>>

DeletePVCHandler ==
    <<Params, RequireAuth("delete", "persistentvolumeclaims", "object"),
      Call("delete", "persistentvolumeclaims", "object", {404, 403, 409, 500}), DeletedResponse>>

GetSecretsByNamespaceHandler ==
    <<Params, RequireAuth("list", "secrets", "namespace"),
      Call("list", "secrets", "namespace", {500}), Answer(200)>>

GetSecretHandler ==
    <<Params, RequireAuth("get", "secrets", "object"),
      Call("get", "secrets", "object", {404, 500}), Answer(200)>>

CreateSecretHandler ==
    <<Params, JsonBody, RequireAuth("create", "secrets", "object"),
      Call("create", "secrets", "object", {409, 422, 500}), Answer(201)>>

UpdateSecretHandler ==
    <<Params, RequireAuth("update", "secrets", "object"), JsonBody,
      Call("update", "secrets", "object", {404, 403, 422, 500}), Answer(200)>>

DeleteSecretHandler ==
    <<Params, RequireAuth("delete", "secrets", "object"),
      Call("delete", "secrets", "object", {404, 403, 409, 500}), DeletedResponse>>

\* With a namespace: what somebody who may create volumes there can choose from.
GetStorageClassesHandler(namespace) ==
    <<Params,
      IF namespace THEN RequireAuth("create", "persistentvolumeclaims", "namespace")
                   ELSE RequireAuth("list", "storageclasses", "all"),
      Call("list", "storageclasses", "all", {500}), Answer(200)>>

-----------------------------------------------------------------------------

GetWorkspaceHandler ==
    <<Params, RequireAuth("get", "workspaces", "object"),
      Call("get", "workspaces", "object", {404, 500}), Answer(200)>>

\* getWorkspacesHandler(): of one namespace, or of all.
GetAllWorkspacesHandler ==
    <<RequireAuth("list", "workspaces", "all"), Call("list", "workspaces", "all", {500}), Answer(200)>>

GetWorkspacesByNamespaceHandler ==
    <<Params, RequireAuth("list", "workspaces", "namespace"),
      Call("list", "workspaces", "namespace", {500}), Answer(200)>>

CreateWorkspaceHandler ==
    <<Params, JsonBody, RequireAuth("create", "workspaces", "object"),
      Call("create", "workspaces", "object", {403, 422, 409, 500}), Answer(201)>>

UpdateWorkspaceHandler ==
    <<Params, RequireAuth("update", "workspaces", "object"), JsonBody,
      Call("update", "workspaces", "object", {403, 404, 422, 409, 500}), Answer(200)>>

DeleteWorkspaceHandler ==
    <<Params, RequireAuth("delete", "workspaces", "object"),
      Call("delete", "workspaces", "object", {404, 409, 500}), DeletedResponse>>

\* MUTANT of PauseActionWorkspaceHandler: who may see a Workspace may pause it.
PauseActionByReader ==
    <<Params, JsonBody, RequireAuth("get", "workspaces", "object"),
      Call("patch", "workspaces", "object", {404, 409, 500}), Answer(200)>>

PauseActionWorkspaceHandler ==
    <<Params, JsonBody, RequireAuth("update", "workspaces", "object"),
      Call("patch", "workspaces", "object", {404, 409, 500}), Answer(200)>>

GetWorkspacePodTemplateDetailsHandler ==
    <<Params, RequireAuth("get", "workspaces", "object"),
      Call("get", "workspaces", "object", {404, 500}), Answer(200)>>

\* The answer is begun before the log is copied: an error then only ends it.
GetWorkspacePodTemplateLogsHandler ==
    <<Params, RequireAuth("get", "workspaces", "object"),
      Call("get", "pods", "object", {404, 400, 500}), Stage("answer", NoPolicy, {200})>>

\* MUTANT of GetWorkspacePodTemplateResourcesHandler: a Pod that does not run is a conflict.
ResourcesOfStoppedPodConflict ==
    <<Params, RequireAuth("get", "workspaces", "object"),
      Call("get", "pods", "object", {404, 409, 500}), Answer(200)>>

GetWorkspacePodTemplateResourcesHandler ==
    <<Params, RequireAuth("get", "workspaces", "object"),
      Call("get", "pods", "object", {404, 400, 500}), Answer(200)>>

-----------------------------------------------------------------------------

GetWorkspaceKindHandler ==
    <<Params, RequireAuth("get", "workspacekinds", "object"),
      Call("get", "workspacekinds", "object", {404, 500}), Answer(200)>>

\* namespaceFilter: for somebody who may create Workspaces there.
GetWorkspaceKindsHandler(namespace) ==
    <<Params,
      IF namespace THEN RequireAuth("create", "workspaces", "namespace")
                   ELSE RequireAuth("list", "workspacekinds", "all"),
      Call("list", "workspacekinds", "all", {422, 500}), Answer(200)>>

\* The body is YAML: read (413, 500), decoded strictly (422, 400), of the right type and name.
CreateWorkspaceKindHandler ==
    <<Check(ValidateContentType \cup {413, 500, 422, 400}),
      RequireAuth("create", "workspacekinds", "object"),
      Call("create", "workspacekinds", "object", {409, 422, 500}), Answer(201)>>

UpdateWorkspaceKindHandler ==
    <<Params, RequireAuth("update", "workspacekinds", "object"), JsonBody,
      Call("update", "workspacekinds", "object", {404, 422, 409, 500}), Answer(200)>>

DeleteWorkspaceKindHandler ==
    <<Params, RequireAuth("delete", "workspacekinds", "object"),
      Call("delete", "workspacekinds", "object", {404, 409, 500}), DeletedResponse>>

\* context.namespace: for somebody who may create Workspaces there.
PodTemplateOptionsListValuesHandler(namespace) ==
    <<Params, JsonBody,
      IF namespace THEN RequireAuth("create", "workspaces", "namespace")
                   ELSE RequireAuth("get", "workspacekinds", "object"),
      Call("get", "workspacekinds", "object", {404, 422, 500}), Answer(200)>>

\* getWorkspaceKindAssetHandler(), of icons and logos; with a namespace: for somebody who may
\* list Workspaces there.
GetWorkspaceKindAssetHandler(namespace) ==
    <<Params,
      IF namespace THEN RequireAuth("list", "workspaces", "namespace")
                   ELSE RequireAuth("get", "workspacekinds", "object"),
      Call("get", "workspacekinds", "object", {404, 500}), Answer(200)>>

-----------------------------------------------------------------------------

\* Routes(): the ways each operation can be handled.
Routes == [
    getHealthcheck                   |-> {GetHealthcheckHandler},
    listNamespaces                   |-> {GetNamespacesHandler},
    listPVCs                         |-> {GetPVCsByNamespaceHandler},
    createPVC                        |-> {CreatePVCHandler},
    deletePVC                        |-> {DeletePVCHandler},
    listSecrets                      |-> {GetSecretsByNamespaceHandler},
    getSecret                        |-> {GetSecretHandler},
    createSecret                     |-> {CreateSecretHandler},
    updateSecret                     |-> {UpdateSecretHandler},
    deleteSecret                     |-> {DeleteSecretHandler},
    listStorageClasses               |-> {GetStorageClassesHandler(n) : n \in BOOLEAN},
    getWorkspace                     |-> {GetWorkspaceHandler},
    listAllWorkspaces                |-> {GetAllWorkspacesHandler},
    listWorkspacesByNamespace        |-> {GetWorkspacesByNamespaceHandler},
    createWorkspace                  |-> {CreateWorkspaceHandler},
    updateWorkspace                  |-> {UpdateWorkspaceHandler},
    deleteWorkspace                  |-> {DeleteWorkspaceHandler},
    updateWorkspacePauseState        |-> {PauseActionWorkspaceHandler},
    getWorkspacePodTemplateDetails   |-> {GetWorkspacePodTemplateDetailsHandler},
    getWorkspacePodTemplateLogsBatch |-> {GetWorkspacePodTemplateLogsHandler},
    getWorkspacePodTemplateResources |-> {GetWorkspacePodTemplateResourcesHandler},
    getWorkspaceKind                 |-> {GetWorkspaceKindHandler},
    listWorkspaceKinds               |-> {GetWorkspaceKindsHandler(n) : n \in BOOLEAN},
    createWorkspaceKind              |-> {CreateWorkspaceKindHandler},
    updateWorkspaceKind              |-> {UpdateWorkspaceKindHandler},
    deleteWorkspaceKind              |-> {DeleteWorkspaceKindHandler},
    podTemplateOptionsListValues     |-> {PodTemplateOptionsListValuesHandler(n) : n \in BOOLEAN},
    getWorkspaceKindIcon             |-> {GetWorkspaceKindAssetHandler(n) : n \in BOOLEAN},
    getWorkspaceKindLogo             |-> {GetWorkspaceKindAssetHandler(n) : n \in BOOLEAN}]

Operations == DOMAIN Routes
=============================================================================
