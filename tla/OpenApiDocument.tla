--------------------------- MODULE OpenApiDocument ---------------------------
(***************************************************************************)
(* The statuses the OpenAPI document of the backend gives for each         *)
(* operation, under its operationId: what a client generated from the      *)
(* document (the frontend's is) expects.                                   *)
(***************************************************************************)
EXTENDS Integers

\* GET /healthcheck
DocGetHealthcheck == {200, 500}

\* GET /namespaces
DocListNamespaces == {200, 401, 403, 500}

\* GET /persistentvolumeclaims/{namespace}
DocListPVCs == {200, 401, 403, 422, 500}

\* POST /persistentvolumeclaims/{namespace}
DocCreatePVC == {201, 400, 401, 403, 409, 413, 415, 422, 500}

\* DELETE /persistentvolumeclaims/{namespace}/{name}
DocDeletePVC == {204, 401, 403, 404, 409, 422, 500}

\* GET /secrets/{namespace}
DocListSecrets == {200, 401, 403, 422, 500}

\* POST /secrets/{namespace}
DocCreateSecret == {201, 400, 401, 403, 409, 413, 415, 422, 500}

\* GET /secrets/{namespace}/{name}
DocGetSecret == {200, 401, 403, 404, 422, 500}

\* PUT /secrets/{namespace}/{name}
DocUpdateSecret == {200, 400, 401, 403, 404, 409, 413, 415, 422, 500}

\* DELETE /secrets/{namespace}/{name}
DocDeleteSecret == {204, 401, 403, 404, 409, 422, 500}

\* GET /storageclasses
DocListStorageClasses == {200, 401, 403, 422, 500}

\* GET /workspacekinds
DocListWorkspaceKinds == {200, 401, 403, 422, 500}

\* POST /workspacekinds
DocCreateWorkspaceKind == {201, 400, 401, 403, 409, 413, 415, 422, 500}

\* GET /workspacekinds/{name}
DocGetWorkspaceKind == {200, 401, 403, 404, 422, 500}

\* PUT /workspacekinds/{name}
DocUpdateWorkspaceKind == {200, 400, 401, 403, 404, 409, 413, 415, 422, 500}

\* DELETE /workspacekinds/{name}
DocDeleteWorkspaceKind == {204, 401, 403, 404, 409, 422, 500}

\* GET /workspacekinds/{name}/assets/icon
DocGetWorkspaceKindIcon == {200, 401, 403, 404, 422, 500}

\* GET /workspacekinds/{name}/assets/logo
DocGetWorkspaceKindLogo == {200, 401, 403, 404, 422, 500}

\* POST /workspacekinds/{name}/podtemplate/options/listvalues
DocPodTemplateOptionsListValues == {200, 400, 401, 403, 404, 413, 415, 422, 500}

\* GET /workspaces
DocListAllWorkspaces == {200, 401, 403, 500}

\* GET /workspaces/{namespace}
DocListWorkspacesByNamespace == {200, 401, 403, 422, 500}

\* POST /workspaces/{namespace}
DocCreateWorkspace == {201, 400, 401, 403, 409, 413, 415, 422, 500}

\* GET /workspaces/{namespace}/{name}
DocGetWorkspace == {200, 401, 403, 404, 422, 500}

\* PUT /workspaces/{namespace}/{name}
DocUpdateWorkspace == {200, 400, 401, 403, 404, 409, 413, 415, 422, 500}

\* DELETE /workspaces/{namespace}/{name}
DocDeleteWorkspace == {204, 401, 403, 404, 409, 422, 500}

\* POST /workspaces/{namespace}/{name}/actions/pause
DocUpdateWorkspacePauseState == {200, 400, 401, 403, 404, 409, 413, 415, 422, 500}

\* GET /workspaces/{namespace}/{name}/podtemplate/details
DocGetWorkspacePodTemplateDetails == {200, 401, 403, 404, 422, 500}

\* GET /workspaces/{namespace}/{name}/podtemplate/logs/batch
DocGetWorkspacePodTemplateLogsBatch == {200, 400, 401, 403, 404, 422, 500}

\* GET /workspaces/{namespace}/{name}/podtemplate/resources
DocGetWorkspacePodTemplateResources == {200, 400, 401, 403, 404, 422, 500}

Documented == [
    getHealthcheck                   |-> DocGetHealthcheck,
    listNamespaces                   |-> DocListNamespaces,
    listPVCs                         |-> DocListPVCs,
    createPVC                        |-> DocCreatePVC,
    deletePVC                        |-> DocDeletePVC,
    listSecrets                      |-> DocListSecrets,
    createSecret                     |-> DocCreateSecret,
    getSecret                        |-> DocGetSecret,
    updateSecret                     |-> DocUpdateSecret,
    deleteSecret                     |-> DocDeleteSecret,
    listStorageClasses               |-> DocListStorageClasses,
    listWorkspaceKinds               |-> DocListWorkspaceKinds,
    createWorkspaceKind              |-> DocCreateWorkspaceKind,
    getWorkspaceKind                 |-> DocGetWorkspaceKind,
    updateWorkspaceKind              |-> DocUpdateWorkspaceKind,
    deleteWorkspaceKind              |-> DocDeleteWorkspaceKind,
    getWorkspaceKindIcon             |-> DocGetWorkspaceKindIcon,
    getWorkspaceKindLogo             |-> DocGetWorkspaceKindLogo,
    podTemplateOptionsListValues     |-> DocPodTemplateOptionsListValues,
    listAllWorkspaces                |-> DocListAllWorkspaces,
    listWorkspacesByNamespace        |-> DocListWorkspacesByNamespace,
    createWorkspace                  |-> DocCreateWorkspace,
    getWorkspace                     |-> DocGetWorkspace,
    updateWorkspace                  |-> DocUpdateWorkspace,
    deleteWorkspace                  |-> DocDeleteWorkspace,
    updateWorkspacePauseState        |-> DocUpdateWorkspacePauseState,
    getWorkspacePodTemplateDetails   |-> DocGetWorkspacePodTemplateDetails,
    getWorkspacePodTemplateLogsBatch |-> DocGetWorkspacePodTemplateLogsBatch,
    getWorkspacePodTemplateResources |-> DocGetWorkspacePodTemplateResources]
=============================================================================
