CONSTANTS
    Kinds <- MCKinds
    Images <- MCImages
    Pods <- MCPods
    Labelings <- MCLabelings
    NoKind = NoKind
    NoWorkspace = NoWorkspace
SPECIFICATION Spec
PROPERTY UpdateSelectsAllowed
