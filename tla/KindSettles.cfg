CONSTANTS
    Names = {w1}
    Options = {a, b}
    Default = a
    MaxOps = 4
    MaxLag = 1
    MaxFaults = 1
SPECIFICATION LiveSpec
INVARIANTS TypeOK CountedWorkspaceKeepsKind
PROPERTIES CountersSettle BrokenReferenceReported
CHECK_DEADLOCK FALSE
