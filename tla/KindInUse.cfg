CONSTANTS
    Names = {w1}
    Options = {a, b}
    Default = a
    MaxOps = 2
    MaxLag = 1
    MaxFaults = 0
SPECIFICATION Spec
INVARIANT KindInUseIsKept
CHECK_DEADLOCK FALSE
