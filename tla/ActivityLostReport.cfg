CONSTANTS
    ProbeInterval = 2
    MinProbeInterval = 1
    ProbeTimeout = 1
    SecondsSinceActive = 2
    MinRunningSeconds = 1
    Fields = {"has_activity"}
    Paces = {FALSE}
    Never = Never
    MaxTime = 6
    MaxSlowTime = 6
    MaxEdits = 1
    MaxDisturb = 0
    MaxLag = 1
    MaxFaults = 0
    MaxTotal = 1
SPECIFICATION Spec
PROPERTY ReportedActivityCounts
CHECK_DEADLOCK FALSE
