CONSTANTS
    ProbeInterval = 1
    MinProbeInterval = 1
    ProbeTimeout = 1
    SecondsSinceActive = 2
    MinRunningSeconds = 1
    Fields = {"last_activity"}
    Paces = {FALSE, TRUE}
    Never = Never
    MaxTime = 12
    MaxSlowTime = 4
    MaxEdits = 2
    MaxDisturb = 0
    MaxLag = 1
    MaxFaults = 1
    MaxTotal = 2
SPECIFICATION Spec
INVARIANTS TypeOK PausedInTime
PROPERTIES PauseKeepsEdits PauseConfirmedIdle
CHECK_DEADLOCK FALSE
