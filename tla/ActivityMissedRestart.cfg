CONSTANTS
    ProbeInterval = 1
    MinProbeInterval = 1
    ProbeTimeout = 1
    SecondsSinceActive = 1
    MinRunningSeconds = 3
    Fields = {"last_activity"}
    Paces = {FALSE}
    Never = Never
    MaxTime = 6
    MaxSlowTime = 6
    MaxEdits = 0
    MaxDisturb = 1
    MaxLag = 1
    MaxFaults = 0
    MaxTotal = 1
SPECIFICATION Spec
PROPERTY PauseAfterMinRunning
CHECK_DEADLOCK FALSE
