CONSTANTS
    Options = {small, large}
    NoRevision = NoRevision
    MaxEdits = 2
    MaxLag = 1
    MaxMishaps = 2
    MaxTotal = 2
SPECIFICATION MCLiveSpec
PROPERTY Convergence WarningReported
