CONSTANTS
    Options = {small, large}
    NoRevision = NoRevision
    MaxEdits = 2
    MaxLag = 3
    MaxMishaps = 0
    MaxTotal = 2
SPECIFICATION Spec
INVARIANT TypeOK
PROPERTIES DeletesOnlyOutdatedPod RunningReportsCurrentPod
