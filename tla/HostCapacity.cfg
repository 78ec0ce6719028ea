SPECIFICATION Spec
CONSTANTS
    MinInterval = 1
    MaxAge = 1
    MinAvailable = 1
    Rounding = 4
    Samples <- MCSamples
    Steps <- MCSteps
    MaxTime = 3
    MaxSteps = 2
    None = None
INVARIANTS TypeOK ReadyIffValid ReadyObservedTwice AdmittedFresh
CHECK_DEADLOCK FALSE
