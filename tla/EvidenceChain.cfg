SPECIFICATION Spec
CONSTANTS
    Trees = {1, 2, 3}
    Files <- MCFiles
    Boundary = {"boundary"}
    Results = {r1, r2}
    Regular = {r1, r2}
    CapacityAge = 0
    MaxTime = 1
    MaxEdits = 2
    MaxSwaps = 2
    MaxPreflights = 1
    MaxTriages = 1
    RollbackAge = 1
    ApprovalAge = 1
    AuthorizationAge = 1
    MaxDeployments = 1
    Nothing = Nothing
CONSTRAINTS OneProduct ReviewRests
SYMMETRY ResultSymmetry
INVARIANTS TypeOK AcceptedDescribesOne  PolicyFromOneTree AttemptEvidenced DeployedWasReviewed
CHECK_DEADLOCK FALSE
