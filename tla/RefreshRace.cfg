SPECIFICATION Spec
CONSTANTS
    p1 = p1
    p2 = p2
    n1 = n1
    t1 = t1
    Procs = {p1, p2}
    Names = {n1}
    Targets = {t1}
    ServerCount = 1
    Trees <- MCCodeTrees
    MaskedBy <- MCNobody
    BlockedBy <- MCNobody
    Lifetime = 1
    ApprovalTTL = 1
    MaxTime = 1
    FixtureModes = {TRUE, FALSE}
    NoScan = NoScan
    Nothing = Nothing
CONSTRAINTS RegistryRests
SYMMETRY Symmetry
PROPERTIES ImplementsRelease
CHECK_DEADLOCK FALSE
