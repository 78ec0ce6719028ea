SPECIFICATION Spec
CONSTANTS
    p1 = p1
    n1 = n1
    t1 = t1
    p2 = p2
    Procs = {p1}
    Names = {n1}
    Targets = {t1}
    ServerCount = 2
    Trees <- MCTrees
    MaskedBy <- MCMaskedBy
    BlockedBy <- MCBlockedBy
    Lifetime = 2
    ApprovalTTL = 1
    MaxTime = 3
    FixtureModes = {FALSE}
    NoScan = NoScan
    Nothing = Nothing
CONSTRAINTS SecondRests
INVARIANTS TypeOK PublishedAsApproved PublishedGradesAreOwn  CandidateWithholds
CHECK_DEADLOCK FALSE
