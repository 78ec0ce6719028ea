SPECIFICATION Spec
CONSTANTS
    u1 = u1
    u2 = u2
    good = good
    bad = bad
    p1 = p1
    ka = ka
    kb = kb
    kc = kc
    Consumers = {u1, u2}
    Roots <- MCRoots
    FirstRoots <- MCFirstRoots
    SignerSets <- MCSignerSets
    Snapshots = {good, bad}
    WellFormed = {good}
    MaxPublication = 3
    MaxTime = 1
    Windows <- MCWindows
    NoRoot = NoRoot
SYMMETRY Symmetry
INVARIANTS ReplayIdempotent
CHECK_DEADLOCK FALSE
