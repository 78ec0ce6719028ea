SPECIFICATION Spec
CONSTANTS
    Procs = {p1, p2}
    Sets = {s1, s2}
    Cohorts = {c1}
    Caps = {k1, k2}
    Faults = {"crash", "torn"}
    MaxSource = 0
    Builds = {0, 1}
    Prior = Prior
    NoImage = NoImage
    NoCap = NoCap
    Absent = Absent
    Broken = Broken
SYMMETRY Symmetry
INVARIANTS TypeOK OneOpenAttempt RefusalHasOrphan 
PROPERTIES FinalTagAuthorized
CHECK_DEADLOCK FALSE
