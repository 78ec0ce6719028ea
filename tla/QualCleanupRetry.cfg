SPECIFICATION Spec
CONSTANTS
    Procs = {p1}
    Sets = {s1}
    Cohorts = {c1}
    Caps = {k1, k2}
    Faults = {}
    MaxSource = 1
    Builds = {0, 1}
    Prior = Prior
    NoImage = NoImage
    NoCap = NoCap
    Absent = Absent
    Broken = Broken
SYMMETRY Symmetry
INVARIANTS CleanupCanBeRetried
CHECK_DEADLOCK FALSE
