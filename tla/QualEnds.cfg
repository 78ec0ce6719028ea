SPECIFICATION FairSpec
CONSTANTS
    Procs = {p1}
    Sets = {s1}
    Cohorts = {c1}
    Caps = {k1, k2, k3}
    Faults = {"crash", "torn"}
    MaxSource = 1
    Builds = {0}
    Prior = Prior
    NoImage = NoImage
    NoCap = NoCap
    Absent = Absent
    Broken = Broken
INVARIANTS NoConflictingResolution ResidueHasIntent ReceiptBindsSource
PROPERTIES InvocationEnds
CHECK_DEADLOCK FALSE
