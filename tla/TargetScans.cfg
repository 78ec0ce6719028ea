SPECIFICATION Spec
CONSTANTS
    p1 = p1
    p2 = p2
    n1 = n1
    Procs = {p1, p2}
    Names = {n1}
    Authorized = 1
    Reviewed = {0, 1}
    Databases = {1, 2}
    CapacityAge = 0
    PreflightAge = 1
    MaxTime = 1
    MaxChanges = 2
    MaxPreflights = 1
    MaxRuns = 2
    Nothing = Nothing
SYMMETRY Symmetry
INVARIANTS TypeOK HistoryAccepts 
PROPERTIES ImplementsRelease
CHECK_DEADLOCK FALSE
