SPECIFICATION Spec
CHECK_DEADLOCK FALSE
CONSTANTS
    s1 = s1
    s2 = s2
    m1 = m1
    None = None
    Scan = {s1, s2}
    Scheduled = {s1, s2}
    Container = {k1}
    Target = {t1, t2}
    Eligible = {t1}
    MaxChanges = 1
    MaxPauses = 1
    MaxApprovals = 1
    MaxFaults = 1
    MaxCrashes = 1
SYMMETRY ScheduledSymmetry
INVARIANTS
    TypeOK
PROPERTIES
    ScanPublishes
