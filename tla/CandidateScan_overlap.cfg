SPECIFICATION FairSpec
CHECK_DEADLOCK FALSE
CONSTANTS
    s1 = s1
    s2 = s2
    m1 = m1
    None = None
    Scan = {s1, m1}
    Scheduled = {s1}
    Container = {k1, k2}
    Target = {t1}
    Eligible = {t1}
    MaxChanges = 0
    MaxPauses = 1
    MaxApprovals = 0
    MaxFaults = 1
    MaxCrashes = 1
INVARIANTS
    AgreeingScansConverge
PROPERTIES
    LockReleased
    ScanReported
