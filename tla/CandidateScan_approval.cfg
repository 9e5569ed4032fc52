SPECIFICATION Spec
CHECK_DEADLOCK FALSE
CONSTANTS
    s1 = s1
    s2 = s2
    m1 = m1
    None = None
    Scan = {s1, s2}
    Scheduled = {s1, s2}
    Container = {k1}
    Target = {t1, t2}
    Eligible = {t1, t2}
    MaxChanges = 2
    MaxPauses = 0
    MaxApprovals = 1
    MaxFaults = 0
    MaxCrashes = 0
PROPERTIES
    ApprovalInvalidated
