SPECIFICATION FairSpec
CHECK_DEADLOCK FALSE
CONSTANTS
    k1 = k1
    Req = {r1, r2}
    Cand = {c1}
    Container = {k1}
    ContainerOf <- OneContainer
    Owner <- OneActor
    LeaseTicks = 1
    ApprovalTicks = 1
    AllowOverrun = TRUE
    MaxLive = 2
    MaxDecisions = 1
    MaxPauses = 2
    MaxScans = 1
    MaxFaults = 1
    MaxCrashes = 1
INVARIANTS
    AppliedOnce
    ReplayHonest
PROPERTIES
    RequestReturns
    LeaseEnds
    AtMostOnceSpec
