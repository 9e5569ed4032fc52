SPECIFICATION Spec
CHECK_DEADLOCK FALSE
CONSTANTS
    k1 = k1
    Req = {r1, r2, r3}
    Cand = {c1, c2}
    Container = {k1}
    ContainerOf <- OneContainer
    Owner <- OneActor
    LeaseTicks = 1
    ApprovalTicks = 2
    AllowOverrun = FALSE
    MaxLive = 1
    MaxDecisions = 1
    MaxPauses = 0
    MaxScans = 0
    MaxFaults = 0
    MaxCrashes = 1
SYMMETRY Symmetry
INVARIANTS
    TypeOK
    ExclusiveMutation
    OneRunningPerCandidate
    OutcomeRecorded
