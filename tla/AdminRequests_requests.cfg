SPECIFICATION Spec
CHECK_DEADLOCK FALSE
CONSTANTS
    PolicyOrder <- MCPolicyOrder
    OtherOwned = {"risk"}
    ForeignKey = {"traefik"}
    Value <- MCValue
    Token = {"--cap-add"}
    Req = {q1, q2}
    Form <- MCForm
    Template <- MCTemplate
    EvidenceRoot = TRUE
    MaxEdits = 1
    MaxFaults = 1
    MaxCrashes = 1
SYMMETRY Symmetry
INVARIANTS
    TypeOK
    ChainWithoutOverlap
    AuditHonest
    TrailTellsState
PROPERTIES
    SaveExact
