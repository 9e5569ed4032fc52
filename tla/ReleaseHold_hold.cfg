SPECIFICATION Spec
CHECK_DEADLOCK FALSE
CONSTANTS
    Tag <- MCTag
    FirstTag <- MCFirstTag
    Policy <- MCPolicy
    Hold <- MCHold
    Soak <- MCSoak
    RowSoak = {0, 1}
    None = None
    MaxDay = 3
INVARIANTS
    TypeOK
    HoldRespected
    ReadyIsEligible
PROPERTIES
    NewTargetHoldsLonger
