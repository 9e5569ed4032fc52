SPECIFICATION FairSpec
CONSTANTS
    None = None
    Version <- MCVersion
    Image <- MCImage
    Report <- MCReport
    LabelSet <- MCLabelSet
    Override <- MCOverride
    GateForm <- MCGateForm
    Word <- MCWord
    MaxChanges = 2
INVARIANTS
    TypeOK
    ReadyWithinBoundary
PROPERTIES
    LabelsAuthoritative
    SaveTakesEffect
    PolicyTakesEffect
