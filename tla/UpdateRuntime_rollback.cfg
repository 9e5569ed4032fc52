SPECIFICATION Spec
CHECK_DEADLOCK FALSE
CONSTANTS
    CurrentRef = "app:1"
    TargetRef = "app:2"
    OldImage = "id1"
    Images = {"id1", "id2", "id3"}
    MaxPolls = 1
    MaxRefusals = 1
    MaxLostReplies = 0
    MaxHealthChanges = 0
    MaxOperatorStops = 0
    MaxTagMoves = 0
    MaxEdits = 0
    MayCrash = FALSE
INVARIANTS
    RollbackRestores
