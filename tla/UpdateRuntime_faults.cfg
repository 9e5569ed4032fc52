SPECIFICATION FairSpec
CHECK_DEADLOCK FALSE
CONSTANTS
    CurrentRef = "app:1"
    TargetRef = "app:2"
    OldImage = "id1"
    Images = {"id1", "id2", "id3"}
    MaxPolls = 2
    MaxRefusals = 2
    MaxLostReplies = 1
    MaxHealthChanges = 2
    MaxOperatorStops = 1
    MaxTagMoves = 1
    MaxEdits = 1
    MayCrash = TRUE
INVARIANTS
    TypeOK
    OldRemovedOnlyForVerified
    NeverBothUp
    SomeContainerKept
    RollbackFailureExplained
    RollbackHonest
    SuccessConsistent
    MutationRecoverable
    RefusalTouchesNothing
    StoppedLeftAlone
PROPERTIES
    Terminates
    LifecycleSpec
