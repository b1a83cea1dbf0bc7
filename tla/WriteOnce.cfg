SPECIFICATION FairSpec
CONSTANTS
    MaxCopies = 3
    MaxFaults = 1
    MaxAttempts = 2
INVARIANTS
    TypeOK
    OverlapsHaveACause
    ClaimInHand
    AnswersAreTrue
    EveryRepeatHasACause
PROPERTIES
    KeyComesFree
CHECK_DEADLOCK FALSE
