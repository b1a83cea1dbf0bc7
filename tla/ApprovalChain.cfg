SPECIFICATION FairSpec
CONSTANTS
    Users = {"buyer", "ceo"}
    NoUser = "nobody"
    Steps <- TwoSteps
    KindOf <- TwoKinds
    Bands <- TwoBands
    Eligible <- TwoGrants
    Amounts = {3, Unknown}
    Unknown = Unknown
    Sessions = {r1, r2}
    MaxTasks = 2
    MaxFaults = 1
    MaxEdits = 1
INVARIANTS
    TypeOK
    NoStepSkipped
PROPERTIES
    ChainApprovesComplete
    ClearedChainMovesOn
CHECK_DEADLOCK FALSE
