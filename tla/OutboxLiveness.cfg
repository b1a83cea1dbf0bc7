SPECIFICATION FairSpec
CONSTANTS
    NumEvents = 2
    Registry <- MixedFlows
    Workers = {w1, w2}
    NoWorker = NoWorker
    MaxAttempts = 2
    Limit = 1
    MaxCrashes = 1
    MaxStalls = 1
INVARIANTS
    DoneMeansEffects
    AttemptsMatchStatus
    EveryRecordIsCaused
PROPERTIES
    EveryEventSettles
    DeadLettersAreReported
