SPECIFICATION FairSpec
CONSTANTS
    Parties = 2
    Envelopes = 1
    Procs = {w1, w2}
    MaxFaults = 1
CHECK_DEADLOCK FALSE
INVARIANTS
    TypeOK
    OneSignature
    EmptyHandsNeedFaults
PROPERTIES
    CompletesOnceAnswered
    EveryEnvelopeSettles
