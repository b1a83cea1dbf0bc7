SPECIFICATION FairSpec
CONSTANTS
    Messages = {m1, m2}
    NoMessage = NoMessage
    Flushers = {f1, f2}
    NoFlusher = NoFlusher
    BatchLimit = 2
    HourlyLimit = 1
    MaxAttempts = 2
    MaxFaults = 1
    MaxPresses = 1
CHECK_DEADLOCK FALSE
INVARIANTS
    TypeOK
    CancelledStaysHere
    FaultsBoundCopies
    HourKeepsItsCap
PROPERTIES
    EveryMessageSettles
