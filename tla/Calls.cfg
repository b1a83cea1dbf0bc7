SPECIFICATION FairSpec
CONSTANTS
    Users = {a, b}
    Calls = {c1, c2}
    MaxFaults = 1
    MaxAsks = 2
INVARIANTS TypeOK UnclockedNeedFaults
PROPERTIES EndsOnce EveryCallEnds
CHECK_DEADLOCK FALSE
