SPECIFICATION FairSpec
CONSTANTS
    Requests = {r1, r2}
    Conns = {c1, c2}
    None = None
    MaxCalls = 2
    MaxDepth = 2
    MaxAborts = 1
INVARIANTS
    TypeOK
    RunsWhereAsked
    ConnectionsAccountedFor
PROPERTIES
    PoolRefills
CHECK_DEADLOCK FALSE
