SPECIFICATION Spec
CONSTANTS
    NumEvents = 2
    Registry <- MoneyFlows
    Workers = {w1, w2}
    NoWorker = NoWorker
    MaxAttempts = 3
    Limit = 2
    MaxCrashes = 2
    MaxStalls = 0
INVARIANTS
    TypeOK
    NothingFromUncommitted
PROPERTIES
    ImplementsContract
