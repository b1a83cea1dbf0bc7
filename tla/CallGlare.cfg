SPECIFICATION Spec
CONSTANTS
    Users = {a, b, c}
    Calls = {c1, c2, c3}
    MaxFaults = 0
    MaxAsks = 1
INVARIANTS OneActiveCall
CHECK_DEADLOCK FALSE
