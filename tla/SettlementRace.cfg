SPECIFICATION Spec
CONSTANTS
    Requests = {r1, r2}
    Periods = {p1}
    Due = 2
    MaxEntries = 3
CHECK_DEADLOCK FALSE
INVARIANT DerivedNeverDisagrees
