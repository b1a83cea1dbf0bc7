SPECIFICATION Spec
CONSTANTS
    Requests = {r1, r2, r3}
    Periods = {p1, p2}
    Due = 2
    MaxEntries = 4
SYMMETRY Symmetry
CHECK_DEADLOCK FALSE
INVARIANTS
    TypeOK
    OneSequenceKeepsTheSum
    OverpaidBySplitOnly
    SerialBooks
