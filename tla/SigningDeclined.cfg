SPECIFICATION Spec
CONSTANTS
    Parties = 2
    Envelopes = 0
    Procs = {w1, w2}
    MaxFaults = 0
CHECK_DEADLOCK FALSE
INVARIANTS
    CertificateMeansSigned
