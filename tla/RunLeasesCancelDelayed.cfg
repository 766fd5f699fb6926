SPECIFICATION MCSpec
CONSTANTS
    Workers = {w1, w2}
    NoWorker = NoWorker
    NoTime = NoTime
    Questions = {q1, q2}
    MaxAttempts = 3
    LeaseFor = 2
    BackoffBase = 1
    BackoffCap = 2
    MaxLag = 1
    Runs = {r1}
    Managed = {r1}
    Deferrals = {1}
    MaxClaims = 5
    Together = Together
    PairClaims = 3
SYMMETRY Symmetry
INVARIANTS
    CancelAccepted
