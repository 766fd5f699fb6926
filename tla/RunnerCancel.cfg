SPECIFICATION FairSpec
CONSTANTS
    Workers = {w1, w2}
    NoWorker = NoWorker
    NoTime = NoTime
    Questions = {1, 2}
    MaxAttempts = 2
    LeaseFor = 1
    BackoffBase = 1
    BackoffCap = 1
    MaxLag = 0
    IsManaged = TRUE
    Quantum = 1
    Concurrency = 1
    DeferFor = 1
    MaxSignals = 1
PROPERTIES
    CancelConverges
