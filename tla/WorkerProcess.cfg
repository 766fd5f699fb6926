SPECIFICATION ProcessSpec
CONSTANTS
    Workers = {w1, w2}
    NoWorker = NoWorker
    NoTime = NoTime
    Questions = {1, 2, 3}
    MaxAttempts = 2
    LeaseFor = 1
    BackoffBase = 1
    BackoffCap = 1
    MaxLag = 0
    IsManaged = TRUE
    Quantum = 2
    Concurrency = 2
    DeferFor = 1
    MaxSignals = 1
    MaxRetries = 1
    EventLimit = 6
    WireLimit = 24
    TextLimit = 2
    MaxWireEvents = 3
    Generations = {g1}
    Activities = {w1, w2}
    MaxProgressTime = 3
SYMMETRY Symmetry
CHECK_DEADLOCK FALSE
INVARIANTS
    RunnerInv
    NoRepeatedQuestion
    QuantumRespected
    AnswersWhatWasSaid
    StreamInv
    ProgressInv
PROPERTIES
    NoAnswerAfterCancel
