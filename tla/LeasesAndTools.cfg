SPECIFICATION ToolsSpec
CONSTANTS
    Workers = {w1, w2}
    NoWorker = NoWorker
    NoTime = NoTime
    Questions = {k1, k2}
    MaxAttempts = 3
    LeaseFor = 2
    BackoffBase = 1
    BackoffCap = 2
    MaxLag = 1
    Runs = {r1, r2}
    Managed = {r1}
    Deferrals = {1}
    MaxClaims = 6
    Together = Together
    PairClaims = 3
    Operators = {w1, w2}
    Paths = {p1, p2}
    Keys = {k1, k2}
    Retention = 1
    ArchiveLimit = 2
    MaxEvents = 2
    MaxClock = 3
    Starters = {w1, w2}
    Attempts = 2
SYMMETRY ToolsSymmetry
CHECK_DEADLOCK FALSE
INVARIANTS
    TypeOK
    ConstraintsHold
    EvidenceFenced
    AnsweredOnce
    CompletedAnswersAll
    ReportMatchesEvidence
    AttemptsChargedOnce
    RetentionInv
    KeyringInv
PROPERTIES
    TerminalIsFinal
    LeaseNotStolen
    ImplementsLifecycle
    ExpiredNotRevived
    DeletesWholeArchives
