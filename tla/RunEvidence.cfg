SPECIFICATION EvidenceSpec
CONSTANTS
    r1 = r1  r2 = r2  q1 = q1  q2 = q2
    global = global  run1 = run1  run2 = run2
    NoLimit = NoLimit
    Runs = {r1, r2}
    Questions = {q1, q2}
    RunOf <- EachItsOwn
    Scopes = {global, run1, run2}
    ScopesOf <- MCScopesOf
    Concurrency <- TwoAtATime
    PerMinute <- TwoAtATime
    TokensPerMinute <- ThreeTokens
    Lifetime <- ThreeEver
    TokenBudget <- FiveTokens
    Reservation = 2
    Usages = {1, 3}
    MaxProviderAttempts = 2
    ClockLag = TRUE
    MaxToken = 2
    MaxMinute = 1
    ViewRuns = {"ra", "rb"}
    Total <- MCTotal
    BlockSize = 2
CHECK_DEADLOCK FALSE
INVARIANTS
    LedgerInv
    LimitsHold
    AttemptsInv
    ViewInv
PROPERTIES
    LedgerOneWay
    EndedRunReconciles
