SPECIFICATION Spec
CONSTANTS
    r1 = r1  r2 = r2  q1 = q1  q2 = q2
    global = global  run1 = run1  run2 = run2
    NoLimit = NoLimit
    Runs = {r1}
    Questions = {q1, q2}
    RunOf <- OfOneRun
    Scopes = {global, run1}
    ScopesOf <- MCScopesOf
    Concurrency <- Free
    PerMinute <- Free
    TokensPerMinute <- Free
    Lifetime <- Free
    TokenBudget <- Free
    Reservation = 1
    Usages = {1}
    MaxProviderAttempts = 1
    ClockLag = TRUE
    MaxToken = 1
    MaxMinute = 0
CHECK_DEADLOCK FALSE
INVARIANTS
    ReconcileNeverConflicts
