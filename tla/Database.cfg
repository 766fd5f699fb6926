SPECIFICATION DatabaseSpec
CONSTANTS
    Backups = 2
    Importers = {a1, a2}
    Calls = {c1}
    StaleAfter = 1
    MaxNow = 2
    MaxSourceWrites = 3
    MaxTargetWrites = 1
    ModelIds = {m1}
    RunIds = {r1}
    Clients = {a1, a2}
    Urls = {"https://a/1", "https://a/2", "https://b/1"}
    OriginOf <- MCOriginOf
    KeyIds = {"k1", "k2"}
    MaxSecrets = 2
    MaxRotations = 1
    SchedWorkers = {a1, a2}
    SchedRuns = {r1, r2}
    Docs = {"p1", "p2"}
    DefaultDoc = "p1"
    BacklogLimit <- MCBacklog
    WindowLimit <- MCWindow
    RunQuestions = 2
    RunAttempts = 2
    CoarseClock = FALSE
    MaxCorrupt = 1
    r1 = r1  r2 = r2  q1 = q1  q2 = q2
    Sessions = {a1, a2, a3}
    Runs = {r1, r2}
    Questions = {q1, q2}
    RunOf <- EachItsOwn
    Kinds = {"reserve", "mark", "finish", "reconcile", "renew", "run_only", "create_run", "apply_policy", "model"}
SYMMETRY DatabaseSymmetry
CHECK_DEADLOCK FALSE
INVARIANTS
    MigrationInv
    ImportInv
    CredentialInv
    BoundedBypass
    ServiceInv
    NoCircularWait
PROPERTIES
    AdmittedWithinLimit
