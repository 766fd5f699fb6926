SPECIFICATION SchedSpec
CONSTANTS
    SchedWorkers = {w1}
    SchedRuns = {r1, r2}
    Docs = {"p1", "p2"}
    DefaultDoc = "p1"
    BacklogLimit <- MCBacklog
    WindowLimit <- MCWindow
    RunQuestions = 3
    RunAttempts = 2
    CoarseClock = TRUE
    MaxCorrupt = 0
CHECK_DEADLOCK FALSE
INVARIANTS
    ServedAfterOneSliceEach
