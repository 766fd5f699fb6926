SPECIFICATION FairSpec
CONSTANTS
    w1 = w1  w2 = w2
    Workers = {w1, w2}
    Mortal = {w2}
    Runs = {r1}
    NoWorker = NoWorker
    NoRun = NoRun
    Garbage = Garbage
    MaxTries = 1
    MaxLength = 1
    HeartbeatErrors = {TRUE, FALSE}
    MaxMessages = 2
    MaxUnstable = 1
    MaxFaults = 1
INVARIANTS
    TypeOK
PROPERTIES
    DrainedNotAcked
    PendingDrains
    RunsFinish
