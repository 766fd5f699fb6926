SPECIFICATION LockSpec
CONSTANTS
    r1 = r1  r2 = r2  q1 = q1  q2 = q2
    Sessions = {s1, s2}
    Runs = {r1}
    Questions = {q1, q2}
    RunOf <- BothOne
    Kinds = {"context", "reserve", "new_generation", "reap"}
SYMMETRY Symmetry
INVARIANTS
    NoCircularWait
