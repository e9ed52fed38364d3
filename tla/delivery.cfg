SPECIFICATION Spec
CONSTANTS
    r1 = r1
    d1 = d1
    d2 = d2
    w1 = w1
    w2 = w2
    s1 = s1
    s2 = s2
    Runs = {r1}
    Dels = {d1}
    RunOf <- OneRun
    Final = {d1}
    Workers = {w1, w2}
    Sessions = {s1}
    Remote = {r1}
    MaxAttempts = 2
    MaxCrashes = 1
    MaxResends = 1
SYMMETRY WorkersAlike
INVARIANTS TypeOK HeldBack AskedFor
CHECK_DEADLOCK FALSE
