SPECIFICATION FairSpec
CONSTANTS
    r1 = r1
    d1 = d1
    d2 = d2
    w1 = w1
    w2 = w2
    s1 = s1
    s2 = s2
    Runs = {r1}
    Dels = {d1, d2}
    RunOf <- OneRun
    Final = {d2}
    Workers = {w1}
    Sessions = {s1}
    Remote = {r1}
    MaxAttempts = 2
    MaxCrashes = 0
    MaxResends = 0
PROPERTIES EventsDrain DeliveredShips
CHECK_DEADLOCK FALSE
