SPECIFICATION Spec
CONSTANTS
    t1 = t1
    w1 = w1
    Tasks = {t1}
    Commands = {}
    Workers = {w1}
    NoWorker = NoWorker
    Pin <- Unpinned
    Cap = 1
    MaxParallel = 1
    Faults <- OrderlyFaults
INVARIANTS TypeOK BookedOnce
PROPERTY KeepsOutcome
CHECK_DEADLOCK FALSE
