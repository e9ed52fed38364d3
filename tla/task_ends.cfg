SPECIFICATION FairSpec
CONSTANTS
    t1 = t1
    w1 = w1
    Tasks = {t1}
    Commands = {}
    Workers = {w1}
    NoWorker = NoWorker
    Pin <- Pinned
    Cap = 1
    MaxParallel = 2
    Faults <- UnstoppedFaults
INVARIANTS ExecutedOnce OneAtATime LeftClosed CancelObeyed
PROPERTIES CallsEnd SlotsFree
CHECK_DEADLOCK FALSE
