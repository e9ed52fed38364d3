SPECIFICATION FairSpec
CONSTANTS
    w1 = w1
    w2 = w2
    Pollers = {w1}
    FixMax = 1
    ConflictMax = 2
    MaxHead = 2
    MaxFaults = 0
    MaxMessages = 0
PROPERTIES WatchEnds RunHears CancelLasts
CHECK_DEADLOCK FALSE
