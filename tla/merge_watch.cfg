SPECIFICATION Spec
CONSTANTS
    w1 = w1
    w2 = w2
    Pollers = {w1, w2}
    FixMax = 0
    ConflictMax = 1
    MaxHead = 1
    MaxFaults = 1
    MaxMessages = 1
SYMMETRY PollersAlike
INVARIANTS TypeOK FounderKnows LandedIsMerged
CHECK_DEADLOCK FALSE
