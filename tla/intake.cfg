SPECIFICATION Spec
CONSTANTS
    h1 = h1
    h2 = h2
    o1 = o1
    Hooks = {h1, h2}
    Orders = {o1}
    LastWindow = 1
    Cap = 1
    Batch = 2
    MaxAgain = 1
    MaxFaults = 1
SYMMETRY HooksAlike
INVARIANTS TypeOK OneFate WithinCap
PROPERTY FateStays
CHECK_DEADLOCK FALSE
