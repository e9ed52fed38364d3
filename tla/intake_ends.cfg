SPECIFICATION FairSpec
CONSTANTS
    h1 = h1
    h2 = h2
    o1 = o1
    Hooks = {h1}
    Orders = {}
    LastWindow = 2
    Cap = 1
    Batch = 1
    MaxAgain = 1
    MaxFaults = 1
PROPERTIES EventsSettle WindowsFire
CHECK_DEADLOCK FALSE
