SPECIFICATION Spec
CONSTANTS
    Runs = {r1}
    p1 = p1
    p2 = p2
    m1 = m1
    m2 = m2
    Procs = {p1, p2}
    Slots = {k1}
    Sessions = {s1}
    MachineOf <- TwoMachines
    NoProc = NoProc
    NoMachine = NoMachine
    MaxFailures = 2
    MaxRounds = 1
    MaxReopens = 1
    Offered <- AllOps
    ReopenWaits = TRUE
    ShortSessions = TRUE
    LeaseHolds = TRUE
INVARIANTS TypeOK SingleDrive NoStranded FailureBound
PROPERTIES KeepsTable CancelSticks
