SPECIFICATION Spec
CONSTANTS
    a = a
    b = b
    none = none
    e1 = e1
    e2 = e2
    Machines = {a, b}
    NoMachine = none
    Edits = {e1, e2}
    MaxFaults = 0
    Orderly = TRUE
SYMMETRY MachinesAlike
INVARIANT ContinuesWork
CHECK_DEADLOCK FALSE
