SPECIFICATION Spec
CONSTANTS
    a1 = a1
    a2 = a2
    Attempts = {a1, a2}
    NumSlots = 1
    ChainLength = 2
    Reapers = {}
    MaxFaults = 0
    Free = Free
    None = None
SYMMETRY Symmetry
INVARIANT ManualKeepsOut
CHECK_DEADLOCK FALSE
