SPECIFICATION Spec
CONSTANTS
    a1 = a1
    a2 = a2
    Attempts = {a1, a2}
    NumSlots = 1
    ChainLength = 2
    Reapers = {"daemon"}
    MaxFaults = 1
    Free = Free
    None = None
SYMMETRY Symmetry
VIEW SafetyView
INVARIANT TypeOK
INVARIANT OncePerSlot
INVARIANT NoOverlap
INVARIANT EndsOnRecord
CHECK_DEADLOCK FALSE
