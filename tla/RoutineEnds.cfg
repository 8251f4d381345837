SPECIFICATION FairSpec
CONSTANTS
    a1 = a1
    a2 = a2
    Attempts = {a1}
    NumSlots = 1
    ChainLength = 2
    Reapers = {"daemon", "cli"}
    MaxFaults = 2
    Free = Free
    None = None
PROPERTY RunsEnd
CHECK_DEADLOCK FALSE
