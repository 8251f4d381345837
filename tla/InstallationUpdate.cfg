SPECIFICATION Spec
CONSTANTS
    u1 = u1
    u2 = u2
    l1 = l1
    l2 = l2
    r1 = r1
    r2 = r2
    r3 = r3
    Updaters = {u1, u2}
    Launchers = {l1, l2}
    Releases = {r1, r2, r3}
    NumEntries = 2
    Gone = Gone
    None = None
    Free = Free
    Stale = Stale
    Transactional = TRUE
    MaxFaults = 2
SYMMETRY Symmetry
INVARIANT TypeOK
INVARIANT NoSwapUnderProcess
INVARIANT PolicySurvives
INVARIANT PinHonoured
INVARIANT RecordTellsTree
INVARIANT NothingErased
PROPERTY ImplementsRegister
