SPECIFICATION Spec
CONSTANTS
    u1 = u1
    u2 = u2
    l1 = l1
    l2 = l2
    r1 = r1
    r2 = r2
    r3 = r3
    Updaters = {u1}
    Launchers = {l1}
    Releases = {r1, r2, r3}
    NumEntries = 2
    Gone = Gone
    None = None
    Free = Free
    Stale = Stale
    Transactional = FALSE
    MaxFaults = 0
SYMMETRY Symmetry
PROPERTY LaunchesWhole
