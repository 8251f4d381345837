SPECIFICATION FairSpec
CONSTANTS
    w = w
    c = c
    Teammates <- Pair
    After <- Chain
    Watchers = {w}
    Clis = {c}
    Results = {"ok"}
    MaxEvents = 2
INVARIANTS
    CompletedIsEarned
    DepsFirst
    StopFinds
PROPERTIES
    TerminalLatch
    WatchDrains
CHECK_DEADLOCK FALSE
