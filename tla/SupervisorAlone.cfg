\* A periodic, a delayed and a lifecycle-only service, and a shutdown in any state:
\* nothing that hangs hangs the daemon.
SPECIFICATION FairSpec
CONSTANTS
    a = a
    b = b
    c = c
    t1 = t1
    t2 = t2
    NoTick = NoTick
    Services = {a, b, c}
    BootOrder <- OrderABC
    Periodic = {a, b}
    Delayed = {b}
    Poked = {a}
    BootDisabled = {}
    TickIds = {t1, t2}
    ParkAfter = 1
    Signals = {"shutdown"}
    MaxReloads = 0
INVARIANTS
    OneRecovery
    OneInterval
    StoppedIsQuiet
PROPERTIES
    GuardReleased
    ShutdownCompletes
    BootCompletes
CHECK_DEADLOCK FALSE
