\* A delayed service, registered stopped, under reloads and a shutdown: enabled
\* and disabled while its start() is pending, so that a start-up delay is lost,
\* and the request of a reload reaches the supervisor.
SPECIFICATION FairSpec
CONSTANTS
    a = a
    b = b
    c = c
    t1 = t1
    t2 = t2
    NoTick = NoTick
    Services = {b}
    BootOrder <- OrderB
    Periodic = {b}
    Delayed = {b}
    Poked = {}
    BootDisabled = {b}
    TickIds = {t1, t2}
    ParkAfter = 2
    Signals = {"reload", "shutdown"}
    MaxReloads = 3
INVARIANTS
    TypeOK
    GuardHasOwner
    EdgesResumeIdle
    ParkedIsRetriedOnce
    StoppedIsQuiet
PROPERTY
    EdgesAct
CHECK_DEADLOCK FALSE
