\* A park after the first backoff restart is never retried.
SPECIFICATION Spec
CONSTANTS
    a = a
    b = b
    c = c
    t1 = t1
    t2 = t2
    NoTick = NoTick
    Services = {a}
    BootOrder <- OrderA
    Periodic = {a}
    Delayed = {}
    Poked = {}
    BootDisabled = {}
    TickIds = {t1, t2}
    ParkAfter = 1
    Signals = {}
    MaxReloads = 0
INVARIANT
    ParkedIsRetried

