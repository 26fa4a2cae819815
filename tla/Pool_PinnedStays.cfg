CONSTANTS
    PoolSize = 2
    OldPct = 37
    Threads = {t1}
    Nobody = nobody
    MaxPages = 3
    Preallocated = 3
    MaxVersion = 1
    MaxPins = 3
    Ops = {"fetch"}
    Faults = {}
SPECIFICATION Spec
INVARIANTS PinnedStays
