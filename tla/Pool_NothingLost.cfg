CONSTANTS
    PoolSize = 1
    OldPct = 37
    Threads = {t1}
    Nobody = nobody
    MaxPages = 2
    Preallocated = 1
    MaxVersion = 2
    MaxPins = 1
    Ops = {"fetch", "new", "modify"}
    Faults = {"write"}
SPECIFICATION Spec
INVARIANTS NothingLost
