CONSTANTS
    PoolSize = 1
    OldPct = 37
    Threads = {t1, t2}
    Nobody = nobody
    MaxPages = 3
    Preallocated = 2
    MaxVersion = 1
    MaxPins = 1
    Ops = {"fetch", "new"}
    Faults = {}
SPECIFICATION FairSpec
PROPERTIES CallsReturn
CHECK_DEADLOCK FALSE
