CONSTANTS
    PoolSize = 1
    OldPct = 37
    Threads = {t1, t2}
    Nobody = nobody
    MaxPages = 1
    Preallocated = 1
    MaxVersion = 4
    MaxPins = 1
    Ops = {"fetch", "flushAll", "edit", "look"}
    Faults = {}
SPECIFICATION FairSpec
INVARIANTS TypeOK PinsAccounted FlushesCurrent NoFrameLost NothingLost
PROPERTIES CallsReturn IsPageStore
