CONSTANTS
    PoolSize = 2
    OldPct = 37
    Threads = {t1}
    Nobody = nobody
    MaxPages = 3
    Preallocated = 1
    MaxVersion = 2
    MaxPins = 1
    Ops = {"fetch", "new", "modify", "flush", "flushAll"}
    Faults = {"read", "checkpoint", "alloc"}
SPECIFICATION Spec
INVARIANTS CleanIsOnDisk NoFrameLost PinnedStays NothingLost
PROPERTIES IsPageStore
