CONSTANTS
    PoolSize = 4
    OldPct = 50
SPECIFICATION Spec
INVARIANTS TypeOK ListConsistent Rebalanced
PROPERTY IsEvictionQueue
CHECK_DEADLOCK FALSE
