SPECIFICATION FairSpec
CONSTANTS
    Ops = {"retrain", "evaluate"}
    Workers = {w1, w2}
    Commands = {c1}
    Nobody = Nobody
    Orphan = Orphan
    LockTTL = 3
    SoftLimit = 1
    HardLimit = 2
    MaxMessages = 2
    MaxLosses = 1
    Events = {"work_fails", "refused", "store_error", "process_lost", "redelivered", "hung_work", "slow_work", "unbounded"}
INVARIANTS TypeOK Singleton HeldOutlivesWork
PROPERTIES WorkGivesKeyBack OnlyOwnerReleases OwnershipEnds
