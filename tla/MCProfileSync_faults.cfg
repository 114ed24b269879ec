SPECIFICATION Spec
CONSTANTS
    Requests = {r1, r2}
    Tasks = {t1, t2}
    Workers = {w1, w2}
    NoTask = NoTask
    ActiveTTL = 3
    SoftLimit = 1
    HardLimit = 2
    MaxRetries = 1
    MaxLosses = 2
    MaxVersion = 1
    Events = {"slow_scrape", "publish_refused", "request_aborts", "store_error", "worker_lost", "hung_worker"}
SYMMETRY Symmetry
INVARIANTS TypeOK MutualExclusion OwnershipOutlivesScrape FreshIsCompleted
PROPERTIES LiveOwnerOnlyLapses ImportNeverRegresses ImplementsContract
