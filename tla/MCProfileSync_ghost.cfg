SPECIFICATION Spec
CONSTANTS
    Requests = {r1, r2}
    Tasks = {t1, t2}
    Workers = {w1, w2}
    NoTask = NoTask
    ActiveTTL = 3
    SoftLimit = 1
    HardLimit = 2
    MaxRetries = 1
    MaxLosses = 1
    MaxVersion = 0
    Events = {"slow_scrape"}

INVARIANT NoConcurrentScrapes
