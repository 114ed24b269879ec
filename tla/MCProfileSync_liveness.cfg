SPECIFICATION FairSpec
CONSTANTS
    Requests = {r1, r2}
    Tasks = {t1, t2}
    Workers = {w1}
    NoTask = NoTask
    ActiveTTL = 1
    SoftLimit = 0
    HardLimit = 0
    MaxRetries = 1
    MaxLosses = 1
    MaxVersion = 0
    Events = {"publish_misreported", "redelivered", "worker_lost", "lost_after_retry"}
PROPERTIES OwnershipEnds PublishedTaskSettles
