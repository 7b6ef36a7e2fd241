\* Two tasks compete for one place and two processes claim them.
CONSTANTS
    Tasks = {t1, t2}
    Claimers = {c1, c2}
    MaxAttempts = 2
    AttemptLimit = 2
    LeaseTicks = 1
    ConcurrencyLimit = 1
    NoTask = NoTask
SPECIFICATION StoreSpec
CHECK_DEADLOCK FALSE
INVARIANTS ConcurrencyRespected
