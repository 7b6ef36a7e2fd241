\* One task, one process that may die and come back, automatic attempts.
CONSTANTS
    Tasks = {t1}
    Claimers = {w1}
    MaxAttempts = 2
    AttemptLimit = 2
    LeaseTicks = 1
    ConcurrencyLimit = 1
    MaxFaults = 3
    MaxRetries = 0
    NoTask = NoTask
    NoWorker = NoWorker
SPECIFICATION WorkerSpec
CHECK_DEADLOCK FALSE
INVARIANTS SoleInvocation
PROPERTIES TaskCloses UsesStore
