\* One task, two processes that may die and come back, one explicit retry of a
\* task that has used up its automatic attempt.
CONSTANTS
    Tasks = {t1}
    Claimers = {w1, w2}
    MaxAttempts = 1
    AttemptLimit = 2
    LeaseTicks = 1
    ConcurrencyLimit = 1
    MaxFaults = 1
    MaxRetries = 1
    NoTask = NoTask
    NoWorker = NoWorker
SPECIFICATION WorkerSpec
SYMMETRY Symmetry
CHECK_DEADLOCK FALSE
INVARIANTS WorkerConsistent AnnouncedMatchesHistory
PROPERTIES EvidenceIsKept
