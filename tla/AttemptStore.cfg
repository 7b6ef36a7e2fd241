\* Two tasks compete for one place; one process claims them, and callers use
\* every attempt number at any time.
CONSTANTS
    Tasks = {t1, t2}
    Claimers = {c1}
    MaxAttempts = 2
    AttemptLimit = 2
    LeaseTicks = 1
    ConcurrencyLimit = 1
    NoTask = NoTask
SPECIFICATION StoreSpec
SYMMETRY Symmetry
CHECK_DEADLOCK FALSE
INVARIANTS StoreConsistent NoBlindReplay ConcurrencyRespected
PROPERTIES HistoryIsFenced CancellationWins ImplementsLedger
