\* Any three of: a crash, two failing stages, a cancelled or retried task, a
\* pause or restore.
CONSTANTS
    StageRetries = 2
    CleanupRetries = 3
    MaxAttempts = 2
    MaxRows = 24
    MaxFailures = 2
    MaxFaults = 1
    MaxOrders = 1
    MaxLocks = 1
    MaxEvents = 3
    MayDelete = FALSE
SPECIFICATION SagaSpec
CHECK_DEADLOCK FALSE
INVARIANTS SagaConsistent
PROPERTIES NoTeardownWhileLive PauseIsRespected
