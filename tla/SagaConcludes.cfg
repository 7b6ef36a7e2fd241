\* Any two of: a failing stage or clean-up, a crash or lost call, a cancelled or
\* retried task, a pause or restore, the deletion.
CONSTANTS
    StageRetries = 2
    CleanupRetries = 2
    MaxAttempts = 2
    MaxRows = 24
    MaxFailures = 1
    MaxFaults = 1
    MaxOrders = 1
    MaxLocks = 1
    MaxEvents = 2
    MayDelete = TRUE
SPECIFICATION SagaSpec
CHECK_DEADLOCK FALSE
PROPERTIES PipelineNeverStalls DeletedIsFreed
