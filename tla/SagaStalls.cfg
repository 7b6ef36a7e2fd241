\* One failing stage and one crash.
CONSTANTS
    StageRetries = 2
    CleanupRetries = 3
    MaxAttempts = 2
    MaxRows = 24
    MaxFailures = 1
    MaxFaults = 1
    MaxOrders = 0
    MaxLocks = 0
    MaxEvents = 2
    MayDelete = FALSE
SPECIFICATION SagaSpec
CHECK_DEADLOCK FALSE
PROPERTIES FailedStageIsCompensated
