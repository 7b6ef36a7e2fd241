\* One webhook, one event and one test or replay, two processes.
CONSTANTS
    Webhooks = {h1}
    Events = {e1}
    Singles = {x1}
    Workers = {p1, p2}
    MaxAttempts = 2
    Capacity = 1
    None = None
    MaxChanges = 1
    MaxFaults = 1
SPECIFICATION Spec
CHECK_DEADLOCK FALSE
INVARIANTS WebhookConsistent AttemptsDistinct DeletedIsIdle
PROPERTIES FinishedStays EventsConclude
