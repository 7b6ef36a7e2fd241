\* Two requests, one of them soft; DELETEs may be lost, late or answered for.
CONSTANTS
    Requests = {r1, r2}
    SoftRequests = {r1}
    Tasks = {t1}
    Nobody = Nobody
SPECIFICATION FairSpec
CHECK_DEADLOCK FALSE
INVARIANTS FenceConsistent RecordedDeletionIsReal AnswersAreHonest DeletedSafely
PROPERTIES OperationKept RequestsConclude
