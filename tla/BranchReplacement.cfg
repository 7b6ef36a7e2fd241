\* Two replacements, a migration of each kind and three failures or crashes, or one
\* lost lock.
CONSTANTS
    Requests = {r1, r2}
    Executors = {m1}
    SqlRoutes = {q1}
    Sweeper = Sweeper
    Nobody = Nobody
    MaxFaults = 3
    LossCost = 3
SPECIFICATION FairSpec
CHECK_DEADLOCK FALSE
INVARIANTS BranchConsistent PreviousDataKept ParentIsWhole
PROPERTIES CommitIsReal RecoveryConcludes
