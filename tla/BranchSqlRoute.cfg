\* One replacement, a migration through POST /sql and a crash.
CONSTANTS
    Requests = {r1}
    Executors = {}
    SqlRoutes = {q1}
    Sweeper = Sweeper
    Nobody = Nobody
    MaxFaults = 1
    LossCost = 2
SPECIFICATION Spec
CHECK_DEADLOCK FALSE
INVARIANTS SqlMigrationsBlocked
