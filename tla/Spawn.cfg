SPECIFICATION FairSpec
CONSTANTS
    Root = root
    x = x
    Agents = {a, b}
    Others = {x}
    Budget = 1
    ADMISSION_CONCURRENCY = 2
    MAX_NOT_RUNNING_RETRIES = 1
    Mixes <- MCMixes
INVARIANTS
    SpawnsAreSafe
PROPERTIES
    SpawnConcludes
CHECK_DEADLOCK FALSE
