SPECIFICATION FairSpec
CONSTANTS
    f1 = f1
    f2 = f2
    Followers = {f1, f2}
    MAX_UNREACHABLE_PROBES = 2
    MaxConsecutiveFailures = 2
    Mixes <- MCMixes
INVARIANTS
    NoTurnOutOfSight
PROPERTIES
    StoppedStaysStopped
    BreakerTrips
    EveryTurnConcludes
CHECK_DEADLOCK FALSE
