SPECIFICATION TreeSpec
CONSTANTS
    a1 = a1
    a2 = a2
    a3 = a3
    a4 = a4
    a5 = a5
    s1 = s1
    s2 = s2
    d1 = d1
    d2 = d2
    None = None
    TreeAgents <- MCTreeAgents
    Parent <- MCParent
    Sweeps <- MCSweeps
    SweepMixes <- MCSweepMixes
    Nobody = Nobody
    N = 3
    Watch <- MCWatch
    Wake = TRUE
    Deletes <- MCDeletes
    RunMixes <- MCRunMixes
    Agents <- MCAgents
    ADMISSION_CONCURRENCY <- MCConcurrency
INVARIANTS
    SweepsReach
PROPERTIES
    WaitersServedInOrder
    ImplementsSlots
    StopIsOrderly
    CloseLeavesNothing
    CommandsConclude
CHECK_DEADLOCK FALSE
