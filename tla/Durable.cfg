SPECIFICATION DurableSpec
CONSTANTS
    N = 2
    Waking = {2}
    MaxPrompts = 1
    MaxPauses = 1
    MaxDeliver = 1
    MaxRestarts = 1
    MaxLosses = 1
    MaxRetries = 1
    MaxInAll = 4
    MaxTurns = 4
    Retain = 2
    MinAge = 1
    MaxNow = 1
    CheckpointMixes <- MCCheckpointMixes
    Gone = Gone
    None = None
    Commands = {1, 2}
    Hosts = {"host"}
    Creds = {"credential"}
    Rules = {"allow", "deny"}
    SessionMixes <- MCSessionMixes
    Calls = {"m1", "m2", "m3", "m4"}
    FactMixes <- MCFactMixes
    Jobs = {1, 2}
    Grace = 1
    JobMixes <- MCJobMixes
INVARIANTS
    InboxKeepsItsWord
    SessionSurvives
    SomeCopyIsFound
    FactsAreKept
    BackupsAreWhole
PROPERTIES
    ImplementsMailbox
    TurnsComeBack
CHECK_DEADLOCK FALSE
