SPECIFICATION BridgesSpec
CONSTANTS
  r1 = r1
  r2 = r2
  r3 = r3
  d1 = d1
  d2 = d2
  o1 = o1
  o2 = o2
  f1 = f1
  f2 = f2
  c1 = c1
  c2 = c2
  c3 = c3
  None = None
  Requests = {r1, r2, r3}
  Stamp <- MCStamp
  Dialogs = {d1, d2}
  Tool <- MCTool
  Operators = {o1, o2}
  Mixes <- MCMixes
  MaxGen = 2
INVARIANTS
  TurnsEndOnce
  HeldIsWaitedFor
PROPERTIES
  ClockRunsUnlessWatched
  LinesReachTheirTurn
  ConversationCarriesOn
  EveryTurnEnds
  ResponsesEnd
CHECK_DEADLOCK FALSE
