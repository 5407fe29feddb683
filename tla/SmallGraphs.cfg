SPECIFICATION RoutingSpec
CONSTANTS
  Start = Start  NoFork = NoFork  AnyOutcome = AnyOutcome  NoOutcome = NoOutcome
  nA = nA  nB = nB  nC = nC  End = End
  MaxEdges = 6
  Budget = 6
  Graphs <- SmallGraphs
  Outcomes <- AllOutcomes
  DefaultAttempts = 1
  RetryBudgets = {}
  ActivationBudgets = {}
  Verdicts = {}
  ProgressReports = {}
  MaxRevision = 0
INVARIANTS JoinConsumedOnce NoMissedJoin ArrivalsPaired NoJoinDeadlock
CHECK_DEADLOCK FALSE
