SPECIFICATION FairSpec
CONSTANTS
  Start = Start
  NoFork = NoFork
  AnyOutcome = AnyOutcome
  NoOutcome = NoOutcome
  nA = nA
  nB = nB
  nC = nC
  nJ = nJ
  End = End
  accept = accept
  redo = redo
  Graphs <- ForkedOrGated
  Outcomes = {accept}
  DefaultAttempts = 2
  RetryBudgets = {}
  ActivationBudgets = {}
  Verdicts = {"pending", "approved", "rejected"}
  ProgressReports = {"paused"}
  MaxRevision = 3
PROPERTIES
  GoalProgresses
  CancelCompletes
  GateRespected
  PendingCompletionFrozen
CHECK_DEADLOCK FALSE
