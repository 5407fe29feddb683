SPECIFICATION Spec
CONSTANTS
  Start = Start
  NoFork = NoFork
  AnyOutcome = AnyOutcome
  NoOutcome = NoOutcome
  nA = nA
  nB = nB
  nC = nC
  nJ = nJ
  End = End
  accept = accept
  redo = redo
  Graphs <- ReentrantGraphs
  Outcomes = {redo}
  DefaultAttempts = 1
  RetryBudgets = {}
  ActivationBudgets = {}
  Verdicts = {}
  ProgressReports = {}
  MaxRevision = 1
INVARIANTS
  JoinsAlwaysProgress
CHECK_DEADLOCK FALSE
