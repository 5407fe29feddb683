SPECIFICATION Spec
CONSTANTS
  Start = Start
  NoFork = NoFork
  AnyOutcome = AnyOutcome
  NoOutcome = NoOutcome
  nA = nA
  nB = nB
  nC = nC
  nJ = nJ
  End = End
  accept = accept
  redo = redo
  Graphs <- OldAndNew
  Outcomes = {}
  DefaultAttempts = 1
  RetryBudgets = {2}
  ActivationBudgets = {3, 7}
  Verdicts = {}
  ProgressReports = {}
  MaxRevision = 3
INVARIANTS
  TypeOK
  BudgetExact
  OneLiveAttempt
  CancelFence
PROPERTIES
  FinishedIsFinal
  NoNewWorkAfterCancel
CHECK_DEADLOCK FALSE
