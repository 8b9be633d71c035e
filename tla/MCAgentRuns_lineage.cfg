SPECIFICATION Spec
CONSTANTS
  Runs = {r1, r2}
  Args = {a1}
  trunk = trunk
  branch = branch
  RootNode = trunk
  MaxSteps = 1
  Background = TRUE
  MaxRev = 1
  MaxAttempts = 2
  MaxCrashes = 1
  Nodes <- OneNode
  Route <- TrunkOnly
SYMMETRY Symmetry
INVARIANTS
  QueueOK
  EffectAtMostOnce
  EffectJournalTruthful
  OnlyApprovedCallsRun
  DoubtIsReported
  ExclusiveExecutor
  EndedRunsAreSettled
  OnlyReuseOrphans
PROPERTIES
  ImplementsLifecycle
CHECK_DEADLOCK FALSE
