SPECIFICATION Spec
CONSTANTS
  Runs = {r1, r2, r3}
  Args = {}
  trunk = trunk
  branch = branch
  RootNode = trunk
  MaxSteps = 1
  Background = FALSE
  MaxRev = 0
  MaxAttempts = 1
  MaxCrashes = 0
  Nodes <- TwoNodes
  Route <- TrunkAndBranch
SYMMETRY Symmetry
INVARIANTS
  OneAnswerPerRevision
CHECK_DEADLOCK FALSE
