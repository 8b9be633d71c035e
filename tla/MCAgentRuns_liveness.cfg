SPECIFICATION FairSpec
CONSTANTS
  Runs = {r1, r2}
  Args = {a1}
  trunk = trunk
  branch = branch
  RootNode = trunk
  MaxSteps = 1
  Background = TRUE
  MaxRev = 0
  MaxAttempts = 1
  MaxCrashes = 1
  Nodes <- OneNode
  Route <- TrunkOnly
PROPERTIES
  RunsConverge
  CancellationConverges
CHECK_DEADLOCK FALSE
