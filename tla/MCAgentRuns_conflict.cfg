SPECIFICATION FairSpec
CONSTANTS
  Runs = {r1, r2}
  Args = {a1}
  trunk = trunk
  branch = branch
  RootNode = trunk
  MaxSteps = 1
  Background = TRUE
  MaxRev = 1
  MaxAttempts = 2
  MaxCrashes = 0
  Nodes <- OneNode
  Route <- TrunkOnly
PROPERTIES
  ApprovedConflictEnds
CHECK_DEADLOCK FALSE
