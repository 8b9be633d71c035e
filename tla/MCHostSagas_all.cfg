SPECIFICATION Spec
CONSTANTS
  trunk = trunk
  branch = branch
  turn = turn
  fork = fork
  rename = rename
  visit = visit
  prune = prune
  first = first
  second = second
  Instances = {trunk, branch, turn}
  Root = trunk
  Keys = {fork, rename, visit, prune}
  Titles = {rename}
  FirstTitles = {"none"}
  FirstNames = {"none", rename}
  Forks = {fork}
  Renames = {rename}
  Visits = {visit}
  Prunes = {prune}
  Turns = {turn}
  Coroutines = {first, second, "only"}
  MaxOps = 2
  MaxRequests = 1
  MaxCrashes = 1
  Attempts <- TwoOfForks
  Target <- TargetOf
  Source <- SourceOf
  Given <- Untitled
  First <- Prompted
SYMMETRY Symmetry
INVARIANTS
  RoutesAreLive
  CurrentIsActive
  TurnsHaveOwners
  CompletedOnBothSides
  CompensatedLeavesNothing
  OneHostCopy
  StartedIsServed
PROPERTIES
  ImplementsGraph
  RevisionsTell
CHECK_DEADLOCK FALSE
