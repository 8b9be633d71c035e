SPECIFICATION Spec
CONSTANTS
  trunk = trunk
  branch = branch
  turn = turn
  fork = fork
  rename = rename
  visit = visit
  prune = prune
  first = first
  second = second
  Instances = {trunk, branch}
  Root = trunk
  Keys = {prune}
  Titles = {}
  FirstTitles = {"none"}
  FirstNames = {"none"}
  Forks = {}
  Renames = {}
  Visits = {}
  Prunes = {prune}
  Turns = {}
  Coroutines = {first, second, "only"}
  MaxOps = 2
  MaxRequests = 0
  MaxCrashes = 0
  Attempts <- TwoOfEach
  Target <- TargetOf
  Source <- SourceOf
  Given <- Untitled
  First <- Prompted
SYMMETRY Symmetry
INVARIANTS
  PrunedAreArchived
CHECK_DEADLOCK FALSE
