SPECIFICATION Spec
CONSTANTS
  Tries = 3
  Attempts = 2
  Length = 2
  Limit = 4
  MaxLosses = 3
  MaxCrashes = 0
INVARIANTS
  SingleAnswer
CHECK_DEADLOCK FALSE
