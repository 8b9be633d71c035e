SPECIFICATION Spec
CONSTANTS
  old = old
  new = new
  Builds = {old, new}
  Supports <- TwoMore
  Oldest = 1
  KeepLast = 1
  MaxWrites = 2
  MaxBackups = 2
  MaxFaults = 3
  None = None
  Offline = Offline
INVARIANTS
  ServedIsWhole
  RecoveredIsExact
  RollbackIsThere
PROPERTIES
  DataOutlivesStarts
CHECK_DEADLOCK FALSE
