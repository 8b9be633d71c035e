SPECIFICATION Spec
CONSTANTS
  t1 = t1
  t2 = t2
  file = file
  here = here
  below = below
  Threads = {t1, t2}
  Contents = {file}
  Uploads = {"session"}
  Parts = {1}
  Messages = {here, below}
  Owners = {here}
  Legacy = {file}
  MaxAttachments = 2
  MaxCrashes = 1
  None = None
  ContentOf <- AllAreFile
SYMMETRY Symmetry
INVARIANTS
  EvidenceStays
  EvidenceIsFixed
  RowsHaveObjects
  NoAbandonedAssembly
  ParsingIsOwed
CHECK_DEADLOCK FALSE
