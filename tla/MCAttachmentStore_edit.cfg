SPECIFICATION Spec
CONSTANTS
  t1 = t1
  t2 = t2
  file = file
  here = here
  below = below
  Threads = {t1}
  Contents = {file}
  Uploads = {}
  Parts = {1}
  Messages = {here, below}
  Owners = {here}
  Legacy = {}
  MaxAttachments = 1
  MaxCrashes = 0
  None = None
  ContentOf <- AllAreFile
INVARIANTS
  PreparedEditFits
CHECK_DEADLOCK FALSE
