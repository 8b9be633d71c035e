SPECIFICATION FairSpec
CONSTANTS
  Attempts = {a1, a2, a3}
  Streams = {a2, a3}
  Clients = {"hurried", "patient", "plain"}
  MaxCrashes = 1
INVARIANTS
  RepliesAgree
  SlotIsReleased
  MessagesOnce
PROPERTIES
  RequestsEnd
  ImplementsReplyOnce
CHECK_DEADLOCK FALSE
