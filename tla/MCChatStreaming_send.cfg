SPECIFICATION FairSpec
CONSTANTS
  Tries = 2
  Attempts = 2
  Length = 2
  Limit = 4
  MaxLosses = 2
  MaxCrashes = 1
INVARIANTS
  DraftIsOneAnswer
  StoredAnswersAreWhole
  DraftIsStored
  AnsweredOnce
PROPERTIES
  SendEnds
CHECK_DEADLOCK FALSE
