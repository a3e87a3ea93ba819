SPECIFICATION FairSpec
CONSTANTS
  Instances = {a, b}
  MaxLosses = 1
  Users = {u, v}
  MaxPushes = 2
  MaxAccepts = 2
  MaxCredits = 1
  MaxEnded = 2
  NoRow = NoRow
INVARIANT PostedAtMostOnce
PROPERTIES WithdrawnNeverPosted OutcomeStays EventuallyDecided
CHECK_DEADLOCK FALSE
