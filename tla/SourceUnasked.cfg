\* An open create that a new connection is not asked about.
SPECIFICATION FairSpec
CONSTANTS
  Sessions = {s1}
  s1 = s1
  MaxEpoch = 3
  MaxEmitted = 0
  MaxFaults = 2
  DiskFaults = FALSE
PROPERTIES
  NothingHoldsTheFence
CHECK_DEADLOCK FALSE
