\* Recovery from any two faults, and the refinement of EventLog while saves succeed.
SPECIFICATION FairSpec
CONSTANTS
  Sessions = {s1, s2}
  s1 = s1
  s2 = s2
  MaxEpoch = 3
  MaxEmitted = 1
  MaxFaults = 2
  DiskFaults = FALSE
PROPERTIES
  EventuallyIngested
  EventuallyReady
  ImplementsLog
CHECK_DEADLOCK FALSE
