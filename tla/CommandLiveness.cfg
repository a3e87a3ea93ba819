\* Two faults of any kind; a connection asks about one of two open operations.
SPECIFICATION FairSpec
CONSTANTS
  NumOps = 2
  QueueFrames = 3
  QueryLimit = 1
  MaxEpoch = 5
  MaxFaults = 2
  DiskFaults = FALSE
PROPERTIES EventuallyReconciled
CHECK_DEADLOCK FALSE
