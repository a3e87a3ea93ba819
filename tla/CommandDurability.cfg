\* A journal entry whose save failed, one operation.
SPECIFICATION Spec
CONSTANTS
  NumOps = 1
  QueueFrames = 2
  QueryLimit = 1
  MaxEpoch = 2
  MaxFaults = 1
  DiskFaults = TRUE
INVARIANTS
  DeliveredIsDurable
CHECK_DEADLOCK FALSE
