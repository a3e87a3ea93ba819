\* The Operation diagram of backend-design.md, one operation.
SPECIFICATION Spec
CONSTANTS
  NumOps = 1
  QueueFrames = 2
  QueryLimit = 1
  MaxEpoch = 2
  MaxFaults = 1
  DiskFaults = FALSE
PROPERTIES
  ReconcilingOnlySettles
CHECK_DEADLOCK FALSE
