\* A reconciling operation that a new connection is not asked about: its query is lost.
SPECIFICATION FairSpec
CONSTANTS
  NumOps = 1
  QueueFrames = 2
  QueryLimit = 1
  MaxEpoch = 3
  MaxFaults = 2
  DiskFaults = FALSE
PROPERTIES EveryReconcilingIsAsked
CHECK_DEADLOCK FALSE
