\* Two operations, three connections, three faults of any kind.
SPECIFICATION Spec
CONSTANTS
  NumOps = 2
  QueueFrames = 2
  QueryLimit = 1
  MaxEpoch = 3
  MaxFaults = 3
  DiskFaults = TRUE
INVARIANTS
  TypeOK
  OutcomeTruth
  NoStaleCommandOnWire
PROPERTIES
  FinalImmutable
  NothingWrittenAfterRevoke
  ImplementsPromise
CHECK_DEADLOCK FALSE
