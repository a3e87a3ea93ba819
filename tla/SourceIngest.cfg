\* Two sessions, three connections, two faults, disk errors included.
SPECIFICATION Spec
CONSTANTS
  Sessions = {s1, s2}
  s1 = s1
  s2 = s2
  MaxEpoch = 3
  MaxEmitted = 1
  MaxFaults = 2
  DiskFaults = TRUE
INVARIANTS
  TypeOK
  FailedNeverStarted
  ReadyMeansReported
PROPERTIES
  OnlyCommittedIsDropped
CHECK_DEADLOCK FALSE
