\* A fence read in part, one session.
SPECIFICATION Spec
CONSTANTS
  Sessions = {s1}
  s1 = s1
  MaxEpoch = 3
  MaxEmitted = 1
  MaxFaults = 2
  DiskFaults = FALSE
INVARIANTS
  ReadyMeansAllReported
CHECK_DEADLOCK FALSE
