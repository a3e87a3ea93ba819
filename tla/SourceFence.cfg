\* Reconnection with a spool, one session.
SPECIFICATION Spec
CONSTANTS
  Sessions = {s1}
  s1 = s1
  MaxEpoch = 3
  MaxEmitted = 2
  MaxFaults = 2
  DiskFaults = FALSE
INVARIANTS
  ReadyMeansCaughtUp
CHECK_DEADLOCK FALSE
