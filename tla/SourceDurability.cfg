\* A spool whose save failed, one session.
SPECIFICATION Spec
CONSTANTS
  Sessions = {s1}
  s1 = s1
  MaxEpoch = 3
  MaxEmitted = 1
  MaxFaults = 2
  DiskFaults = TRUE
INVARIANTS
  DurableBeforeSent
CHECK_DEADLOCK FALSE
