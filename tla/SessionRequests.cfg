SPECIFICATION Spec
CONSTANTS
  MaxOps = 3
  MaxRequests = 1
  MaxQueue = 2
  MaxConnects = 1
INVARIANT PendingIsCurrent
CHECK_DEADLOCK FALSE
