SPECIFICATION Spec
CONSTANTS
  MaxOps = 1
  MaxRequests = 1
  MaxQueue = 2
  MaxConnects = 2
INVARIANT ReconnectSynchronises
CHECK_DEADLOCK FALSE
