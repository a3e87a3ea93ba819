\* A command written in the second an instance works on without the lock.
SPECIFICATION Spec
CONSTANTS
  Instances = {a, b}
  MaxLosses = 2
  Ops = {o1}
  NoOne = NoOne
  QueryLimit = 1
INVARIANT FailedNeverReceived
CHECK_DEADLOCK FALSE
