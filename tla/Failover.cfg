SPECIFICATION FairSpec
CONSTANTS
  Instances = {a, b}
  MaxLosses = 2
  Ops = {o1, o2}
  NoOne = NoOne
  QueryLimit = 1
INVARIANT FailedUnlessStray
PROPERTY EventuallySettled
CHECK_DEADLOCK FALSE
