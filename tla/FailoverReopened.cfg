\* Two instances recover what they read, one of them without the lock.
SPECIFICATION Spec
CONSTANTS
  Instances = {a, b}
  MaxLosses = 2
  Ops = {o1}
  NoOne = NoOne
  QueryLimit = 1
PROPERTY FinalStays
CHECK_DEADLOCK FALSE
