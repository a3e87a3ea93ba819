SPECIFICATION Spec
CONSTANTS
  Agents = {a1, a2, a3, a4}
  FrameItems = 1
  Quota = 2
  MaxRevision = 1
  MaxInventories = 2
PROPERTIES AbsentWasNotReported
CHECK_DEADLOCK FALSE
