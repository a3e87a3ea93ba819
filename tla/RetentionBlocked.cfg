\* A session a shared command was sent to.
SPECIFICATION FairSpec
CONSTANTS
  NumSessions = 1
  NumOps = 2
  Content = 0
  Metadata = 1
  Grace = 0
PROPERTY EverySessionForgotten
CHECK_DEADLOCK FALSE
