\* Two sessions, two operations; ages count days up to MetadataRetention.
SPECIFICATION FairSpec
CONSTANTS
  NumSessions = 2
  NumOps = 2
  Content = 0
  Metadata = 1
  Grace = 0
INVARIANT TypeOK
INVARIANT UnresolvedKept
INVARIANT HandoverKept
INVARIANT RefusedOnlyForCause
PROPERTY EventuallyForgotten
CHECK_DEADLOCK FALSE
