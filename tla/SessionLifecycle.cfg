SPECIFICATION Spec
CONSTANTS
  MaxOps = 3
  MaxRequests = 1
  MaxQueue = 2
  MaxConnects = 2
INVARIANT TypeOK
INVARIANT OneTurnAtATime
INVARIANT QueuedIsKept
INVARIANT OneSuccessor
INVARIANT OneAnswer
INVARIANT OccupiedByOpenDecision
INVARIANT RefusedOnlyForCause
INVARIANT Converged
CHECK_DEADLOCK FALSE
