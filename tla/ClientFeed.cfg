SPECIFICATION FairSpec
CONSTANTS
  Items = {i1}
  MaxEvents = 2
  MaxRevision = 2
  MaxText = 1
  QueueFrames = 2
  Batch = 1
  Page = 1
  MaxFaults = 1
INVARIANTS TypeOK BodyMatchesCursor NoGapAtBarrier
PROPERTY AlwaysCatchesUp
