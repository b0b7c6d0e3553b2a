CONSTANTS
  Err = Err
  None = None
  Jobs <- RemovedJobs
  Flagged <- MCFlagged
  MaxSent = 3
  WriterChunk = 3
  RayonChunk = 2
  ROOT_SPLIT_DEPTH = 1
  CHILD_SPLIT_DEPTH = 0
SPECIFICATION Spec
INVARIANT
  RemovedAreExact
CHECK_DEADLOCK FALSE
