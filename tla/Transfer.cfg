CONSTANTS
  Err = Err
  None = None
  Jobs <- MCJobs
  Flagged <- MCFlagged
  MaxSent = 3
  WriterChunk = 3
  RayonChunk = 2
  ROOT_SPLIT_DEPTH = 1
  CHILD_SPLIT_DEPTH = 0
SPECIFICATION Spec
INVARIANTS
  BuildIsSequential
  TransferDelivers
  BocKeepsRoots
CHECK_DEADLOCK FALSE
