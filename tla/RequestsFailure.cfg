SPECIFICATION Spec
CONSTANTS
  MaxUpload = 1
  MaxChunks = 1
  Buffer = 2
  MaxHeaders = 3
INVARIANT
  FailureReachesEdge
CHECK_DEADLOCK FALSE
