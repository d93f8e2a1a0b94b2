CONSTANTS
  BodyLength = 3
  MaxChunk = 2
  MaxQueue = 2
  Buffer = 2
SPECIFICATION Spec
INVARIANT BodyUnaltered
CHECK_DEADLOCK FALSE
