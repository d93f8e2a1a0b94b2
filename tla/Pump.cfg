CONSTANTS
  EdgeLength = 4
  OriginLength = 2
  MaxChunk = 3
  MaxEmpty = 1
  Window = 3
  Pipe = 1
  Buffer = 2
SPECIFICATION FairSpec
INVARIANTS
  InOrder
  EndMeansComplete
  HalfCloseKeepsPumping
PROPERTIES
  PumpEnds
CHECK_DEADLOCK FALSE
