CONSTANTS
  Streams = {s1}
  MaxSegments = 3
  MaxDispatch = 3
SPECIFICATION FairSpec
INVARIANTS
  AcceptedIsLive
  OneRequestPerBeginning
PROPERTIES
  ReaderWoken
  CloseEndsTasks
CHECK_DEADLOCK FALSE
