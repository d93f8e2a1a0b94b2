SPECIFICATION FairSpec
CONSTANTS
  MaxUpload = 2
  MaxChunks = 2
  Buffer = 2
  MaxHeaders = 3
INVARIANTS
  CleanEndIsComplete
  BodyIntact
PROPERTIES
  RequestEnds
  UploadReleased
CHECK_DEADLOCK FALSE
