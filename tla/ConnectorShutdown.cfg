CONSTANTS
  U8Max = 1
  U32Max = 1
  MaxEdges = 1
SPECIFICATION FairSpec
PROPERTY ShutdownStops
