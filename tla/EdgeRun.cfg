\* u8 and u32 shrunk to 2: every counter reaches its limit.
CONSTANTS
  U8Max = 2
  U32Max = 2
  MaxEdges = 4
  U64 = 64
  MaxExponent = 3
  Ips = {"a", "b"}
  Ports = {"7844", "8443"}
  FallbackPort = "7844"
  MaxResolvers = 2
  MaxAnswers = 2
  MaxLookup = 2
SPECIFICATION EdgeSpec
INVARIANTS
  TypeOK
  OkMeansShutdown
  FallbackEarned
  BrokenNeverRetried
  RightAddresses
PROPERTIES
  FallbackSticks
  TriesUnlessStuck
  ImplementsConnector
