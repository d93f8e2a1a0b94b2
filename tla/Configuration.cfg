CONSTANTS
  Streams = {s1, s2}
  MaxMessages = 3
SPECIFICATION FairSpec
INVARIANTS
  AnsweredInOrder
  AppliedIsAnnounced
  RefusalReportsApplied
  SequentialPushesConverge
PROPERTIES
  PushesAnswered
CHECK_DEADLOCK FALSE
