\* Framing: words of 8 values, at most 4 segments and 3 words in a message.
CONSTANTS
  MaxStray = 2
  WordRange = 8
  MaxSegments = 4
  MaxTotalWords = 3
SPECIFICATION FairSpec
INVARIANTS
  BeliefsAreTrue
  FreshQuestions
  AnswersAreFinished
  CallsHoldCapability
PROPERTIES
  ImplementsExchange
CHECK_DEADLOCK FALSE
