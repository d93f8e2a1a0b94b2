CONSTANT Streams = {s1, s2}
SPECIFICATION FairSpec
INVARIANTS
  RegistrationTimeEarned
  StreamsEndWithServe
PROPERTIES
  ImplementsAttempt
  LostConnectionEndsAttempt
  DrainIsBounded
CHECK_DEADLOCK FALSE
