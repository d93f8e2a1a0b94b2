CONSTANT Requests = {r1, r2}
SPECIFICATION FairSpec
INVARIANTS
  NoUnservedConnection
PROPERTIES
  InFlightNotCut
  LostConnectionEndsAttempt
  DeadConnectionFreesRequests
  ImplementsAttempt
CHECK_DEADLOCK FALSE
