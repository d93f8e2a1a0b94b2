CONSTANT Requests = {r1}
SPECIFICATION FairSpec
PROPERTY GracefulShutdown
CHECK_DEADLOCK FALSE
