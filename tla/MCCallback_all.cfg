\* Three requests, every fault, and timeouts; the index wraps at the second request.
SPECIFICATION FairSpec
CONSTANTS
  Req = {r1, r2, r3}
  Null = Null
  IndexSpace = 8
  FirstIndex = 6
  Faults <- AllFaults
  Timeouts = TRUE
INVARIANTS
  TypeOK
  Contiguous
  RightCallback
  AtMostOnce
  ThrownIsSilent
PROPERTIES
  AnsweredIsCalled
CHECK_DEADLOCK FALSE
