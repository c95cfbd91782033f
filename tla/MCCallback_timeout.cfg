\* A request whose answer is lost, in a program that, like every one, never calls CheckQueue.
SPECIFICATION ServedSpec
CONSTANTS
  Req = {r1, r2, r3}
  Null = Null
  IndexSpace = 8
  FirstIndex = 6
  Faults = {"lost"}
  Timeouts = FALSE
PROPERTY
  SentIsCalled
CHECK_DEADLOCK FALSE
