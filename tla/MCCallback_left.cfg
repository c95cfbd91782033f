\* An encoding error leaves dead callbacks at the front: CallbackQueue.cpp:54.
SPECIFICATION Spec
CONSTANTS
  Req = {r1, r2, r3}
  Null = Null
  IndexSpace = 8
  FirstIndex = 6
  Faults = {"encode"}
  Timeouts = FALSE
INVARIANT
  NothingLeft
CHECK_DEADLOCK FALSE
