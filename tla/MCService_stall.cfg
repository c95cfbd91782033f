\* A query that holds up the requests of other queues: CSQueueMgr.cpp:132.
SPECIFICATION FairSpec
CONSTANTS
  Thread = {t1, t2, t3}
  Client = {c1, c2}
  Queue = {q1, q2}
  Listed = {q1}
  Ims = {}
  Tabled <- Near
  None = None
  Faults = {"stall"}
  MaxLine = 0
  MaxCvs = 0
CHECK_DEADLOCK FALSE
PROPERTY
  HeldUpByOwnQueue
