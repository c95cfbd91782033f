\* Two threads, two clients, one queue the database has and one it has not.
\* The process may crash and every thread may hang: it may really stop.
SPECIFICATION FairSpec
CONSTANTS
  Thread = {t1, t2}
  Client = {c1, c2}
  Queue = {q1, q2}
  Listed = {q1}
  Ims <- Far
  Tabled <- Near
  None = None
  Faults <- Everything
  MaxLine = 1
  MaxCvs = 1
CHECK_DEADLOCK FALSE
INVARIANTS
  NoChainOfWaits
  FewConnections
PROPERTIES
  OnlyHoldersChange
  Served
