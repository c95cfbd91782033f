\* A saved row that loses its agent: CSMySqlDbMgr.cpp:174.
SPECIFICATION Spec
CONSTANTS
  Mangled = Mangled
  Staff = {a1, a2}
  Customers = {u1, u2}
  Uin <- MCUin
  Mpt = {m1}
  Capacities = {2}
  Scores = {5}
  Requests <- AllButScore
  DbAnswers = {TRUE}
  MaxWaiting = 2
  MaxCvs = 2
SYMMETRY Accounts
INVARIANT
  RecordNamesAgent
