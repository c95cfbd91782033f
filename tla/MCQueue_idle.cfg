\* A user left to wait beside a free agent: Queue.cpp:243.
SPECIFICATION Spec
CONSTANTS
  Mangled = Mangled
  Staff = {a1, a2}
  Customers = {u1, u2}
  Uin <- MCUin
  Mpt = {m1}
  Capacities = {2}
  Scores = {5}
  Requests <- NoRedirect
  DbAnswers = {TRUE}
  MaxWaiting = 2
  MaxCvs = 2
SYMMETRY Accounts
PROPERTY
  NobodyLeftIdle
