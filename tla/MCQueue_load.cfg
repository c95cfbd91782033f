\* A load that counts a conversation of another agent: CSConversationMgr.cpp:125.
SPECIFICATION Spec
CONSTANTS
  Mangled = Mangled
  Staff = {a1, a2}
  Customers = {u1, u2}
  Uin <- MCUin
  Mpt = {m1}
  Capacities = {2}
  Scores = {5}
  Requests <- AllButScore
  DbAnswers = {TRUE}
  MaxWaiting = 2
  MaxCvs = 2
SYMMETRY Accounts
INVARIANT
  LoadIsServed
