\* Three agents of different capacities, one user, three conversations, no redirect; a
\* server that reaches no database.
SPECIFICATION Spec
CONSTANTS
  Mangled = Mangled
  Staff = {a1, a2, a3}
  Customers = {u1}
  Uin <- MCUin
  Mpt = {m1}
  Capacities = {1, 2}
  Scores = {5}
  Requests <- NoRedirect
  DbAnswers = {FALSE}
  MaxWaiting = 2
  MaxCvs = 3
SYMMETRY Accounts
INVARIANTS
  ListInOrder
  LoadIsServed
PROPERTIES
  OfflineFrees
