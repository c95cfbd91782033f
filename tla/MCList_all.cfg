\* Three agents of two capacities, two conversations, up to two users who wait.
SPECIFICATION Spec
CONSTANTS
  Uin = {a1, a2, a3}
  Mpt = {m1}
  HEAD = HEAD
  NULL = NULL
  Capacities = {1, 2}
  Cvs = {1, 2}
  MaxWaiting = 2
SYMMETRY Accounts
INVARIANTS
  Linked
PROPERTIES
  ImplementsPool
