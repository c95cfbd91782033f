\* Every kind of request but "score": two agents, two users, two conversations; no symmetry,
\* because of OfflineEnds.
SPECIFICATION FairSpec
CONSTANTS
  Mangled = Mangled
  Staff = {a1, a2}
  Customers = {u1, u2}
  Uin <- MCUin
  Mpt = {m1}
  Capacities = {1}
  Scores = {5}
  Requests <- AllButScore
  DbAnswers = {TRUE}
  MaxWaiting = 1
  MaxCvs = 2
INVARIANTS
  TypeOK
  OwnerHolds
  LoadIsCount
  InvitedCanAnswer
  LiveOnRecord
  AcceptsWithinCapacity
PROPERTIES
  ImplementsDesk
  OnlyEndLeavesIdle
  OfflineEnds
