\* Two packets of two users, one of any command, under every fault, while the users log off.
SPECIFICATION FairSpec
CONSTANTS
  Req = {r1, r2}
  Uin = {a, b}
  Here = 1
  Peers = {2}
  Cmds <- Parley
  First = r1
  Texts = {hello}
  NoText = NoText
  None = None
  CsMask <- FoundMask
  Faults <- AllFaults
INVARIANT
  ContextLives
  OneAnswer
  OnlyRefusalsKeep
  SuccessIsTrue
  SurvivesOthers
PROPERTY
  StayersAnswered
\* The clients send no more than Req packets.
CHECK_DEADLOCK FALSE
