\* The text of a message is not read: UserProcessCustomService.cpp:1213.
SPECIFICATION Spec
CONSTANTS
  Req = {r1}
  Uin = {a, b}
  Here = 1
  Peers = {2}
  Cmds <- AnyCommand
  First = r1
  Texts = {hello}
  NoText = NoText
  None = None
  CsMask <- FoundMask
  Faults = {}
INVARIANT
  TextArrives
\* The clients send no more than Req packets.
CHECK_DEADLOCK FALSE
