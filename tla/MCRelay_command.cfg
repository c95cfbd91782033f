\* A failure under the command of another request: UserProcessCustomService.cpp:1140.
SPECIFICATION Spec
CONSTANTS
  Req = {r1}
  Uin = {a, b}
  Here = 1
  Peers = {2}
  Cmds <- AnyCommand
  First = r1
  Texts = {hello}
  NoText = NoText
  None = None
  CsMask <- FoundMask
  Faults = {"send"}
INVARIANT
  OwnCommand
\* The clients send no more than Req packets.
CHECK_DEADLOCK FALSE
