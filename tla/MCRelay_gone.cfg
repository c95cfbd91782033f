\* CustomService is not told of a log-off: UserProcess.cpp:286.
SPECIFICATION FairSpec
CONSTANTS
  Req = {r1}
  Uin = {a, b}
  Here = 1
  Peers = {2}
  Cmds <- AnyCommand
  First = r1
  Texts = {hello}
  NoText = NoText
  None = None
  CsMask <- FoundMask
  Faults = {}
PROPERTY
  GoneAgentsLeave
\* The clients send no more than Req packets.
CHECK_DEADLOCK FALSE
