\* Get_Msg answers with the status 0: CSQueueMgr.cpp:658.
SPECIFICATION Spec
CONSTANTS
  Req = {r1}
  Uin = {a, b}
  Here = 1
  Peers = {2}
  Cmds <- AnyCommand
  First = r1
  Texts = {hello}
  NoText = NoText
  None = None
  CsMask <- FoundMask
  Faults = {}
INVARIANT
  HistoryIsRead
\* The clients send no more than Req packets.
CHECK_DEADLOCK FALSE
