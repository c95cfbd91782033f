\* WY_CS_MASK as cmd.h has it.
SPECIFICATION Spec
CONSTANTS
  Req = {r1}
  Uin = {a, b}
  Here = 1
  Peers = {2}
  Cmds <- AnyCommand
  First = r1
  Texts = {hello}
  NoText = NoText
  None = None
  CsMask <- CodeMask
  Faults = {}
INVARIANT
  InvalidIsInvalid
\* The clients send no more than Req packets.
CHECK_DEADLOCK FALSE
