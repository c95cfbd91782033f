\* A response whose decode does not follow its encode: CSMsg_Agent_Get_QueueAgent.h:53.
SPECIFICATION Spec
CONSTANTS
  Base = 4
  BigEndian = TRUE
  Patterns <- AllPatterns
  Lengths = {0, 1, 2, 3, 4}
  Status = {200, 400, 500}
INVARIANT
  AgentsArrive
