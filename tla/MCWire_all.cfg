\* Bytes of four values: a list of four is one of 256.
SPECIFICATION Spec
CONSTANTS
  Base = 4
  BigEndian = TRUE
  Patterns <- AllPatterns
  Lengths = {0, 1, 2, 3, 4}
  Status = {200, 400, 500}
INVARIANTS
  RequestArrives
  AnswerArrives
PROPERTY
  AnswersReadable
