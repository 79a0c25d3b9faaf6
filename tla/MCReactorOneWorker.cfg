SPECIFICATION PromptSpec
CONSTANTS
  Clients = {c1, c2}
  Workers = {w1}
  Fds = {3, 4, 5}
  Kinds = {"download", "upload"}
  Departures = {"close"}
  Recycles = TRUE
  NONE = NONE
INVARIANTS
  TypeOK
  RightAnswer
  SendFindsResponse
PROPERTIES
  Answered
  LeftClosed
CHECK_DEADLOCK FALSE
