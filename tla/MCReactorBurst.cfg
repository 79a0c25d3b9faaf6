SPECIFICATION PromptSpec
CONSTANTS
  Clients = {c1, c2}
  Workers = {w1}
  Fds = {3, 4}
  Kinds = {"other"}
  Departures = {}
  Recycles = TRUE
  NONE = NONE
PROPERTIES
  ConnectionAccepted
CHECK_DEADLOCK FALSE
