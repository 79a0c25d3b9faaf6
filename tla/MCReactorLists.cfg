SPECIFICATION PromptSpec
CONSTANTS
  Clients = {c1}
  Workers = {w1}
  Fds = {3, 4, 5}
  Kinds = {"list"}
  Departures = {}
  Recycles = TRUE
  NONE = NONE
PROPERTIES
  ListAnswered
CHECK_DEADLOCK FALSE
