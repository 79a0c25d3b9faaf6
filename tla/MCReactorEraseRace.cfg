SPECIFICATION PromptSpec
CONSTANTS
  Clients = {c1}
  Workers = {w1, w2}
  Fds = {3, 4}
  Kinds = {"other"}
  Departures = {}
  Recycles = TRUE
  NONE = NONE
PROPERTIES
  NextRequestAnswered
CHECK_DEADLOCK FALSE
