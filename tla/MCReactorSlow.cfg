SPECIFICATION FairSpec
CONSTANTS
  Clients = {c1}
  Workers = {w1}
  Fds = {3, 4}
  Kinds = {"other"}
  Departures = {}
  Recycles = TRUE
  NONE = NONE
PROPERTIES
  RecvReturns
CHECK_DEADLOCK FALSE
