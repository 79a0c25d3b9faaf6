SPECIFICATION Spec
CONSTANTS
  Clients = {c1, c2}
  Workers = {w1, w2}
  Fds = {3, 4}
  Kinds = {"delete"}
  Departures = {"abort"}
  Recycles = TRUE
  NONE = NONE
SYMMETRY Symmetry
INVARIANTS
  AcceptCovered
PROPERTIES
  HandsKept
CHECK_DEADLOCK FALSE
