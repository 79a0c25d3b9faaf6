SPECIFICATION Spec
CONSTANTS
  Clients = {c1, c2}
  Workers = {w1}
  Fds = {3, 4, 5}
  Kinds = {"download", "upload", "unsavable", "list", "blank", "malformed"}
  Departures = {"close", "abort"}
  Recycles = TRUE
  NONE = NONE
SYMMETRY ClientSymmetry
INVARIANTS
  OneToken
  OwnConnection
  FilesAccounted
  
CHECK_DEADLOCK FALSE
