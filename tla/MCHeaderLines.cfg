SPECIFICATION Spec
CONSTANTS
  Workers = {w1, w2}
  Lines = 2
INVARIANT OptionsFromOwnLines
CHECK_DEADLOCK FALSE
