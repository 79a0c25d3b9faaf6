SPECIFICATION Spec
CONSTANTS
  j1 = j1
  j2 = j2
  j3 = j3
  f = f
  Jobs = {j1, j2, j3}
  Names = {f}
  Asks <- MCAsks
  Pieces = 2
  MaxSize = 1
  MaxChunk = 1
  Descriptors = 2
  NONE = NONE
INVARIANTS
  TypeOK
  AnswersWhole
  PiecesKept
  ListsFiles
  DescriptorsAccounted
  SplitRight
  NeverPastTheEnd
PROPERTIES
  DeliversAnswers
CHECK_DEADLOCK FALSE
