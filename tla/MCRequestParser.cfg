CONSTANTS
  Kinds = {"get", "form", "upload", "preamble", "unsavable"}
  MaxContent = 5
  MaxRepeated = 2
  Attempts = 2
  Pipelined = TRUE
SPECIFICATION FairSpec
INVARIANTS TypeOK Conserved SavesOnlyContent AnsweredIsSaved FrameKept
PROPERTY Answered
CHECK_DEADLOCK FALSE
