SPECIFICATION FairSpec
CONSTANTS
  ThreadNum = 3
  Signals = {2, 14, 15, 16}
  Handled = {2, 14, 15, 16}
  MaxArrivals = 3
  MaxSignals = 3
INVARIANTS
  TypeOK
  LoopHasAll
  EndsForAReason
PROPERTIES
  StopAtNextReport
  ArrivalsReported
CHECK_DEADLOCK FALSE
