SPECIFICATION FairSpec
CONSTANTS
  Workers = {w1, w2, w3}
  Main = main
  Events = {e1, e2, e3, e4}
  NULL = NULL
INVARIANTS
  TypeOK
  SemaphoreExact
  NoEmptyPop
  PointersInScope
  MutualExclusion
  Custody
PROPERTIES
  ImplementsEventQueue
  OneWorkerSuffices
