SPECIFICATION FairSpec
CONSTANTS
  Depth = 3
  MaxThreads = 2
INVARIANTS
  LatchMeansOver
  NoLostWakeup
  WaitedFrameSafe
PROPERTY Returns
CHECK_DEADLOCK FALSE
