SPECIFICATION FairSpec
CONSTANTS
  Given = 7
  Wrap = 4
  MaxSize = 2
  MaxLate = 1
  HasNext = TRUE
INVARIANTS
  ReceivedInOrder
  DoneMeansFull
  CountFits
PROPERTY LoopEnds
CHECK_DEADLOCK FALSE
