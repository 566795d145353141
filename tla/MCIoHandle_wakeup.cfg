SPECIFICATION FairSpec
CONSTANTS
  MaxOps = 3
  MaxFutures = 2
  Inline = {}
  Cancels = {}
  SpuriousPolls = FALSE
PROPERTY PendingAnswered
CHECK_DEADLOCK FALSE
