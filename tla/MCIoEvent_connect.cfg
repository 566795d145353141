SPECIFICATION FairSpec
CONSTANTS
  MaxOps = 3
  InlineOutcomes = {"ok", "err"}
  HasHandle = TRUE
  ResetMayFail = FALSE
  SpuriousPolls = FALSE
INVARIANTS
  NoMissedCompletion
PROPERTIES
  PendingAnswered
  DropEnds
CHECK_DEADLOCK FALSE
