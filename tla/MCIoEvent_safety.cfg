SPECIFICATION Spec
CONSTANTS
  MaxOps = 3
  InlineOutcomes = {"ok", "err"}
  HasHandle = TRUE
  ResetMayFail = TRUE
  SpuriousPolls = TRUE
INVARIANTS
  TypeOK
  ResultExclusive
  FreedWhenQuiet
  NoLostWakeup
PROPERTY Implements
CHECK_DEADLOCK FALSE
