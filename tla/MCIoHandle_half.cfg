SPECIFICATION FairSpec
CONSTANTS
  MaxOps = 3
  MaxFutures = 2
  Inline = {"done", "refused"}
  Cancels = {"nowait", "wait"}
  SpuriousPolls = TRUE
INVARIANTS
  BufferPinned
  OverlappedFree
  ResultExclusive
  ResultIsOwn
  FreedWhenQuiet
PROPERTY CompletionPublished
CHECK_DEADLOCK FALSE
