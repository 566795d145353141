SPECIFICATION Spec
CONSTANTS
  MaxArgs = {2, 4}
  MinArgs = {1, 3}
  DefaultMax = 512
  DefaultMin = 8
INVARIANT MaxRespected
CHECK_DEADLOCK FALSE
