SPECIFICATION Spec
CONSTANTS
  Given = 2
  Wrap = 4
  MaxSize = 2
  MaxLate = 1
  HasNext = TRUE
INVARIANT BufferPinned
CHECK_DEADLOCK FALSE
