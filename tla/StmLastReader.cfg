SPECIFICATION Spec
CONSTANTS
  Readers = {1, 2}
  MaxCopy = 3
  MaxGrab = 3
INVARIANT LastReader
CHECK_DEADLOCK FALSE
