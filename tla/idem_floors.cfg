SPECIFICATION Spec
CONSTANTS
  Principal = {1, 2, 3}
  MaxCommand = 2
  Window = 2
  MaxRuns = 2
CHECK_DEADLOCK FALSE
INVARIANT ExecutedOnce
