SPECIFICATION Spec
CONSTANTS
  Principal = {1, 2, 3}
  MaxCommand = 4
  Window = 2
  MaxRuns = 2
CHECK_DEADLOCK FALSE
INVARIANTS TypeOK OnlyForgettingRepeats
PROPERTY FloorsGiveWay
