SPECIFICATION DrivenSpec
CONSTANTS
  Calls = {c1}
  IterationCap = 2
  MaxQuality = 3
  Faults = {}
INVARIANTS
  BestFailureKept
PROPERTIES
  LoopEnds
CHECK_DEADLOCK FALSE
