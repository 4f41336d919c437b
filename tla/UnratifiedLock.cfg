SPECIFICATION IntakeSpec
CONSTANTS
  c1 = c1
  c2 = c2
  Calls = {c1}
  MaxContents = 2
  MaxLoops = 1
  Faults <- NoFaults
INVARIANT InferredRatified
CHECK_DEADLOCK FALSE
