SPECIFICATION MvpSpec
CONSTANTS
  Criteria = {a}
  MaxSlices = 1
  MaxLoops = 1
  MaxChanges = 1
  IterationCap = 1
  BreakingHops = {}
  Calls = {c1}
  PatientClient = FALSE
  Faults = {}
INVARIANTS
  ReviewHeld
CHECK_DEADLOCK FALSE
