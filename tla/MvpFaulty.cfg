SPECIFICATION MvpSpec
CONSTANTS
  Criteria = {a, b, c}
  MaxSlices = 2
  MaxLoops = 3
  MaxChanges = 1
  IterationCap = 1
  BreakingHops = {1}
  Calls = {c1}
  PatientClient = FALSE
  Faults = {"io"}
SYMMETRY Symmetry
INVARIANTS
  AcceptedKept
  SliceWhole
  RebuildCeiling
PROPERTIES
  StatusEdges
CHECK_DEADLOCK FALSE
