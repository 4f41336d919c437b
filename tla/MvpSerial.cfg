SPECIFICATION DrivenMvpSpec
CONSTANTS
  Criteria = {a, b}
  MaxSlices = 2
  MaxLoops = 2
  MaxChanges = 4
  IterationCap = 3
  BreakingHops = {}
  Calls = {c1}
  PatientClient = TRUE
  Faults = {}
INVARIANTS
  FailingAcceptanceMarked
  ChangesReachReview
  OneSilentRepair
PROPERTIES
  OwnerDecides
  OwnerConsulted
CHECK_DEADLOCK FALSE
