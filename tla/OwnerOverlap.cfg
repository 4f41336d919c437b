SPECIFICATION PipelineSpec
CONSTANTS
  c1 = c1
  c2 = c2
  Calls = {c1, c2}
  MaxGoals = 2
  MaxKeys = 1
  Faults <- AllFaults
INVARIANTS DiscoveryBeforeDocs HandoffApproved
PROPERTIES ConfirmedOnce
SYMMETRY Symmetry
VIEW Told
CHECK_DEADLOCK FALSE
