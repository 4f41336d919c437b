SPECIFICATION IntakeSpec
CONSTANTS
  c1 = c1
  c2 = c2
  Calls = {c1, c2}
  MaxContents = 3
  MaxLoops = 2
  Faults <- AllFaults
INVARIANT LoopHasVision
PROPERTIES ApprovalLocksReviewed ApprovedVisionKept
SYMMETRY Symmetry
CHECK_DEADLOCK FALSE
