SPECIFICATION Spec
CONSTANTS
  p1 = p1
  p2 = p2
  Calls = {c1, c2}
  Projects = {p1, p2}
  Inputs <- SomeInputs
  Modes <- SomeModes
  RespondSurface = TRUE
  TotalCap <- SomeCaps
  MaxCost = 1
  MaxSpent = 4
  MaxLegacy = 1
  Faults = {"io", "crash", "read"}
INVARIANTS
  AgentCallsTypeOK
  AuditTellsOutcome
  OverspendBounded
  RanAuthorized
PROPERTIES
  ImplementsApproval
  NewProjectUnblocked
  CallsAnswered
CHECK_DEADLOCK FALSE
