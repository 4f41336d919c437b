SPECIFICATION PipelineSpec
CONSTANTS
  Calls = {c1}
  IterationCap = 2
  MaxQuality = 2
  Faults = {"io", "crash"}
INVARIANTS
  VerifiedDeliverable
  ReportsPrecedeMoves
PROPERTIES
  ToolSpec
  TerminalStatesFinal
CHECK_DEADLOCK FALSE
