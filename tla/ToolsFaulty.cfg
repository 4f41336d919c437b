SPECIFICATION ToolSpec
CONSTANTS
  IterationCap = 5
  Faults = {"io", "crash", "torn"}
INVARIANTS
  TypeOK
  AuditBracketsState
  EscalationEarned
  LoopBacksCharged
PROPERTY
  CounterNeverDecreases
