SPECIFICATION KnowledgeSpec
CONSTANTS
  c1 = c1
  c2 = c2
  good = good
  poor = poor
  Calls = {c1, c2}
  Urls = {good, poor}
  Credible = {good}
  MaxLine = 2
  SearchCap = 1
  MaxCopies = 2
  BrokenRemovals = {0, 2}
  Faults <- AllFaults
INVARIANTS Deduplicated RecordComplete
PROPERTIES IndexKept PassedIsCited
VIEW Unfailed
SYMMETRY Symmetry
CHECK_DEADLOCK FALSE
