SPECIFICATION ScopeSpec
CONSTANTS
  Projects = {p1, p2, p3}
  Operations = {o1, o2, o3}
  None = None
SYMMETRY Symmetry
INVARIANTS
  RegisterOwned
  BoundaryArmed
PROPERTIES
  DeniedByAnother
