SPECIFICATION Spec
CONSTANTS
  Callers = {c1, c2}
  Principals = {p1, p2}
  None = None
  MaxChanges = 4
SYMMETRY Symmetry
INVARIANTS
  TypeOK
  EntitledAnswer
  RouteIsManaged
