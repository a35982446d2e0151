SPECIFICATION Spec
CONSTANTS
  Callers = {c1, c2}
  Clients = {p1}
  None = None
  Sec = 2
  TTL = 4
  Skew = 3
  MaxTime = 5
  MaxChanges = 2
SYMMETRY Symmetry
INVARIANTS
  TypeOK
  FreshBearer
PROPERTIES
  DeadCredentialRunsOut
  RotationTakesEffect
