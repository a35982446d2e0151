SPECIFICATION Spec
CONSTANTS
  Handlers = {h1, h2}
  Logins = {l1, l2}
  Users = {u1, u2}
  None = None
  MaxRefreshes = 2
  MaxCrashes = 1
SYMMETRY Symmetry
INVARIANTS
  OneSessionPerLogin
  NamedPrincipalsComplete
  OneUserOnePrincipal
  OneUsablePair
  SessionSurvives
  TypeInv
PROPERTIES
  RotatedStaysDead
