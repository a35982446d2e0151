SPECIFICATION SoakSpec
CONSTANTS
  w1 = w1
  w2 = w2
  e1 = e1
  c1 = c1
  c2 = c2
  s1 = s1
  Workers = {w1, w2}
  Events = {e1}
  Subs = {c1, c2, s1}
  CaptureSubs = {c1, c2}
  ObsVaults <- MCObsVaults
  RealVaults <- MCRealVaults
  NoVault = NoVault
  NoLease = NoLease
  NoRow = NoRow
  NoEvent = NoEvent
  NoSub = NoSub
  Policies = {5}
  LeaseTTL = 1
  LostAcks = TRUE
  MaxTime = 1
  MaxReplays = 1
  MaxCrashes = 1
SYMMETRY SoakSymmetry
INVARIANTS SoakTypeOK SeenOncePerBoot LinesMatchInbox AcceptedIsObserved RealVaultUntouched
