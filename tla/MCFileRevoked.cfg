SPECIFICATION StoreSpec
CONSTANTS
  p1 = p1
  p2 = p2
  Procs = {p1, p2}
  NoLease = NoLease
  Torn = Torn
  LeaseTTL = 1
  MaxTime = 1
  MaxDeaths = 0
  MaxDrops = 1
  MaxPuts = 1
SYMMETRY StoreSymmetry
INVARIANTS RevokedTokenIsGone
