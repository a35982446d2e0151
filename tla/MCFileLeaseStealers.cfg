SPECIFICATION Spec
CONSTANTS
  p1 = p1
  p2 = p2
  p3 = p3
  Procs = {p1, p2, p3}
  NoLease = NoLease
  LeaseTTL = 2
  MaxTime = 5
  MaxDeaths = 1
  MaxDrops = 0
SYMMETRY ProcSymmetry
INVARIANTS OneStealerWins
