SPECIFICATION StoreSpec
CONSTANTS
  p1 = p1
  p2 = p2
  Procs = {p1, p2}
  NoLease = NoLease
  Torn = Torn
  LeaseTTL = 1
  MaxTime = 1
  MaxDeaths = 1
  MaxDrops = 1
  MaxPuts = 2
SYMMETRY StoreSymmetry
INVARIANTS StoreTypeOK FileSingleWriter TornHasWriter SettledStore
PROPERTIES ImplementsLease
