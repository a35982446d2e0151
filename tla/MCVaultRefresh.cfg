SPECIFICATION FairSpec
CONSTANTS
  c1 = c1
  c2 = c2
  Callers = {c1, c2}
  NoLease = NoLease
  NoConn = NoConn
  Skew = 1
  LeaseTTL = 1
  WaitTimeout = 2
  Lifetime = 2
  MaxTime = 1
  MaxDisturbances = 1
INVARIANTS TypeOK OneLiveOwner NoSpentTokenPresented StoredTokenIsLive
PROPERTIES StoreNeverGoesBack EveryCallEnds ImplementsLease
