SPECIFICATION Spec
CONSTANTS
  w1 = w1
  w2 = w2
  e1 = e1
  s1 = s1
  Workers = {w1, w2}
  Events = {e1}
  Subs = {s1}
  NoLease = NoLease
  NoRow = NoRow
  NoEvent = NoEvent
  NoSub = NoSub
  Policies = {1}
  LeaseTTL = 1
  LostAcks = FALSE
  MaxTime = 0
  MaxReplays = 2
  MaxCrashes = 0
SYMMETRY BusSymmetry
INVARIANTS NeverDoubleDelivered
