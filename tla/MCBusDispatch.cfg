SPECIFICATION FairSpec
CONSTANTS
  w1 = w1
  w2 = w2
  e1 = e1
  s1 = s1
  s2 = s2
  Workers = {w1, w2}
  Events = {e1}
  Subs = {s1, s2}
  NoLease = NoLease
  NoRow = NoRow
  NoEvent = NoEvent
  NoSub = NoSub
  Policies = {1, 2}
  LeaseTTL = 1
  LostAcks = TRUE
  MaxTime = 1
  MaxReplays = 1
  MaxCrashes = 1
INVARIANTS FirstAttemptsAlone HandledOnce
PROPERTIES RowsMoveForward EveryMatchIsAttempted ImplementsLeases
