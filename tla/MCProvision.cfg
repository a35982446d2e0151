SPECIFICATION Spec
CONSTANTS
  r1 = r1
  r2 = r2
  r3 = r3
  bookkeeping = bookkeeping
  connector = connector
  Runs = {r1, r2, r3}
  Principals = {bookkeeping, connector}
  For <- MCFor
  Soak = {connector}
  Absent = Absent
  Empty = Empty
  TTL = 1
  MaxTime = 1
  MaxCuts = 1
SYMMETRY ProvisionSymmetry
CHECK_DEADLOCK FALSE
INVARIANTS ProvisionTypeOK HandedOutWorks SecretIsACredential MintedWhole
