SPECIFICATION FairSpec
CONSTANTS
  File = {f1}
  Store <- SmallStore
  Passphrase = {p1, p2}
  MaxDek = 3
  MaxSalt = 2
  MaxKey = 2
  MaxCrashes = 2
  MaxFaults = 1
  MaxLate = 1
  MaxTypos = 0
  MaxLosses = 1
  None = None
CHECK_DEADLOCK FALSE
INVARIANTS
  DataDecryptable
  OneDekAtRest
PROPERTIES
  Reopens
