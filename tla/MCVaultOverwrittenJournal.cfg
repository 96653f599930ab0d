SPECIFICATION Spec
CONSTANTS
  File = {f1}
  Store <- SmallStore
  Passphrase = {p1, p2}
  MaxDek = 2
  MaxSalt = 2
  MaxKey = 2
  MaxCrashes = 2
  MaxFaults = 2
  MaxLate = 0
  MaxTypos = 0
  MaxLosses = 0
  None = None
CHECK_DEADLOCK FALSE
PROPERTY RotationEndsWhole
