SPECIFICATION Spec
CONSTANTS
  e1 = e1
  e2 = e2
  e3 = e3
  big = big
  huge = huge
  Event = {e1, e2, e3, big, huge}
  Instance = {i1, i2}
  Size <- SmallSize
  MaxBytes = 2
  MaxVerifyBytes = 3
  MaxDamage = 1
  Windows = TRUE
  NoInstance = NoInstance
  NoCheckpoint = NoCheckpoint
  Missing = Missing
  NoEvent = NoEvent
SYMMETRY Symmetry
CHECK_DEADLOCK FALSE
INVARIANTS
  NothingLost
  UndamagedLogIsAccepted
  OkMeansIntact
PROPERTY RefinesAuditTrail
