SPECIFICATION FairSpec
CONSTANTS
  Call = {c1}
  Signature = {s1}
  Kinds = {"agent", "desktop", "unlock"}
  MaxEpoch = 3
  MaxLost = 1
  None = None
CHECK_DEADLOCK FALSE
INVARIANTS
  GatedInItsEpoch
PROPERTIES
  CallsEnd
