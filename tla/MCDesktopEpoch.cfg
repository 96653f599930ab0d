SPECIFICATION Spec
CONSTANTS
  Call = {c1}
  Signature = {s1}
  Kinds = {"agent"}
  MaxEpoch = 3
  MaxLost = 1
  None = None
CHECK_DEADLOCK FALSE
INVARIANTS
  ApprovedInItsEpoch
