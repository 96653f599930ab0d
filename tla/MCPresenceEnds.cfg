SPECIFICATION FairSpec
CONSTANTS
  Attempt = {a1, a2}
  MAX_WAITING = 1
  None = None
CHECK_DEADLOCK FALSE
PROPERTIES
  VerifyReturns
  SlotComesFree
