SPECIFICATION Spec
CONSTANTS
  Attempt = {a1, a2, a3}
  MAX_WAITING = 1
  None = None
SYMMETRY Symmetry
CHECK_DEADLOCK FALSE
INVARIANTS
  SlotOwned
  QueueBounded
PROPERTIES
  KeepsContract
