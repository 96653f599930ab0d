SPECIFICATION Spec
CONSTANTS
  Call = {c1, c2}
  Signature = {s1}
  Kinds = {"agent", "desktop"}
  MaxEpoch = 2
  MaxLost = 1
  None = None
SYMMETRY Symmetry
CONSTRAINTS OneKind Unfinished
CHECK_DEADLOCK FALSE
INVARIANTS
  OneDecision
  ExecutedWithConsent
  PromptHasRequest
  OpsHaveOwners
VIEW Look
