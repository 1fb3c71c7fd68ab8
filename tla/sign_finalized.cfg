CONSTANTS
  N = 2
  Persistent = TRUE
SPECIFICATION Spec
CHECK_DEADLOCK FALSE
INVARIANTS
  FinalizedHasAllSignatures
