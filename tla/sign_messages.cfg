CONSTANTS
  N = 3
  Persistent = FALSE
SPECIFICATION Spec
CHECK_DEADLOCK FALSE
INVARIANTS
  RoundsInStep
  NoWayBackOnceFinalized
PROPERTIES
  ImplementsOutcome
