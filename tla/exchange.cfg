CONSTANTS
  N = 3
  Persistent = TRUE
  MaxClaims = 4
SPECIFICATION FairSpec
CHECK_DEADLOCK FALSE
INVARIANTS
  OnlyLateClaimsFail
  AccusedOfAbortOnly
PROPERTIES
  ImplementsSign
  EarlyRefusalIsSettled
