CONSTANTS
  N = 3
  Persistent = TRUE
SPECIFICATION FairSpec
CHECK_DEADLOCK FALSE
INVARIANTS
  TypeOK
  RoundsInStep
  RequestsAreHonest
  ClearSignatureIsCovered
  NoWayBackOnceFinalized
  ResolvedIsUsable
  NoRoundIsLeftComplete
PROPERTIES
  ImplementsOutcome
  AllFinalized
