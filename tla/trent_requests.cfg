CONSTANTS
  Party = {p1, p2, p3}
  Texts <- AllTexts
  Opens <- Complete
  Arrivals <- AnyArrivals
  MaxClaims = 3
SYMMETRY Symmetry
CONSTRAINT FewFound
SPECIFICATION Spec
CHECK_DEADLOCK FALSE
INVARIANTS
  TypeOK
  ResolvedForGood
  AbortedIsAccountedFor
  CancelNeedsAbort
  FirstClaimsAreAnswered
  RoundOneOpens
PROPERTIES
  ImplementsVerdict
