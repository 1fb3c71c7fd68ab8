CONSTANTS
  Party = {p1, p2, p3}
  Texts <- AllTexts
  Opens <- Complete
  Arrivals <- HonestArrivals
  MaxClaims = 3
SYMMETRY Symmetry
SPECIFICATION Spec
CHECK_DEADLOCK FALSE
INVARIANTS
  EvidenceIsGenuine
