CONSTANTS
  N = 2
  Persistent = TRUE
  MaxClaims = 3
SPECIFICATION FairSpec
CHECK_DEADLOCK FALSE
PROPERTIES
  Timeliness
