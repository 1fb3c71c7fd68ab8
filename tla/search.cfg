CONSTANTS
  Texts = {t1, t2}
  Here = here
  Peers = {p1}
  Holds <- MCHolds
  Limit = 2
  MaxSearches = 2
SPECIFICATION FairSpec
CHECK_DEADLOCK FALSE
INVARIANTS
  TypeOK
  ShownIsRecent
  NotFoundIsTrue
  SpinnerIsOwed
PROPERTIES
  SpinnerStops
