CONSTANTS
  Users = {a, b}
  Contracts = {k1}
  Clauses = {c1}
  TitleOf <- MCTitleOf
  PartySets <- MCPartySets
  MaxOpen = 1
  None = None
  Local <- MCLocal
  MaxAsked = 3
  MaxCrashes = 1
SPECIFICATION Spec
CHECK_DEADLOCK FALSE
PROPERTIES
  DeclinedSendsNothing
