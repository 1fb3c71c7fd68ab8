CONSTANTS
  Users = {a, b, c}
  Contracts = {k1, k2}
  Clauses = {c1}
  TitleOf <- MCTitleOf
  PartySets <- MCPartySets
  MaxOpen = 2
  None = None
  Local <- MCLocal
  MaxAsked = 2
  MaxCrashes = 1
SPECIFICATION FairSpec
CHECK_DEADLOCK FALSE
INVARIANTS
  TypeOK
  NeutralRowsAgree
  RefusedIsSettled
PROPERTIES
  NeverUnsettled
  OnlyOldEditsChangeAccepted
  AcceptedRunsAgain
