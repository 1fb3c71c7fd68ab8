CONSTANTS
  N = 2
  Users = {1, 2}
  Lists <- AnyLists
  Numbers = {0, 1}
  Cycle = 2
SPECIFICATION Spec
CHECK_DEADLOCK FALSE
INVARIANTS
  ListIsSetUpTogether
