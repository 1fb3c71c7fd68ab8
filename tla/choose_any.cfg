CONSTANTS
  N = 2
  Users = {1, 2, 3}
  Lists <- SomeLists
  Numbers = {0, 1}
  Cycle = 2
SPECIFICATION FairSpec
CHECK_DEADLOCK FALSE
INVARIANTS
  TypeOK
  TrentIsKnownToAll
  EveryoneDraws
  RestartNeverEnds
PROPERTIES
  ImplementsAgreement
  EveryoneGoesOn
