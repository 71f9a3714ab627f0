SPECIFICATION FairSpec
CONSTANTS
  c1 = c1
  c2 = c2
  c3 = c3
  None = None
  Clients <- ThreeClients
  Modes <- BothModes
  MaxPlayers = 2
  Leavers <- FirstClient
  MaxMatches = 3
CHECK_DEADLOCK FALSE
INVARIANTS
  TypeOK
  SeatsAreTheirs
  StartedWithEverybody
PROPERTIES
  NobodyJoinsLate
  FullMatchStarts
