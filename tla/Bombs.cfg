SPECIFICATION Spec
CONSTANTS
  MaxPlayers = 2
  Ticks = 1
  BOMB_TIME_TO_EXPLODE_SECONDS = 3
  Nodes <- SevenNodes
  NULL = NULL
  n1 = n1
  n2 = n2
  n3 = n3
  n4 = n4
  n5 = n5
  n6 = n6
  n7 = n7
SYMMETRY AnyOrder
CHECK_DEADLOCK FALSE
INVARIANTS
  ListWhole
  BombsBounded
PROPERTIES
  OldestFirst
  ImplementsQueue
