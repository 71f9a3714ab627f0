SPECIFICATION Spec
CONSTANTS
  Height = 4
  Width = 3
  MaxPlayers = 2
  Mode = 0
  Ticks = 1
  WallCount = 1
  HeapBytes <- NoHeapByte
  Leavers <- FirstPlayer
  Inputs <- AllActions
  MaxMessages = 3
INVARIANTS
  TypeOK
  PositionsMatchGrid
  NoDudOnField
  NobodySurvivesNextToBlast
  Inductive
PROPERTIES
  WallsOnlyFall
  BlastsStayInReach
  KeepsPromise
