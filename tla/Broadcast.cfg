SPECIFICATION BroadcastSpec
CONSTANTS
  Height = 3
  Width = 3
  MaxPlayers = 2
  Mode = 1
  Ticks = 1
  WallCount = 0
  HeapBytes <- NoHeapByte
  Leavers <- FirstPlayer
  Inputs <- SouthAndBombs
  MaxMessages = 2
  MaxAir = 2
  MaxFaults = 1
INVARIANTS
  BoardIsReal
  PartialsSuffice
PROPERTIES
  Converges
