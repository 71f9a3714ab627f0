SPECIFICATION Spec
CONSTANTS
  Height = 3
  Width = 4
  MaxPlayers = 2
  Mode = 0
  Ticks = 1
  WallCount = 0
  HeapBytes <- NoHeapByte
  Leavers <- Nobody
  Inputs <- SouthAndBombs
  MaxMessages = 3
INVARIANT DeadStayOff
