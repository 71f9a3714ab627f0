SPECIFICATION BroadcastSpec
CONSTANTS
  Height = 3
  Width = 3
  MaxPlayers = 2
  Mode = 0
  Ticks = 1
  WallCount = 0
  HeapBytes <- NoHeapByte
  Leavers <- Nobody
  Inputs <- SouthAndBombs
  MaxMessages = 1
  MaxAir = 2
  MaxFaults = 0
PROPERTY EarlyIgnored
