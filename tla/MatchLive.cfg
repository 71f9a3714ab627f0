SPECIFICATION FairSpec
CONSTANTS
  Height = 3
  Width = 3
  MaxPlayers = 3
  Mode = 1
  Ticks = 2
  WallCount = 0
  HeapBytes <- NoHeapByte
  Leavers <- FirstTwo
  Inputs <- SouthAndBombs
  MaxMessages = 1
PROPERTIES
  KeepsFairPromise
  RoundsGoOn
  BuffersDrain
