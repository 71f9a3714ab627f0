SPECIFICATION FairSpec
CONSTANTS
  MaxPlayers = 3
  Teams <- Alternating
  Garbage <- AllSetOrClear
  Leavers <- FirstPlayer
  Chatters <- FirstTwo
  MaxChats = 2
  MaxActions = 1
CHECK_DEADLOCK FALSE
INVARIANTS
  TypeOK
  MutexProtects
  FreedWhenUnused
  EndReadable
PROPERTIES
  RoundsGoOn
  ChatReadable
  EndUnlessOrphaned
