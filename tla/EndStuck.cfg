SPECIFICATION FairSpec
CONSTANTS
  MaxPlayers = 2
  Teams <- Alternating
  Garbage <- AllSetOrClear
  Leavers <- Nobody
  Chatters <- FirstTwo
  MaxChats = 2
  MaxActions = 0
CHECK_DEADLOCK FALSE
PROPERTY EndMessageSent
