SPECIFICATION Spec
CONSTANTS
  c1 = c1
  c2 = c2
  c3 = c3
  None = None
  Clients <- ThreeClients
  Modes <- OneMode
  MaxPlayers = 2
  Leavers <- Nobody
  MaxMatches = 3
CHECK_DEADLOCK FALSE
INVARIANT StartsOnce
