------------------------------ MODULE MCLobby -------------------------------
(***************************************************************************)
(* A few clients and matches of two players for TLC.                       *)
(***************************************************************************)
EXTENDS Lobby

CONSTANTS c1, c2, c3

ThreeClients == {c1, c2, c3}
BothModes == {0, 1}
OneMode == {0}
Nobody == {}
FirstClient == {c1}

=============================================================================
