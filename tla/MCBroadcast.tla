----------------------------- MODULE MCBroadcast -----------------------------
(***************************************************************************)
(* Two players on a field of 3 x 3 with a pillar in the middle, and one    *)
(* client who watches, for TLC.                                            *)
(***************************************************************************)
EXTENDS Broadcast

NoHeapByte == {EMPTY_CELL}
SouthAndBombs == {MOVE_SOUTH, DROP_BOMB}
FirstPlayer == {0}
Nobody == {}

=============================================================================
