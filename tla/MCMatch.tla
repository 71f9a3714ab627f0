------------------------------ MODULE MCMatch ------------------------------
(***************************************************************************)
(* Small matches for TLC: two players at the upper corners of a field of   *)
(* 4 x 3 or 3 x 4 (a pillar, one interior cell where a destructible wall   *)
(* may stand), or three at corners of 3 x 3 (a pillar in the middle).      *)
(* Every blast spans most of such a field, so that walls, edges, bombs and *)
(* players all come into reach.                                            *)
(***************************************************************************)
EXTENDS MatchInvariant

(* malloc leaves the high byte of the block's size before the grid.        *)
NoHeapByte == {EMPTY_CELL}

AllActions == Actions
SouthAndBombs == {MOVE_SOUTH, MOVE_EAST, DROP_BOMB}

Nobody == {}
FirstPlayer == {0}
FirstTwo == {0, 1}

=============================================================================
