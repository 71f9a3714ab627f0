-------------------------- MODULE MatchInvariant ---------------------------
(***************************************************************************)
(* The inductive invariant behind the safety properties of Match: what     *)
(* holds between any two steps, including in the middle of move_player,    *)
(* drop_bomb, explode_bomb and kill_player.                                *)
(***************************************************************************)
EXTENDS Match

(* Where the updater is determines what its loop variables may be.         *)
ControlInv ==
  /\ pc \in {"move", "count"} => cursor \in 0..MaxPlayers
  /\ pc \in {"walk", "drop", "list"} => cursor \in Players
  /\ pc = "walk" => walk[2] \in Cells
  /\ pc = "bombs" => cursor \in 1..(Len(bombs) + 1)
  /\ pc = "blast" => /\ cursor \in DOMAIN bombs
                     /\ bombs[cursor].cell \in Cells
                     /\ blast \in 1..ReachEnd
  /\ \A i \in DOMAIN bombs : bombs[i].seconds = 0 => pc = "blast" /\ i = cursor

(* Whatever names a cell to be overwritten names none with a wall.         *)
WallFree(c) == c \in Cells => grid[c] \notin Walls

WallInv ==
  /\ \A p \in Players : WallFree(position[p]) /\ WallFree(leaving[p])
  /\ pc = "walk" => WallFree(walk[1]) /\ WallFree(walk[2])
  /\ \A i \in DOMAIN bombs : WallFree(bombs[i].cell)
  /\ \A c \in Cells : exploded[c] = EXPLODED_BY_BOMB => grid[c] \notin Walls

(* The grid and the positions agree, kill_player works on the position it  *)
(* read, move_player on the one it tested.                                 *)
NoKillBetween ==
  /\ pc \in {"walk", "list"} => ~KillUnderWay
  /\ pc = "walk" => walk[1] = position[cursor] /\ grid[walk[2]] \in Walkable
  /\ \A p \in Players : tcp[p] \in {"erase", "mark", "unplace"} => position[p] = leaving[p]

EachIsShown ==
  \A p \in Players :
    OnField(p) => IF Departing(p) THEN grid[position[p]] = EMPTY_CELL ELSE Shows(p)

ShownIsThere ==
  \A p \in Players, c \in Cells : grid[c] = ENCODE_PLAYER(p) => position[p] = c

OneOnACell ==
  \A p, q \in Players : OnField(p) /\ position[p] = position[q] => p = q

(* A blast has killed everybody on the cells next to the bomb it has       *)
(* visited, so that clearing the bomb's cell at the end hides no player.   *)
Near == {1} \cup Nearest \cup 10..13

BlastSwept ==
  pc = "blast" => \A p \in Players, k \in Near :
    k < blast /\ OnField(p) /\ ~Departing(p) => position[p] # Reached(bombs[cursor].cell, k)

(* A bomb on the grid is listed, or drop_bomb is about to.                 *)
BombsListed ==
  \A c \in Cells :
    grid[c] = BOMB => \/ \E i \in DOMAIN bombs : bombs[i].cell = c
                      \/ pc = "list" /\ position[cursor] = c

(* All this holds unless a kill_player without the mutex met a step of the *)
(* updater.                                                                *)
Calm == NoKillBetween /\ EachIsShown /\ ShownIsThere /\ OneOnACell /\ BlastSwept /\ BombsListed

FieldInv == ~raced => Calm

(* When a blast visits the second cell of a direction no wall has stopped  *)
(* it at the first.                                                        *)
BlastInv ==
  pc = "blast" /\ blast - 1 \in Nearest =>
    LET c == Reached(bombs[cursor].cell, blast - 1)
    IN c \in Cells /\ grid[c] \notin Walls

(* should_finish_match overlooks no survivor: who is not counted although  *)
(* his turn has passed is dead, and stays so.                              *)
CountInv ==
  /\ pc = "count" => \A p \in Players :
       p < cursor /\ status[p] = READY_TO_PLAY => p \in alive
  /\ ~Playing => /\ result = FinishResult(alive)
                 /\ result # NO_WINNER_YET
                 /\ \A p \in Players : status[p] = READY_TO_PLAY => p \in alive

(* Everything together.                                                    *)
Inductive ==
  /\ TypeOK /\ ControlInv /\ WallInv /\ FieldInv /\ BlastInv /\ CountInv

=============================================================================
