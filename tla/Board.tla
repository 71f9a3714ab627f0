------------------------------- MODULE Board -------------------------------
(***************************************************************************)
(* The playing field of a match: cell codes (common/messages.h), the start *)
(* corners and teams, where a movement leads and which cells a bomb        *)
(* reaches (server/match.c).                                               *)
(*                                                                         *)
(* The code addresses the cell (i, j) as grid[i * width + j].  Here that   *)
(* cell is the pair <<i, j>>.  A player who left the field has position    *)
(* -1, whose row and column C computes as -1 / width = 0 and               *)
(* -1 % width = -1: the pair Off.  grid[-1] is the byte before the array.  *)
(***************************************************************************)
EXTENDS Integers

CONSTANTS
  Height,      (* HEIGHT, 15 in serveur.c                                  *)
  Width,       (* WIDTH, 15 in serveur.c                                   *)
  MaxPlayers   (* MAX_PLAYERS_PER_MATCH, 4 in server/context.h             *)

(***************************************************************************)
(* The dimensions are uint8_t, initialize_grid takes rand() modulo         *)
(* height - 2 and width - 2, and get_player_initial_position knows four    *)
(* players.                                                                *)
(***************************************************************************)
ASSUME BoardAssumption ==
  /\ Height \in 3..255
  /\ Width \in 3..255
  /\ MaxPlayers \in 1..4

Players == 0..(MaxPlayers - 1)

Cells == (0..(Height - 1)) \X (0..(Width - 1))

Off == <<0, -1>>

(* Everything players_current_position holds and grid is indexed with.     *)
Positions == Cells \cup {Off}

-----------------------------------------------------------------------------
EMPTY_CELL          == 0
INDESTRUCTIBLE_WALL == 1
DESTRUCTIBLE_WALL   == 2
BOMB                == 3
EXPLODED_BY_BOMB    == 4
PLAYER_OFFSET       == 5

ENCODE_PLAYER(p) == PLAYER_OFFSET + p

CellCodes == 0..(PLAYER_OFFSET + MaxPlayers - 1)

Walls == {INDESTRUCTIBLE_WALL, DESTRUCTIBLE_WALL}

(* What a player may walk on.                                              *)
Walkable == {EMPTY_CELL, EXPLODED_BY_BOMB}

-----------------------------------------------------------------------------
(* get_player_initial_position: clockwise from the top left corner.        *)
InitialPosition(p) ==
  CASE p = 0 -> <<0, 0>>
    [] p = 1 -> <<0, Width - 1>>
    [] p = 2 -> <<Height - 1, Width - 1>>
    [] p = 3 -> <<Height - 1, 0>>

(* get_player_team: opposite corners play together.                        *)
Team(p) == IF p \in {0, 2} THEN 0 ELSE 1

(* initialize_grid: pillars on the odd interior cells, destructible walls  *)
(* on some of the other interior cells.                                    *)
Interior == (1..(Height - 2)) \X (1..(Width - 2))

Pillars == {c \in Interior : c[1] % 2 = 1 /\ c[2] % 2 = 1}

-----------------------------------------------------------------------------
MOVE_NORTH == 0
MOVE_EAST  == 1
MOVE_SOUTH == 2
MOVE_WEST  == 3

Movements == {MOVE_NORTH, MOVE_EAST, MOVE_SOUTH, MOVE_WEST}

(***************************************************************************)
(* The cell a movement leads to; outside Cells when the code answers       *)
(* OUT_OF_BOUNDS.  From Off the index arithmetic of move_player still      *)
(* gives cells: -1 + 1 is cell (0, 0) and -1 + width is cell               *)
(* (0, width - 1), and has_moved_out_of_bounds (row 0, column -1) objects  *)
(* to neither.                                                             *)
(***************************************************************************)
Target(from, action) ==
  CASE action = MOVE_NORTH -> <<from[1] - 1, from[2]>>
    [] action = MOVE_EAST  -> <<from[1], from[2] + 1>>
    [] action = MOVE_SOUTH -> IF from = Off THEN <<0, Width - 1>>
                              ELSE <<from[1] + 1, from[2]>>
    [] action = MOVE_WEST  -> <<from[1], from[2] - 1>>

(* Row and column are stored in uint8_t fields (Bomb, CellStatusUpdate).   *)
AsBytes(c) == <<c[1], c[2] % 256>>

-----------------------------------------------------------------------------
(***************************************************************************)
(* The cells explode_bomb visits around a bomb, in its order: the bomb's   *)
(* own cell, two cells north, south, west and east, then the diagonals.    *)
(***************************************************************************)
Reach ==
  << <<0, 0>>, <<-1, 0>>, <<-2, 0>>, <<1, 0>>, <<2, 0>>, <<0, -1>>, <<0, -2>>,
     <<0, 1>>, <<0, 2>>, <<-1, -1>>, <<-1, 1>>, <<1, -1>>, <<1, 1>> >>

ReachEnd == 14

(* The first cell of each direction, from where a wall or the edge ends    *)
(* the direction.                                                          *)
Nearest == {2, 4, 6, 8}

Reached(center, k) ==
  <<center[1] + Reach[k][1], center[2] + Reach[k][2]>>

=============================================================================
