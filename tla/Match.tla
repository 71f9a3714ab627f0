------------------------------- MODULE Match -------------------------------
(***************************************************************************)
(* One running match of the server: everything that happens to a Match     *)
(* between start_match and the end of finish_match.                        *)
(*                                                                         *)
(* Threads: the updater (match_updater_thread_handler), the UDP receiver   *)
(* (match_handler) and one TCP handler per player (tcp_player_handler).    *)
(* The updater holds match->mutex from the first to the last player of     *)
(* process_partial_updates and from the first to the last bomb of          *)
(* explode_bombs; the UDP receiver takes it for one message.  Three        *)
(* accesses take no mutex, and other threads' steps come between them and  *)
(* the rest: the DEAD test of handle_action_message, the status reads of   *)
(* should_finish_match, and kill_player when a connection closes.          *)
(*                                                                         *)
(* The numbering of action messages is the business of module ActionNums;  *)
(* here a buffered action may be refused as out of date.                   *)
(*                                                                         *)
(* Grain: move_player reads the position and tests the target in one step  *)
(* and writes in the next, drop_bomb writes the cell in one step and reads *)
(* the position again for its list entry in the next: a kill_player        *)
(* without the mutex can come between.  The work on one cell of a blast is *)
(* one step.                                                               *)
(*                                                                         *)
(* A definition named X_Defect is X with a defect; Next does not use it.   *)
(***************************************************************************)
EXTENDS Board, SequencesExt

CONSTANTS
  Mode,         (* FOUR_OPPONENTS_MODE or TEAM_MODE                        *)
  Ticks,        (* LONG_FREQ_MS / freq, partial updates per round          *)
  WallCount,    (* destructible walls; height * width / 3 in the code      *)
  HeapBytes,    (* what the byte before the grid may hold                  *)
  Leavers,      (* players who may close their connection                  *)
  Inputs,       (* the actions the clients send                            *)
  MaxMessages   (* bound on the action messages that arrive                *)

FOUR_OPPONENTS_MODE == 0
TEAM_MODE           == 1

BOMB_TIME_TO_EXPLODE_SECONDS == 3

DROP_BOMB          == 4
CANCEL_LATEST_MOVE == 5

Actions == Movements \cup {DROP_BOMB, CANCEL_LATEST_MOVE}

ASSUME MatchAssumption ==
  /\ Mode \in {FOUR_OPPONENTS_MODE, TEAM_MODE}
  /\ Ticks \in Nat \ {0}
  /\ WallCount \in Nat
  /\ HeapBytes \subseteq CellCodes /\ HeapBytes # {}
  /\ Leavers \subseteq Players
  /\ Inputs \subseteq Actions
  /\ MaxMessages \in Nat

(* PLAYER_STATUS; CONNECTED players do not occur in a started match.       *)
READY_TO_PLAY == 1
DEAD          == 2

(* An ActionBuf with is_pending = 0.                                       *)
NotPending == -1

NO_WINNER_YET        == -1
ALL_PLAYERS_ARE_DEAD == -2

NoMessage == <<>>

VARIABLES
  grid,           (* match->grid, and under Off the byte before it         *)
  exploded,       (* match->exploded_walls_bitmap, likewise                *)
  position,       (* match->players_current_position                       *)
  status,         (* match->player_status                                  *)
  movement,       (* match->latest_movements: pending action or NotPending *)
  drop,           (* match->latest_bombs: is_pending                       *)
  bombs,          (* the list from match->bombs_head to match->bombs_tail  *)
  pc,             (* where the updater is                                  *)
  walk,           (* player_position and new_position of move_player       *)
  tick,           (* its count of partial updates in this round            *)
  cursor,         (* its loop variable: player, or 1-based list position   *)
  blast,          (* index in Reach while a bomb explodes                  *)
  alive,          (* players should_finish_match has counted so far        *)
  result,         (* what should_finish_match returned                     *)
  movementUpdates,(* movement_updates of process_partial_updates           *)
  bombUpdates,    (* bomb_updates of process_partial_updates               *)
  receiver,       (* message the UDP receiver holds, waiting for the mutex *)
  received,       (* how many action messages have arrived                 *)
  tcp,            (* where each TCP handler is in kill_player              *)
  leaving,        (* player_position read by that kill_player              *)
  raced           (* history: the updater changed the field while some     *)
                  (* kill_player without the mutex was under way           *)

board   == <<grid, exploded, position, status, bombs>>
buffers == <<movement, drop>>
updates == <<movementUpdates, bombUpdates>>
loops   == <<walk, tick, cursor, blast, alive, result>>
network == <<receiver, received>>
leave   == <<tcp, leaving>>
vars == <<board, buffers, updates, pc, loops, network, leave, raced>>

-----------------------------------------------------------------------------
(* initialize_grid with the players on it; a player of "left" closed his   *)
(* connection while the match was waiting for players.                     *)
InitialCell(c, walls, left, byte) ==
  IF c = Off THEN byte
  ELSE IF c \in walls THEN DESTRUCTIBLE_WALL
  ELSE IF c \in Pillars THEN INDESTRUCTIBLE_WALL
  ELSE IF \E p \in Players \ left : c = InitialPosition(p)
       THEN ENCODE_PLAYER(CHOOSE p \in Players : c = InitialPosition(p))
       ELSE EMPTY_CELL

(* A match starts when every player is READY_TO_PLAY or DEAD (see          *)
(* can_start_match); the player whose message starts it is alive.  The     *)
(* kill_player of a player in "late" has not reached its last line.        *)
Start(walls, left, late, byte) ==
  /\ grid = [c \in Positions |-> InitialCell(c, walls, left, byte)]
  /\ exploded = [c \in Positions |-> EMPTY_CELL]
  /\ position = [p \in Players |-> IF p \in left \ late THEN Off ELSE InitialPosition(p)]
  /\ status = [p \in Players |-> IF p \in left THEN DEAD ELSE READY_TO_PLAY]
  /\ movement = [p \in Players |-> NotPending]
  /\ drop = [p \in Players |-> FALSE]
  /\ bombs = <<>>
  /\ pc = "round" /\ walk = <<Off, Off>> /\ tick = 0 /\ cursor = 0 /\ blast = 0
  /\ alive = {} /\ result = NO_WINNER_YET
  /\ movementUpdates = <<>> /\ bombUpdates = <<>>
  /\ receiver = NoMessage /\ received = 0
  /\ tcp = [p \in Players |-> IF p \in late THEN "unplace"
                              ELSE IF p \in left THEN "closed" ELSE "open"]
  /\ leaving = [p \in Players |-> InitialPosition(p)]
  /\ raced = FALSE

Init ==
  \E walls \in SUBSET (Interior \ Pillars), left \in SUBSET Leavers, byte \in HeapBytes :
    /\ Cardinality(walls) = WallCount
    /\ left # Players
    /\ \E late \in SUBSET left : Start(walls, left, late, byte)

-----------------------------------------------------------------------------
(* The mutex is held by the updater in these loops.                        *)
Locked == pc \in {"move", "walk", "drop", "list", "bombs", "blast"}

(* No result has been found yet; the other threads of the match run until  *)
(* finish_match has joined them.                                           *)
Playing == pc \notin {"finish", "done"}
Running == pc # "done"

(* kill_player between its first read and its last write.                  *)
KillUnderWay == \E p \in Players : tcp[p] \in {"erase", "mark", "unplace"}

(* Any step of the updater on the field, and a kill_player that begins     *)
(* when the updater is between two steps on the same cell.                 *)
WritesField == raced' = (raced \/ KillUnderWay)
KillBegins  == raced' = (raced \/ pc \in {"walk", "list"})

-----------------------------------------------------------------------------
(* The UDP receiver: handle_action_message up to pthread_mutex_lock.  The  *)
(* messages of dead players are dropped here, and only here.               *)
ReceiveAction(p, a) ==
  /\ Running
  /\ receiver = NoMessage
  /\ received < MaxMessages
  /\ status[p] # DEAD
  /\ receiver' = <<p, a>>
  /\ received' = received + 1
  /\ UNCHANGED <<board, buffers, updates, pc, loops, leave, raced>>

(* handle_action_message under the mutex.                                  *)
BufferAction ==
  /\ receiver # NoMessage
  /\ ~Locked
  /\ receiver' = NoMessage
  /\ LET p == receiver[1]
         a == receiver[2]
     IN \/ /\ a \in Movements                        \* update_latest_movement
           /\ movement' = [movement EXCEPT ![p] = a]
           /\ UNCHANGED drop
        \/ /\ a = DROP_BOMB                          \* update_latest_bomb_drop
           /\ drop' = [drop EXCEPT ![p] = TRUE]
           /\ UNCHANGED movement
        \/ /\ a = CANCEL_LATEST_MOVE
           /\ movement' = [movement EXCEPT ![p] = NotPending]
           /\ UNCHANGED drop
        \/ /\ a # CANCEL_LATEST_MOVE                 \* its number is out of date
           /\ UNCHANGED buffers
  /\ UNCHANGED <<board, updates, pc, loops, received, leave, raced>>

-----------------------------------------------------------------------------
(* The updater: process_partial_updates takes the mutex ...                *)
BeginPass ==
  /\ pc = "round"
  /\ pc' = "move"
  /\ cursor' = 0
  /\ UNCHANGED <<board, buffers, updates, walk, tick, blast, alive, result, network, leave, raced>>

(* ... and for each player tests his movement (move_player up to SUCCESS), *)
MayMove_NoBounds(p) ==
  /\ movement[p] # NotPending
  /\ Target(position[p], movement[p]) \in Cells
       => grid[Target(position[p], movement[p])] \in Walkable

MayMove_ThroughWalls(p) ==
  /\ movement[p] # NotPending
  /\ Target(position[p], movement[p]) \in Cells
  /\ grid[Target(position[p], movement[p])] \in Walkable \cup {DESTRUCTIBLE_WALL}

MayMove(p) ==
  /\ movement[p] # NotPending
  /\ Target(position[p], movement[p]) \in Cells
  /\ grid[Target(position[p], movement[p])] \in Walkable

BeginMove ==
  /\ pc = "move" /\ cursor \in Players
  /\ MayMove(cursor)
  /\ walk' = <<position[cursor], Target(position[cursor], movement[cursor])>>
  /\ pc' = "walk"
  /\ WritesField
  /\ UNCHANGED <<board, buffers, updates, tick, cursor, blast, alive, result, network, leave>>

(* which there may be none of, or move_player refuses: out of bounds or    *)
(* occupied.                                                               *)
StayInPlace_StillPending ==
  /\ pc = "move" /\ cursor \in Players
  /\ ~MayMove(cursor)
  /\ pc' = "drop"
  /\ UNCHANGED <<board, buffers, updates, loops, network, leave, raced>>

StayInPlace ==
  /\ pc = "move" /\ cursor \in Players
  /\ ~MayMove(cursor)
  /\ movement' = [movement EXCEPT ![cursor] = NotPending]
  /\ pc' = "drop"
  /\ UNCHANGED <<board, drop, updates, loops, network, leave, raced>>

Update(c, code) == [cell |-> AsBytes(c), status |-> code]

(* What a cell shows when its player has gone: the bomb he stood on, or    *)
(* what the cell was before him.                                           *)
LeftBehind(c) == IF grid[c] = BOMB THEN BOMB ELSE exploded[c]

(* move_player moves him, ...                                              *)
MovePlayer ==
  /\ pc = "walk"
  /\ LET from == walk[1]
         to   == walk[2]
     IN /\ grid' = [grid EXCEPT ![from] = LeftBehind(from), ![to] = ENCODE_PLAYER(cursor)]
        /\ position' = [position EXCEPT ![cursor] = to]
        /\ movementUpdates' = movementUpdates \o
             <<Update(from, LeftBehind(from)), Update(to, ENCODE_PLAYER(cursor))>>
  /\ movement' = [movement EXCEPT ![cursor] = NotPending]
  /\ walk' = <<Off, Off>>
  /\ pc' = "drop"
  /\ WritesField
  /\ UNCHANGED <<exploded, status, bombs, drop, bombUpdates, tick, cursor, blast,
                 alive, result, network, leave>>

(* ... then drops his bomb where he is now: drop_bomb puts it on the field *)
PlaceBomb ==
  /\ pc = "drop"
  /\ drop[cursor]
  /\ grid' = [grid EXCEPT ![position[cursor]] = BOMB]
  /\ pc' = "list"
  /\ WritesField
  /\ UNCHANGED <<exploded, position, status, bombs, buffers, updates, loops, network, leave>>

(* and in the list, ...                                                    *)
ListBomb ==
  /\ pc = "list"
  /\ bombs' = Append(bombs, [cell |-> AsBytes(position[cursor]), player |-> cursor,
                             seconds |-> BOMB_TIME_TO_EXPLODE_SECONDS])
  /\ bombUpdates' = Append(bombUpdates, Update(position[cursor], BOMB))
  /\ drop' = [drop EXCEPT ![cursor] = FALSE]
  /\ pc' = "move"
  /\ cursor' = cursor + 1
  /\ WritesField
  /\ UNCHANGED <<grid, exploded, position, status, movement, movementUpdates,
                 walk, tick, blast, alive, result, network, leave>>

KeepBomb ==
  /\ pc = "drop"
  /\ ~drop[cursor]
  /\ pc' = "move"
  /\ cursor' = cursor + 1
  /\ UNCHANGED <<board, buffers, updates, walk, tick, blast, alive, result, network, leave, raced>>

(* ... releases it, multicasts the updates and sleeps.  After the last     *)
(* pass of a round the updater looks for a winner.                         *)
EndPass ==
  /\ pc = "move" /\ cursor = MaxPlayers
  /\ movementUpdates' = <<>> /\ bombUpdates' = <<>>
  /\ tick' = (tick + 1) % Ticks
  /\ pc' = IF tick + 1 < Ticks THEN "round" ELSE "count"
  /\ cursor' = 0
  /\ alive' = {}
  /\ UNCHANGED <<board, buffers, walk, blast, result, network, leave, raced>>

-----------------------------------------------------------------------------
(* should_finish_match reads the statuses one by one, without the mutex.   *)
CountPlayer ==
  /\ pc = "count" /\ cursor \in Players
  /\ alive' = IF status[cursor] = READY_TO_PLAY THEN alive \cup {cursor} ELSE alive
  /\ cursor' = cursor + 1
  /\ UNCHANGED <<board, buffers, updates, pc, walk, tick, blast, result, network, leave, raced>>

FourOpponentsResult_TooEarly(S) ==
  IF S = {} THEN ALL_PLAYERS_ARE_DEAD
  ELSE IF MaxPlayers = 1 \/ Cardinality(S) > 2 THEN NO_WINNER_YET
  ELSE CHOOSE p \in S : TRUE

FourOpponentsResult(S) ==
  IF S = {} THEN ALL_PLAYERS_ARE_DEAD
  ELSE IF MaxPlayers = 1 \/ (\E p, q \in S : p # q) THEN NO_WINNER_YET
  ELSE CHOOSE p \in S : TRUE

TwoTeamsResult_OneSided(S) ==
  LET teams == {Team(p) : p \in S}
  IN IF teams = {} THEN ALL_PLAYERS_ARE_DEAD ELSE IF 0 \notin teams THEN 1 ELSE 0

TwoTeamsResult(S) ==
  LET teams == {Team(p) : p \in S}
  IN IF teams = {} THEN ALL_PLAYERS_ARE_DEAD
     ELSE IF teams = {0, 1} THEN NO_WINNER_YET
     ELSE CHOOSE t \in teams : TRUE

FinishResult(S) ==
  IF Mode = FOUR_OPPONENTS_MODE THEN FourOpponentsResult(S) ELSE TwoTeamsResult(S)

(* Go on with explode_bombs, which takes the mutex, or with finish_match.  *)
Decide ==
  /\ pc = "count" /\ cursor = MaxPlayers
  /\ result' = FinishResult(alive)
  /\ pc' = IF result' = NO_WINNER_YET THEN "bombs" ELSE "finish"
  /\ cursor' = 1
  /\ UNCHANGED <<board, buffers, updates, walk, tick, blast, alive, network, leave, raced>>

-----------------------------------------------------------------------------
(* explode_bombs: the next bomb's counter does not reach zero.             *)
Due(b) == b.seconds = 1

CountDown ==
  /\ pc = "bombs" /\ cursor \in DOMAIN bombs
  /\ ~Due(bombs[cursor])
  /\ bombs' = [bombs EXCEPT ![cursor].seconds = @ - 1]
  /\ cursor' = cursor + 1
  /\ UNCHANGED <<grid, exploded, position, status, buffers, updates, pc,
                 walk, tick, blast, alive, result, network, leave, raced>>

(* It reaches zero, and explode_bomb finds no bomb on the field there: the *)
(* bomb is only unlinked.                                                  *)
Shown(b) == b.cell \in Cells /\ grid[b.cell] = BOMB

Fizzle_KeepsBomb ==
  /\ pc = "bombs" /\ cursor \in DOMAIN bombs
  /\ Due(bombs[cursor])
  /\ ~Shown(bombs[cursor])
  /\ UNCHANGED vars

Fizzle ==
  /\ pc = "bombs" /\ cursor \in DOMAIN bombs
  /\ Due(bombs[cursor])
  /\ ~Shown(bombs[cursor])
  /\ bombs' = RemoveAt(bombs, cursor)
  /\ UNCHANGED <<grid, exploded, position, status, buffers, updates, pc, loops,
                 network, leave, raced>>

(* It reaches zero and explodes, ...                                       *)
Ignite ==
  /\ pc = "bombs" /\ cursor \in DOMAIN bombs
  /\ Due(bombs[cursor])
  /\ Shown(bombs[cursor])
  /\ bombs' = [bombs EXCEPT ![cursor].seconds = 0]
  /\ pc' = "blast"
  /\ blast' = 1
  /\ UNCHANGED <<grid, exploded, position, status, buffers, updates,
                 walk, tick, cursor, alive, result, network, leave, raced>>

(* ... which calls kill_or_explode on the cells in reach, one by one.      *)
BlastCell == Reached(bombs[cursor].cell, blast)

(* A wall or the edge of the field stops the blast in this direction.      *)
NextInReach_ThroughWalls == blast + 1

NextInReach ==
  IF blast \in Nearest /\ (BlastCell \notin Cells \/ grid[BlastCell] \in Walls)
  THEN blast + 2
  ELSE blast + 1

BreakWall ==
  /\ pc = "blast" /\ blast \in DOMAIN Reach
  /\ BlastCell \in Cells
  /\ grid[BlastCell] = DESTRUCTIBLE_WALL
  /\ grid' = [grid EXCEPT ![BlastCell] = EXPLODED_BY_BOMB]
  /\ exploded' = [exploded EXCEPT ![BlastCell] = EXPLODED_BY_BOMB]
  /\ blast' = NextInReach
  /\ WritesField
  /\ UNCHANGED <<position, status, bombs, buffers, updates, pc,
                 walk, tick, cursor, alive, result, network, leave>>

(* kill_player_at_case: the player the cell names or, under a bomb, all    *)
(* players standing there.                                                 *)
PlayersAt_NotUnderBombs(c) == {p \in Players : grid[c] = ENCODE_PLAYER(p)}

PlayersAt(c) ==
  {p \in Players : \/ grid[c] = ENCODE_PLAYER(p)
                   \/ grid[c] = BOMB /\ position[p] = c}

KillPlayers ==
  /\ pc = "blast" /\ blast \in DOMAIN Reach
  /\ BlastCell \in Cells
  /\ PlayersAt(BlastCell) # {}
  /\ LET victims == PlayersAt(BlastCell)
     IN /\ grid' = [c \in Positions |-> IF \E p \in victims : position[p] = c
                                        THEN EMPTY_CELL ELSE grid[c]]
        /\ status' = [p \in Players |-> IF p \in victims THEN DEAD ELSE status[p]]
        /\ position' = [p \in Players |-> IF p \in victims THEN Off ELSE position[p]]
  /\ blast' = NextInReach
  /\ WritesField
  /\ UNCHANGED <<exploded, bombs, buffers, updates, pc, walk, tick, cursor, alive, result,
                 network, leave>>

BlastNothing ==
  /\ pc = "blast" /\ blast \in DOMAIN Reach
  /\ BlastCell \in Cells => /\ grid[BlastCell] # DESTRUCTIBLE_WALL
                            /\ PlayersAt(BlastCell) = {}
  /\ blast' = NextInReach
  /\ UNCHANGED <<board, buffers, updates, pc, walk, tick, cursor, alive, result, network,
                 leave, raced>>

(* The bomb leaves the field and the list.                                 *)
EndBlast_BombStays ==
  /\ pc = "blast" /\ blast = ReachEnd
  /\ bombs' = RemoveAt(bombs, cursor)
  /\ pc' = "bombs"
  /\ blast' = 0
  /\ WritesField
  /\ UNCHANGED <<grid, exploded, position, status, buffers, updates, walk, tick, cursor,
                 alive, result, network, leave>>

EndBlast ==
  /\ pc = "blast" /\ blast = ReachEnd
  /\ LET c == bombs[cursor].cell
     IN grid' = [grid EXCEPT ![c] = exploded[c]]
  /\ bombs' = RemoveAt(bombs, cursor)
  /\ pc' = "bombs"
  /\ blast' = 0
  /\ WritesField
  /\ UNCHANGED <<exploded, position, status, buffers, updates, walk, tick, cursor, alive,
                 result, network, leave>>

(* explode_bombs releases the mutex; the full grid goes out.               *)
EndBombs ==
  /\ pc = "bombs" /\ cursor = Len(bombs) + 1
  /\ pc' = "round"
  /\ cursor' = 0
  /\ UNCHANGED <<board, buffers, updates, walk, tick, blast, alive, result, network, leave, raced>>

(* finish_match cancels and joins the other threads (module Shutdown).     *)
(* There is no cancellation point in kill_player, and the receiver may be  *)
(* cancelled with a message in its hands.                                  *)
FinishMatch ==
  /\ pc = "finish"
  /\ ~KillUnderWay
  /\ receiver' = NoMessage
  /\ pc' = "done"
  /\ UNCHANGED <<board, buffers, updates, loops, received, leave, raced>>

-----------------------------------------------------------------------------
(* The TCP handler of p reads the end of the connection and calls          *)
(* kill_player, without the mutex: it reads the position, ...              *)
Leave(p) ==
  /\ Running
  /\ p \in Leavers
  /\ tcp[p] = "open"
  /\ leaving' = [leaving EXCEPT ![p] = position[p]]
  /\ tcp' = [tcp EXCEPT ![p] = "erase"]
  /\ KillBegins
  /\ UNCHANGED <<board, buffers, updates, pc, loops, network>>

(* ... clears that cell, ...                                               *)
EraseCell(p) ==
  /\ tcp[p] = "erase"
  /\ grid' = [grid EXCEPT ![leaving[p]] = EMPTY_CELL]
  /\ tcp' = [tcp EXCEPT ![p] = "mark"]
  /\ UNCHANGED <<exploded, position, status, bombs, buffers, updates, pc, loops,
                 network, leaving, raced>>

(* ... marks the player dead ...                                           *)
MarkDead(p) ==
  /\ tcp[p] = "mark"
  /\ status' = [status EXCEPT ![p] = DEAD]
  /\ tcp' = [tcp EXCEPT ![p] = "unplace"]
  /\ UNCHANGED <<grid, exploded, position, bombs, buffers, updates, pc, loops,
                 network, leaving, raced>>

(* ... and takes him off the field.                                        *)
Unplace(p) ==
  /\ tcp[p] = "unplace"
  /\ position' = [position EXCEPT ![p] = Off]
  /\ tcp' = [tcp EXCEPT ![p] = "closed"]
  /\ UNCHANGED <<grid, exploded, status, bombs, buffers, updates, pc, loops,
                 network, leaving, raced>>

-----------------------------------------------------------------------------
Pass ==
  \/ BeginPass \/ BeginMove \/ StayInPlace \/ MovePlayer
  \/ PlaceBomb \/ ListBomb \/ KeepBomb \/ EndPass

FinishTest == CountPlayer \/ Decide

ExplodeBombs ==
  \/ CountDown \/ Fizzle \/ Ignite \/ BreakWall \/ KillPlayers \/ BlastNothing
  \/ EndBlast \/ EndBombs

Updater == Pass \/ FinishTest \/ ExplodeBombs \/ FinishMatch

Receiver == (\E p \in Players, a \in Inputs : ReceiveAction(p, a)) \/ BufferAction

KillPlayer(p) == EraseCell(p) \/ MarkDead(p) \/ Unplace(p)

(* The match structure is freed and no thread of the match is left.        *)
Freed == pc = "done" /\ UNCHANGED vars

Next ==
  \/ Updater
  \/ Receiver
  \/ \E p \in Players : Leave(p) \/ KillPlayer(p)
  \/ Freed

Spec == Init /\ [][Next]_vars

(***************************************************************************)
(* The updater sleeps for a bounded time and is then scheduled again, the  *)
(* receiver and a handler that has begun kill_player are runnable threads. *)
(* Nobody is obliged to send an action or to leave.                        *)
(***************************************************************************)
Fairness ==
  /\ WF_vars(Updater)
  /\ WF_vars(BufferAction)
  /\ \A p \in Players : WF_vars(KillPlayer(p))

FairSpec == Spec /\ Fairness

-----------------------------------------------------------------------------
BombEntries ==
  [cell : (0..(Height - 1)) \X (0..255), player : Players,
   seconds : 0..BOMB_TIME_TO_EXPLODE_SECONDS]

UpdateEntries == [cell : (0..(Height - 1)) \X (0..255), status : CellCodes]

(* Every variable holds values of the code's types: in particular all that *)
(* grid is indexed with is a cell of the field or -1.                      *)
TypeOK ==
  /\ grid \in [Positions -> CellCodes]
  /\ exploded \in [Positions -> {EMPTY_CELL, EXPLODED_BY_BOMB}]
  /\ position \in [Players -> Positions]
  /\ status \in [Players -> {READY_TO_PLAY, DEAD}]
  /\ movement \in [Players -> Movements \cup {NotPending}]
  /\ drop \in [Players -> BOOLEAN]
  /\ bombs \in Seq(BombEntries)
  /\ pc \in {"round", "move", "walk", "drop", "list", "count", "bombs", "blast",
             "finish", "done"}
  /\ walk \in Positions \X Positions
  /\ tick \in 0..(Ticks - 1)
  /\ cursor \in Nat
  /\ blast \in 0..ReachEnd
  /\ alive \in SUBSET Players
  /\ result \in Players \cup {NO_WINNER_YET, ALL_PLAYERS_ARE_DEAD}
  /\ movementUpdates \in Seq(UpdateEntries)
  /\ bombUpdates \in Seq(UpdateEntries)
  /\ receiver \in {NoMessage} \cup (Players \X Actions)
  /\ received \in 0..MaxMessages
  /\ tcp \in [Players -> {"open", "erase", "mark", "unplace", "closed"}]
  /\ leaving \in [Players -> Positions]
  /\ raced \in BOOLEAN

(* The grid and players_current_position, two representations of the same  *)
(* fact that move_player, kill_player and kill_player_at_case keep apart,  *)
(* agree as long as no lock-free kill_player met a step of the updater: a  *)
(* player on the field is shown there, or hidden by a bomb; a cell that    *)
(* shows a player is where he is; no two players share a cell.             *)
OnField(p) == position[p] \in Cells

Departing(p) == tcp[p] \in {"mark", "unplace"}

Shows(p) == grid[position[p]] \in {ENCODE_PLAYER(p), BOMB}

PositionsMatchGrid ==
  ~raced =>
    /\ \A p \in Players :
         OnField(p) => \/ Shows(p)
                       \/ Departing(p) /\ grid[position[p]] = EMPTY_CELL
    /\ \A p \in Players, c \in Cells : grid[c] = ENCODE_PLAYER(p) => position[p] = c
    /\ \A p, q \in Players : OnField(p) /\ position[p] = position[q] => p = q

(* A bomb the players see explodes some day: it is in the list, whatever   *)
(* other bombs exploded, and whoever died or came back, in between.        *)
NoDudOnField ==
  ~raced /\ pc # "list" =>
    \A c \in Cells : grid[c] = BOMB => \E i \in DOMAIN bombs : bombs[i].cell = c

(* No step, racing or not, makes or moves a wall, breaks a pillar or       *)
(* changes a destructible wall into anything but an exploded one; and      *)
(* rubble is remembered: what a cell without wall falls back to when a     *)
(* player or bomb leaves it says whether a wall was exploded there.        *)
WallsFall ==
  \A c \in Cells :
    /\ grid[c] = INDESTRUCTIBLE_WALL => grid'[c] = INDESTRUCTIBLE_WALL
    /\ grid[c] = DESTRUCTIBLE_WALL =>
         \/ grid'[c] = DESTRUCTIBLE_WALL
         \/ grid'[c] = EXPLODED_BY_BOMB /\ exploded'[c] = EXPLODED_BY_BOMB
    /\ grid'[c] \in Walls => grid[c] = grid'[c]
    /\ exploded[c] = EXPLODED_BY_BOMB => exploded'[c] = EXPLODED_BY_BOMB

WallsOnlyFall == [][WallsFall]_vars

(* A blast spares nobody who is next to the bomb when it ends: the cells   *)
(* around a bomb are reached whatever stops the blast behind them.  (Who   *)
(* is being taken off the field by his own kill_player is as good as gone.)*)
Distance(c, d) ==
  LET Abs(n) == IF n < 0 THEN -n ELSE n
      rows == Abs(c[1] - d[1])
      columns == Abs(c[2] - d[2])
  IN IF rows < columns THEN columns ELSE rows

NobodySurvivesNextToBlast ==
  ~raced /\ pc = "blast" /\ blast = ReachEnd =>
    \A p \in Players :
      OnField(p) /\ ~Departing(p) => Distance(position[p], bombs[cursor].cell) > 1

(* A bomb kills only inside its reach: two cells in a straight line, one   *)
(* in a diagonal, and never behind a wall that still stands.               *)
Sheltered(c, bomb) ==
  \/ Distance(c, bomb) > 2
  \/ Distance(c, bomb) = 2 /\ c[1] # bomb[1] /\ c[2] # bomb[2]
  \/ Distance(c, bomb) = 2 /\ grid[<<(c[1] + bomb[1]) \div 2, (c[2] + bomb[2]) \div 2>>] \in Walls

BlastsStayInReach ==
  [][pc = "blast" /\ ~raced' =>
       \A p \in Players :
         OnField(p) /\ Sheltered(position[p], bombs[cursor].cell)
           => position'[p] = position[p] \/ tcp[p] = "unplace"]_vars

(* The promise to the players (module Contest): nobody comes back to life, *)
(* the result announced is true when it is announced although              *)
(* should_finish_match reads the statuses one by one while players leave,  *)
(* and when one player or team is left, or nobody, a result is announced.  *)
Side(p) == IF Mode = FOUR_OPPONENTS_MODE THEN p ELSE Team(p)

Referee ==
  INSTANCE Contest WITH
    Contestants <- Players,
    SideOf <- [p \in Players |-> Side(p)],
    Nobody <- ALL_PLAYERS_ARE_DEAD,
    NoOutcome <- NO_WINNER_YET,
    living <- {p \in Players : status[p] = READY_TO_PLAY},
    outcome <- IF Playing THEN NO_WINNER_YET ELSE result

KeepsPromise == Referee!Spec
KeepsFairPromise == Referee!FairSpec

(* A player declared dead takes no further part: he is on the field no     *)
(* more, unless the kill_player of his own connection is still under way   *)
(* ("Player %d is dead, ignoring action", server/match.c:234).             *)
DeadStayOff ==
  ~raced => \A p \in Players : status[p] = DEAD /\ tcp[p] # "unplace" => ~OnField(p)

(* The updater never stalls, in no player's update and in no bomb of the   *)
(* list it walks through and unlinks from: as long as the match lasts it   *)
(* releases the mutex and begins another pass again and again.             *)
RoundsGoOn == []<>(pc \in {"round", "done"})

(* A buffered action is carried out or refused, never forgotten.           *)
BuffersDrain ==
  \A p \in Players :
    /\ movement[p] # NotPending ~> (movement[p] = NotPending \/ pc = "done")
    /\ drop[p] ~> (~drop[p] \/ pc = "done")

=============================================================================
