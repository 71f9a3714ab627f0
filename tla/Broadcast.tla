------------------------------ MODULE Broadcast ------------------------------
(***************************************************************************)
(* What the players see of a match: the updater multicasts the updates of  *)
(* each pass and, once a round, the whole grid; the network loses, repeats *)
(* and reorders packets; the display loop of a client                      *)
(* (refresh_gameboard_implementation, client.c) keeps a board by them.     *)
(*                                                                         *)
(* The match is module Match, with all its steps; this module adds the     *)
(* packets and one client.  Clients hear the same packets and nothing of   *)
(* each other, so one is enough.  Packets carry numbers, which no client   *)
(* looks at: they are left out.                                            *)
(*                                                                         *)
(* A definition named X_Defect is X with a defect; nothing else uses it.   *)
(***************************************************************************)
EXTENDS Match

CONSTANTS
  MaxAir,     (* bound on the packets under way                            *)
  MaxFaults   (* bound on the packets lost, repeated or overtaken          *)

(* The client takes the height for its number of columns and the width for *)
(* its number of lines, which is right for the square field of serveur.c.  *)
ASSUME BroadcastAssumption ==
  /\ Height = Width
  /\ MaxAir \in Nat \ {0} /\ MaxFaults \in Nat

VARIABLES
  copies,     (* full grids the updater has still to send in this round    *)
  air,        (* packets on their way to the client, next one first        *)
  faults,     (* what the network has done to them so far                  *)
  running,    (* the display loop has not been left                        *)
  init,       (* gameboard.init: a full grid has arrived                   *)
  cells,      (* board.grid, the array                                     *)
  seen        (* history: what each cell of the match has been so far      *)

client == <<running, init, cells>>
broadcastVars == <<vars, copies, air, faults, client, seen>>

Indexes == 0..(Height * Width - 1)

BroadcastInit ==
  /\ Init
  /\ copies = 0 /\ air = <<>> /\ faults = 0
  /\ running = TRUE /\ init = FALSE
  /\ cells = [i \in Indexes |-> EMPTY_CELL]
  /\ seen = [c \in Cells |-> {grid[c]}]

-----------------------------------------------------------------------------
(* The server.  Nobody keeps packets for a client who has stopped to read. *)
Transmit(packet) ==
  IF running THEN Len(air) < MaxAir /\ air' = Append(air, packet) ELSE UNCHANGED air

Updates_BombsFirst == bombUpdates \o movementUpdates

(* One packet for a pass: first all movements, then all bombs.             *)
Updates == movementUpdates \o bombUpdates

SendPartial ==
  IF Updates = <<>> THEN UNCHANGED air
  ELSE Transmit([kind |-> "partial", updates |-> Updates])

(* A step of the match.  process_partial_updates ends with its packet; the *)
(* updater goes from explode_bombs to the full grids, and then on to the   *)
(* next round.                                                             *)
MatchStep(Step) ==
  /\ Step
  /\ BeginPass => copies = 0
  /\ copies' = IF EndBombs THEN MaxPlayers ELSE copies
  /\ IF EndPass THEN SendPartial ELSE UNCHANGED air
  /\ seen' = [c \in Cells |-> seen[c] \cup {grid'[c]}]
  /\ UNCHANGED <<faults, client>>

FullGrid == [i \in Indexes |-> grid[<<i \div Width, i % Width>>]]

(* send_full_grid_to_all_players sends the grid to the whole group once    *)
(* for each player.  It holds no mutex: kill_player may come between.      *)
SendFull ==
  /\ copies > 0
  /\ copies' = copies - 1
  /\ Transmit([kind |-> "full", cells |-> FullGrid])
  /\ UNCHANGED <<vars, faults, client, seen>>

-----------------------------------------------------------------------------
(* The network.                                                            *)
Fault ==
  /\ faults < MaxFaults
  /\ faults' = faults + 1
  /\ UNCHANGED <<vars, copies, client, seen>>

Lose(i) == Fault /\ air' = RemoveAt(air, i)

Repeat(i) == Fault /\ Len(air) < MaxAir /\ air' = Append(air, air[i])

Overtake(i) ==
  /\ Fault
  /\ i + 1 \in DOMAIN air
  /\ air' = [air EXCEPT ![i] = air[i + 1], ![i + 1] = air[i]]

-----------------------------------------------------------------------------
(* The client.  Cell (row, col) is entry row * w + col of the array, where *)
(* w is the height.                                                        *)
Index_Transposed(row, col) == col * Height + row

Index(row, col) == row * Height + col

(* set_grid with one update after the other.  The position -1 of a dead    *)
(* player, row 0 and column 255, is beyond the end of the array.           *)
Redrawn(update) ==
  [i \in Indexes |->
     LET hits == {k \in DOMAIN update : Index(update[k].cell[1], update[k].cell[2]) = i}
     IN IF hits = {} THEN cells[i] ELSE update[CHOOSE k \in hits : \A j \in hits : j <= k].status]

ReceiveFull_OnlyFirst ==
  /\ running /\ air # <<>> /\ Head(air).kind = "full"
  /\ air' = Tail(air)
  /\ init' = TRUE
  /\ cells' = IF init THEN cells ELSE Head(air).cells
  /\ UNCHANGED <<vars, copies, faults, running, seen>>

ReceiveFull ==
  /\ running /\ air # <<>> /\ Head(air).kind = "full"
  /\ air' = Tail(air)
  /\ init' = TRUE
  /\ cells' = Head(air).cells
  /\ UNCHANGED <<vars, copies, faults, running, seen>>

ReceivePartial ==
  /\ running /\ air # <<>> /\ Head(air).kind = "partial"
  /\ init
  /\ air' = Tail(air)
  /\ cells' = Redrawn(Head(air).updates)
  /\ UNCHANGED <<vars, copies, faults, running, init, seen>>

(* A partial update before the first full grid: the loop is left.          *)
ReceiveEarly ==
  /\ running /\ air # <<>> /\ Head(air).kind = "partial"
  /\ ~init
  /\ running' = FALSE
  /\ air' = <<>>
  /\ UNCHANGED <<vars, copies, faults, init, cells, seen>>

Receive == ReceiveFull \/ ReceivePartial \/ ReceiveEarly

-----------------------------------------------------------------------------
BroadcastNext ==
  \/ MatchStep(Next)
  \/ SendFull
  \/ \E i \in DOMAIN air : Lose(i) \/ Repeat(i) \/ Overtake(i)
  \/ Receive

(* The threads of the match and the client are runnable, and packets that  *)
(* are not lost arrive.                                                    *)
BroadcastFairness ==
  /\ WF_broadcastVars(MatchStep(Updater) \/ SendFull)
  /\ WF_broadcastVars(MatchStep(BufferAction))
  /\ \A p \in Players : WF_broadcastVars(MatchStep(KillPlayer(p)))
  /\ WF_broadcastVars(Receive)

BroadcastSpec == BroadcastInit /\ [][BroadcastNext]_broadcastVars /\ BroadcastFairness

-----------------------------------------------------------------------------
(* What refresh_game draws for a cell.                                      *)
Drawn(c) == cells[Index(c[1], c[2])]

(* Whatever is lost, repeated or overtaken, and whoever leaves meanwhile,  *)
(* a board never shows a cell as it has never been.                        *)
BoardIsReal == init => \A c \in Cells : Drawn(c) \in seen[c]

(* Over a network that keeps packets and their order, a client who has     *)
(* read them all sees the grid, though bombs and movements of a pass are   *)
(* sorted apart: but for a player who has closed his connection and the    *)
(* bomb he may have stood on, since kill_player is not reported until the  *)
(* next full grid; and for whoever walks onto the cell of such a bomb in   *)
(* the pass in which it was dropped, since bombs come last in the packet.  *)
Unreported(c) ==
  \E p \in Players :
    /\ tcp[p] # "open"
    /\ \/ grid[c] = EMPTY_CELL /\ Drawn(c) \in {ENCODE_PLAYER(p), BOMB}
       \/ Drawn(c) = BOMB /\ \E q \in Players : grid[c] = ENCODE_PLAYER(q)

PartialsSuffice ==
  faults = 0 /\ air = <<>> /\ init /\ ~raced /\ pc \in {"round", "count"} /\ copies = 0 =>
    \A c \in Cells : Drawn(c) = grid[c] \/ Unreported(c)

(* Once the network behaves and the field is at rest, the board is the     *)
(* grid for good, whatever went wrong before: as long as the match lasts   *)
(* and the display has not been left on an early update.                   *)
Converges ==
  <>[](\/ \A c \in Cells : Drawn(c) = grid[c]
       \/ pc \in {"finish", "done"}
       \/ ~running)

(* "Ignore partial updates before we get the first full grid update"       *)
(* (client.c:471).                                                         *)
EarlyIgnored == [][ReceivePartial \/ ReceiveEarly => UNCHANGED running]_broadcastVars

=============================================================================
