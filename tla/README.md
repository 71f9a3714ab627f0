# Bomberman: a verification of the server, its matches and its messages

TLA+ models of the Bomberman game in `src/`: what its threads, messages and
data structures do, checked with TLC on small instances, and theorems about the
models checked with TLAPS. Every definition that models code is tied to source
lines in `PROJECT.json` under `map`; `findings` lists where the code and its
own documentation disagree, `hazards` what is hard to test.

## 1. The system

A server process runs many matches; each client process takes part in one.

| Part | State | Operations | Talks to |
|---|---|---|---|
| **Lobby** (`serveur.c`: `main`, `handle_first_tcp_message`, `handle_client_ready_to_play`, `start_match`) | the pending match of each mode; per match the sockets, teams and `player_status` | accept a connection, read its first message, create or join a match, launch the seat's TCP handler, send `NewMatchMessage`, mark ready, start | clients over TCP; creates the threads of a match |
| **Running match** (`match.c`, `match_updater_thread_handler`, `match_handler`, `tcp_player_handler`) | `grid`, `exploded_walls_bitmap`, positions, statuses, the two `ActionBuf`s of each player, the bomb list | buffer an action (UDP thread); a pass of `process_partial_updates`, `should_finish_match`, `explode_bombs`, `finish_match` (updater thread); `kill_player` when a connection ends (TCP thread) | clients: action messages in, updates and grids out |
| **Action numbering** (`udp_message`, `update_latest_movement`, `update_latest_bomb_drop`) | the client's counter, the stored `num` of each `ActionBuf` | send, lose, duplicate, overtake, accept or refuse by number, cancel | client to match over UDP |
| **Chat and shutdown** (`send_message`, `finish_match`) | `match->mutex`, the threads, the connections | relay a chat message under the mutex; cancel, join, send the result, free | all threads of a match |
| **Bomb list** (`drop_bomb`, `explode_bombs`, `server_utils.c`) | doubly linked list with head and tail | append, unlink in the walk, consistency assertion | used by the updater only |
| **Grid broadcast** (`send_partial_updates`, `send_full_grid_to_all_players`, `refresh_gameboard_implementation`) | numbers of the last updates on both sides, the clients' boards | multicast of partial updates and of full grids | match to clients over UDP |
| **Client** (`client.c`) | the `end` flag, chat input, board | game control, TCP reader, board refresh, end of the game | server |
| **Wire format** (`messages.h`) | none | packing of 13 + 2 + 1 header bits, byte order | all |
| Socket helpers, ncurses drawing, debug thread | | loops around system calls, drawing, printing | |

Three threads touch a running match. `match->mutex` covers a whole pass of
`process_partial_updates`, a whole `explode_bombs` and the buffering of one
action. **Three accesses are not covered**: the `DEAD` test of
`handle_action_message`, the status reads of `should_finish_match`, and
`kill_player` when a connection closes. Most of what is hard about this code
comes from these three, from UDP, from a mutex held while a socket is read, and
from deferred cancellation.

What makes each part correct:

* *Match*: the grid and the positions say the same; a bomb that is shown will
  explode; a blast kills who is in reach and nobody else; walls only fall; the
  dead stay dead; the result is true and comes.
* *Numbering*: a new action is accepted and an old one refused, also where the
  numbers wrap; a bomb is dropped once.
* *Lobby*: ids belong to one client; a match starts once, complete, and with
  nobody joining later; a full match starts.
* *Shutdown*: mutual exclusion; the updater is not starved; everybody is told
  the result; nothing is freed while it is used.
* *Bomb list*: links and ends agree, nothing leaks, every bomb is counted once a
  round. *Broadcast*: a board never shows what never was, and is right in the
  end. *Client*: drawing and reading keys exclude each other; all threads end.
  *Wire*: a header can be read, whatever it was built on and however often it was
  converted.

## 2. Modules

| Module | What it is |
|---|---|
| `Board` | cell codes, corners, teams, movement targets and the reach of a bomb: the operators over positions |
| `Match` | one running match: state, the actions of the three kinds of threads, its properties |
| `MatchInvariant` | the inductive invariant of `Match`, in named parts |
| `MatchProofs`, `FieldProofs` | theorems about `Match`: types and walls; the field, and that `Match` implements `Contest` |
| `Contest` | the abstract specification of a match: the living, and one true result |
| `MCMatch` | small matches for TLC |
| `ActionNums`, `NumsProofs` | numbering over a bad network; theorems about it |
| `Lobby`, `MCLobby`, `LobbyProofs` | from connecting to `start_match`; theorems about seats and starts |
| `Shutdown`, `MCShutdown` | the mutex, chat, and the end of a match |
| `Wire` | the two 16-bit words of the protocol |
| `ShutdownProofs` | theorems about the mutex, the end of a match and what is sent, and about the words of `Wire` |
| `BombQueue` | the abstract specification of the bombs: a queue counted down once a round |
| `BombList`, `MCBombList`, `BombListProofs` | the doubly linked list that implements it; theorems that it does |
| `Broadcast`, `MCBroadcast`, `BroadcastProofs` | `Match` composed with its multicast updates, the network and a client's board; theorems about the board |
| `Client`, `ClientProofs` | the threads of a client (TLC runs it as it is); theorems about the screen and the chat line |

They fit together at the interfaces of the code. `Lobby`'s `CheckStart` is where
a `Match` begins: `Match!Init` is what `Lobby` leaves behind (all seats taken,
every player `READY_TO_PLAY`, or `DEAD` because he closed the connection,
perhaps with his `kill_player` not quite finished). `Match!BufferAction` may
refuse an action; `ActionNums` says which ones. `Match!FinishMatch` is one step;
`Shutdown` opens it up, and leaves the field to `Match`, but builds its headers
with `Wire`. `Broadcast` extends `Match`: every step of it is a step of `Match`
or leaves the match alone. `BombList` implements `BombQueue`, which is what the
sequence `bombs` of `Match` is. `Client` takes from `Broadcast` only whether an
update comes, and from the server only what ends it. `Match` implements
`Contest` (`Referee == INSTANCE Contest WITH ...`): the living are the players
whose status is `READY_TO_PLAY`, the outcome is what `should_finish_match`
returned once it is not `NO_WINNER_YET`.

### Match

State is the fields of `struct Match` under their own names, plus where the
updater is (`pc`), its loop variables, the message the UDP thread holds while it
waits for the mutex, and how far each TCP handler is in `kill_player`. Cells are
`<<row, column>>`; `Off`, the position -1 of a dead player, is `<<0, -1>>`, so
that moving from it lands where the code lands (cell 0, or `width - 1`).

| Action | Code |
|---|---|
| `ReceiveAction`, `BufferAction` | `match_handler`, `handle_action_message` before and under the mutex |
| `BeginPass` ... `EndPass` | `process_partial_updates`; `BeginMove`/`MovePlayer` are the reads and the writes of `move_player`, `PlaceBomb`/`ListBomb` the two halves of `drop_bomb` |
| `CountPlayer`, `Decide` | `should_finish_match`, one status per step |
| `CountDown`, `Fizzle`, `Ignite`, `BreakWall`, `KillPlayers`, `BlastNothing`, `EndBlast`, `EndBombs` | `explode_bombs`, `explode_bomb`, one cell of the blast per step |
| `FinishMatch` | `finish_match` |
| `Leave`, `EraseCell`, `MarkDead`, `Unplace` | `kill_player` called without the mutex: read, and three writes |

The grain follows from the mutex: steps are split where another thread's step
can come between and matters. `raced` is history: it turns true when a lock-free
`kill_player` and an updater step on the field overlap. Properties of the field
say `~raced`; those that hold through every race do not.

Left out: the messages sent (they are in `Broadcast`), the links of the bomb
list (in `BombList`), a second updater on the same match (the double start found by
`LobbyTwice`), and players who are only `CONNECTED`.

### ActionNums

One client, one pair of `ActionBuf`s: the server never compares numbers of two
players. `lap` counts wrap-arounds and is history, as are `cancelled`, `dropped`
and `overtaken`. The network is a set of messages that may be lost, delivered
more than once and in any order; `Lag` bounds how late. `NumsAssumption` asks
that `Lag` is at most `NUM_MAX - 2 * OVERFLOW_DETECTION_BUFFER + 1`, 8160 sends
with the constants of the code; then nothing arrives so late that its number
looks like one of the next lap.

### Lobby

The main thread's steps (`Accept` ... `Renew`), three steps of each TCP handler
(`MarkReady`, `CheckStart`, `KillPlayer`) and the client's `start_match`. Marking
and testing are two critical sections in the code and two steps here. The result
of the first `read_loop` is ignored by `main`; `ReadNothing` is what may happen
then, the header being uninitialized.

### Shutdown

Who holds `match->mutex`, where each thread is, what is left to relay, and the
connections. Deferred cancellation is modelled by its cancellation points:
`recv` and `send`, and in debug builds the `printf` of `DEBUG_PRINTF`; waiting
for a mutex is none. A relayed message is two writes per recipient, header and
text, and two steps (`RelayMsgHeader`, `RelayMsgText`). `half` is history: who has
been sent the first and not the second. A write to a connection whose peer is gone
is answered by a reset, which may come (`Reset`) before the next write or later; a
write after it raises `SIGPIPE`, which nobody handles.

Headers are words of 16 bits. `send_message` and `finish_match` begin with
uninitialized ones; `Garbage` is what may be in them (all bits clear, or all set).
`msg.header` is kept as `htons` left it, since that is what the header for the
next recipient is made from. Chat texts are left out.

### BombList and BombQueue

`bomb` holds the nodes, `allocated` says which exist, `order` is history: the
nodes of the list, oldest first. `Unlink` and `FreeBomb` are the two halves of a
removal, with the assertion of `server_utils.c` between them. A node is reused in
any order (`malloc` promises nothing), so nodes are a symmetry set. `current`
plays both cursors, that of `explode_bombs` and that of `free_bombs`. What a bomb
does to the field is in `Match`.

### Broadcast

All of `Match`, plus the packets under way (`air`), the full grids still to send
(`copies`; one per player, though each goes to the whole group) and one client.
`EndPass` sends the partial update; the full grids follow `explode_bombs`, without
the mutex. The board is the client's array with the client's own index
arithmetic. Packets may be lost, repeated, or overtaken by the next one,
`MaxFaults` times. `seen` is history: what each cell has been so far.

### Client

The program counters of `main` (from `refresh_gameboard_implementation` on),
`read_tcp` and `game_control`; `pl->end`, `pl->mutex`, `errno` of the reader as
far as `read_loop` looks at it; and the chat line with its cursor. The server is
"up", "closed" (the connection has ended) or "silent" (it is gone without a
word). A key without effect here (the movements and bombs, in `ActionNums`) is
`NoKey`. `soiled` is history: the line may hold something beyond the cursor
because it was never cleared or a character was taken back.

## 3. Runs

| Run | Instance | Shows |
|---|---|---|
| `MatchField` | 4 x 3 field (one step leads beside the pillar), 2 players, 3 actions of all kinds, one may leave; 750 000 states | `PositionsMatchGrid`, `NoDudOnField`, `NobodySurvivesNextToBlast`, `BlastsStayInReach` (without race), `WallsOnlyFall` and `KeepsPromise` (with races), and that `Inductive` is an invariant |
| `MatchLive` | 3 x 3 field, 3 players in 2 teams, two of whom may leave, a movement or a bomb, two passes a round, fairness; 58 000 states | `RoundsGoOn`, `BuffersDrain`, `KeepsFairPromise`: the announced team is the surviving one, and is announced, whatever order players leave in while they are counted |
| `Nums` | 6 numbers, window 2, lag 3, one wrap | `FreshIsAccepted`, `StaleOnlyAcrossWrap`, `BombsOnceInOrder`, `CancelHolds` |
| `Lobby` | 3 clients, 2 modes, matches of 2, one client may leave | `SeatsAreTheirs`, `StartedWithEverybody`, `NobodyJoinsLate`, `FullMatchStarts` |
| `End` | 3 players, 2 of whom may chat, 2 chats, 1 action, one player may leave, both modes; 155 000 states | `MutexProtects`, `FreedWhenUnused`, `RoundsGoOn`, `EndUnlessOrphaned`, `ChatReadable`, `EndReadable` |
| `Bombs` | 2 players, one pass a round, fuse of 3, 7 nodes; 368 states up to symmetry | `ListWhole`, `BombsBounded` (`Ticks * BOMB_TIME_TO_EXPLODE_SECONDS` per player, reached), `OldestFirst`, `ImplementsQueue` |
| `Broadcast` | 3 x 3 field, 2 players, one of whom may leave, 2 actions, 2 packets under way, one fault; 680 000 states | `BoardIsReal`, `PartialsSuffice`, `Converges` |
| `Client` | line of 3 characters, 4 keys, one chat message received; 380 000 states | `DrawsAlone`, `LineIsClean`, `ThreadsEnd`, `EndsWithServer` |
| `MatchDead` | no fairness needed | **violated** `DeadStayOff`: a movement buffered before its player died brings him back |
| `LobbyTwice` | | **violated** `StartsOnce`: two updaters and two receivers for one match |
| `EndStuck` | 2 players who both chat, with fairness | **violated** `EndMessageSent`: two handlers wait for the mutex, with a chat message to read, when `finish_match` cancels them; the one that gets it is cancelled in `recv` and keeps it, the other waits forever, and `pthread_join` never returns |
| `Early` | 3 x 3 field, one action, no fault | **violated** `EarlyIgnored`: an action in the first second makes every client leave its display loop |

Why the bounds are enough. A blast reaches two cells, so a field of 4 x 3
has cells in reach, out of reach, behind a pillar, behind a destructible wall and
outside the field. Two players suffice for every pairwise interaction; the result
of `should_finish_match` depends on more, and `MatchLive` has three. Three actions
are a movement and a bomb and one more of either player, or two bombs on one cell
and a movement; bombs tick for three rounds, during which all of it can happen.
Six numbers with a window of two have the same three regions as 8191 with 16:
before, inside and after the window; the theorems cover the rest. One wrap
suffices since messages live less than a lap. In `Lobby` three clients fill one
match and begin another, or spread over both modes. `None` and the clients are
model values. Three players make `End`
convert a header twice and leave time to cancel between the two writes of a
recipient or between two recipients. In `Bombs` two
players with a fuse of three rounds have up to six bombs ticking, so a removal
meets a list of one, of two and of more; the seventh node shows that six are
enough. One fault in `Broadcast` is enough to lose the only update a cell gets;
`Converges` then rests on the full grids alone. Two actions do not let one
player drop a bomb and leave and the other walk onto its cell in one pass, the
second exception of `Unreported`: three of `MOVE_WEST` and `DROP_BOMB` do,
without faults (1 000 000 states), and the theorem `ReportsSuffice` covers it.
Two packets under way let one overtake the other; a full socket makes the
model's sender wait, where UDP would drop the packet, which is `Lose`. Four keys
in `Client` are enough to open the chat, write `/t` and send it, the shortest
text that cannot be sent, and a line of three characters is long enough for it
to be a prefix. `HeapBytes` gives the byte before the grid (written by
`drop_bomb` of a dead player, read by nobody on the field) the value it has with
glibc.

`CHECK_DEADLOCK FALSE`: in `ActionNums` the client stops after `MaxLap` laps; in
`Lobby` the server waits once all clients have come; in `Shutdown` the match is
freed and its threads are gone; in `BombList` the match is over, and in `Client`
the process. `Match` and `Broadcast` have no such states: after the end it
stutters explicitly (`Freed`), and deadlock is checked.

Fairness. `Match`: weak fairness of the updater (it sleeps for `freq` ms and is
runnable again), of the receiver that holds a message, and of a `kill_player`
that has begun. Nobody must act or leave. `Lobby`: weak fairness of main, of the
handlers, and of clients running `start_match`; a connected client speaks or
leaves, which TCP does not promise, and without it one silent client blocks the
lobby (`main` reads before it accepts the next). `Shutdown`: weak fairness of the
threads, and strong fairness for taking the mutex: every holder releases it
between passes, and the updater sleeps between them, so a waiting thread gets it.
A client that began a chat message ends it. `Broadcast`: the fairness of `Match`,
with sending the full grids as part of the updater, and a client who reads what
has arrived. `Client`: strong fairness of each thread, because `game_control`
takes the mutex in a loop that does not sleep, and the others need it between two
of its turns: nothing promises that to them, but a scheduler that never lets
them run is not what the run is about. Nothing is assumed of the server or of
the keys.

## 4. Proofs

For all values of the constants that satisfy `BoardAssumption`,
`MatchAssumption`, `NumsAssumption`, `ShutdownAssumption`, `LobbyAssumption`,
`BombListAssumption`, `ClientAssumption` or `BroadcastAssumption`, which state the
ranges the code gives them, that bounds are numbers, and that the model values
`None` and `NULL` are no client and no node:

* `MatchProofs!TypeCorrect`: `Spec => []TypeOK`. Types alone are not inductive:
  a blast reads the bomb under `cursor`, a move writes to the cell it tested, a
  bomb's counter must be positive to be decremented. The invariant is
  `TypeOK /\ ControlInv`, shown action by action.
* `MatchProofs!WallsStayOrFall`: `Spec => WallsOnlyFall`. Needs `WallInv`: every
  position that some thread remembers and will overwrite (the players' positions,
  what `kill_player` read, what `move_player` tested, the cells of the bombs)
  holds no wall, and keeps none. This is what makes the lock-free `kill_player`
  harmless for walls, so the theorem has no `~raced`.
* `FieldProofs!GridAndPositionsAgree`, `BombsShownAreListed`,
  `BlastKillsWhoIsNear`, `BlastReach`: the properties of the field that hold
  without a race. The invariant is `FieldInv`, which is `Calm` until `raced`.
  `Calm` adds to `PositionsMatchGrid` what the halves of an operation rely on:
  `kill_player` still finds its player where it read him, `move_player` the
  target as it tested it (`NoKillBetween`); and what lets the end of a blast
  clear the bomb's cell without hiding a player who stands on it: the cells next
  to a bomb are empty once visited (`BlastSwept`). `BlastReach` also needs
  `BlastInv`: the second cell of a direction is visited only past a first one
  without a wall, and `WallsStayOrFall` says that none is built later.
* `FieldProofs!MatchKeepsPromise`: `Spec => KeepsPromise`, the refinement of
  `Contest`. Statuses only ever become `DEAD` (`LivingShrinks`), so a player whom
  `should_finish_match` passed over is still dead when it has read the last one
  (`CountInv`): everybody alive has been counted, though not everybody counted
  need be alive. Every step is then a death, the announcement or a stutter.
  `InvariantHolds` is the conjunction of all the invariants, `Inductive`, which
  `MatchField` checks on a small field.
* `NumsProofs!NumsTypeCorrect`, `FreshAccepted`, `StaleRefused`: with `NetworkInv`
  (what is under way was sent at most `Lag` sends ago, and nothing accepted is
  from the future) and arithmetic about the window, `CloseIsNew` and
  `OldIsRefused`.
* `NumsProofs!CancelledStays`, `BombsInOrder`: `CancelHolds` and
  `BombsOnceInOrder` for every `NUM_MAX` and window. `CancelInv`: no two messages
  under way have the same number, and while nothing has overtaken anything every
  movement under way was sent after every cancellation made. `DropInv`: the latest
  bomb dropped is the stored one, or an earlier one while the stored one is
  pending. Both rest on `BeforeIsOrder`: laps and numbers order messages totally.
* `LobbyProofs!LobbyTypeCorrect`, `SeatsAreSafe`, `StartsComplete`,
  `StartedIsClosed`, for any clients, modes and seats. `LobbyInv` adds to the
  types what main knows of the client it deals with (`GuestInv`), that nobody sits
  twice (`SeatInv`), that seats are taken from the first on and a pending match has
  a free one when main comes to seat somebody (`MatchInv`), and that only who has
  been told his id, or has left, is ready or dead (`StartInv`). The last two make a
  start complete and final: a match starts when nobody is `CONNECTED`, which an
  empty seat is, so it is full; and main seats nobody in a full match.
  `LobbyAssumption` asks that there are as many matches as clients.
* `BombListProofs!ListIsWhole`, `HeadExplodes`, `BombsAreBounded`, `ListIsQueue`,
  for any players, passes per round, fuse and memory. `ListInv` says that
  the links are those of `order` (`LinksAgree`, `NothingDangles`) and that bombs
  have fewer rounds left the older they are (`RoundsInv`), wherever the walk is, so
  that only the head is ever unlinked (`HeadInv`). That the assertion of
  `server_utils.c` holds follows. `BombsAreBounded` counts: the bombs of a player
  with the same number of rounds left (`Batch`) are at most `Ticks`
  (`BatchInv`), so all his bombs inject into pairs of a number up to `Ticks` and a
  number of rounds. `ListIsQueue` is the refinement, action by action; only the
  end of a removal and of the list stutter.
* `ClientProofs!ClientTypeCorrect`, `ScreenIsMains`, `LineStaysClean`. `ScreenInv`
  says who holds `pl->mutex` in each critical section, and that the end flag main
  has read under the mutex stays clear until it unlocks. `LineIsClean` is
  inductive with the types, which bound the cursor.
* `BroadcastProofs!BoardShowsWhatWas`: `BoardIsReal` for every square field of at
  most 15 by 15. `BoardInv` follows an update from the grid to the board:
  `SeenInv` (the history is up to date, also in the middle of `move_player` and
  `drop_bomb`), `PendingInv` (the updates of the pass are true, or about the
  position -1), `AirInv` (so are all packets under way), `ShownInv`. Lost,
  repeated and overtaken packets are packets. The hypothesis `Height <= 15` is
  needed: the position -1 of a dead player, as two bytes, is entry 255 of the
  client's array, which a field of 16 by 16 has. `serveur.c` makes fields of 15 by
  15 only.
* `BroadcastProofs!ReportsSuffice`: `PartialsSuffice`, under the same hypothesis.
  While no packet was lost and no `kill_player` has raced, the state says of each
  cell a last word (`Word`): what the last update of the pass about it tells,
  bombs after movements; otherwise what the last packet under way about it tells;
  otherwise what the board shows. `WordsInv`: the last word on a cell is what the
  grid has there, or one of the two exceptions of `Unreported` (`Agrees`), from
  the first full grid of a round to the first explosion in the next. It is
  inductive because packets are appended and taken whole (`AirAppended`,
  `AirTaken`), and because of `BombWordsInv`: a bomb dropped in this pass is still
  on the grid, unless somebody has left, and nobody whose turn is to come stands
  on it, so that its update may go behind all movements. `SendingInv` says when
  there is something to send. Where the players and their bombs are is known from
  `FieldInv`, since every step of `Broadcast` is one of `Match` or leaves it alone.
* `ShutdownProofs!CodeReadBack`, `IdReadBack`, `EqReadBack`: each `SET_` macro, on any
  word at all, gives a word that reads as what was set and keeps the other two
  fields, provided the value fits into its field. `ActionReadBack` is the same for
  the action word.
  The argument is one lemma: a word is `Packed` from its fields in one way only.
* `ShutdownProofs!EndTypeCorrect`, `MutualExclusion`, `FreedLast`: `TypeOK`,
  `MutexProtects` and `FreedWhenUnused` for one to four players, any teams, any
  number of chat and action messages. Types need `AnyIdKeepsCode`: the -2 of
  `ALL_PLAYERS_ARE_DEAD` does not fit into a header, yet leaves a word of 16 bits.
  `MutexProtects` is inductive with the types. Freeing needs `JoinInv`: everybody
  below the loop variable of `finish_match` has been joined and stays ended.
* `ShutdownProofs!ChatCanBeRead`, `EndCanBeRead`: `ChatReadable` and `EndReadable`
  whatever word `Garbage` was in the memory of the header. `RelayInv` says that
  until the first recipient is served the header holds its author's id, which
  rests on mutual exclusion (another handler may not begin a message meanwhile);
  `EndInv` that the header sent at the end is the one made of the result. That it
  meets nobody who waits for the text of a chat message is `HalfInv`: such a
  player's message is relayed by a handler that holds the mutex, and `finish_match`
  holds it when it cancels the handlers, after which none begins to relay.

Each inductive invariant was checked with TLC before it was proved. Hypotheses of
theorems beyond the assumptions on constants are stated above; there are none but
`Height <= 15`.

Only model-checked: liveness, since TLAPS proves no temporal property that needs
fairness or ENABLED: `RoundsGoOn`, `BuffersDrain` and `KeepsFairPromise` of
`Match`, `FullMatchStarts` of `Lobby`, `RoundsGoOn` and `EndUnlessOrphaned` of
`Shutdown`, `Converges` of `Broadcast`, `ThreadsEnd` and `EndsWithServer` of
`Client`. Every invariant and every action property that a run checks is proved.

## 5. Known deviations of the code that no run shows

The properties name these as exceptions, or the models contain them.

* `kill_player` without the mutex, between the reads and the writes of
  `move_player`, leaves a player code on the grid where no player is
  (`serveur.c:265`): the `~raced` of the field's properties.
* A blast that kills a player who stands on another player's bomb clears the
  cell (`match.c:516`), and `explode_bomb` refuses that bomb later: it ticks on
  unseen and vanishes (`Fizzle`).
* A bomb that gets the number 0, the first key of a match included, is never
  newer than what is stored and is refused (`match.c:215`), though
  `messages.h:46` counts 0 as greater than a large number: the exception in
  `FreshIsAccepted`.
* A movement numbered 0 is accepted however late it comes, and later numbers
  count as new once more (`match.c:199`): the exception in `StaleOnlyAcrossWrap`.
* A client that closes before its first message may make the whole server exit
  (`serveur.c:67`, `serveur.c:202`): `ReadNothing`.
* When the last player who is not ready leaves, nobody tests `can_start_match`
  again and the others wait (`serveur.c:262`).
* A write to a player who left, once an earlier one was answered by a reset, ends
  the server with `SIGPIPE`: the header and the text of one chat message are enough
  (`serveur.c:230`): `down` in `Shutdown`.
* All recipients of a chat message but the first read that player 0 wrote it: the
  converted header is converted again (`serveur.c:227`): the last line of
  `ChatReadable`. A team message in a match without teams reaches everybody:
  all teams are 0 there.
* When all players are dead, the end message names player 2 or team 0
  (`match.c:815`): the exceptions in `EndReadable`.
* `full_update_current_num` is sent in host order and read in network order
  (`match.c:489`, `client.c:455`). No client uses it, so no model has it.
* The client takes height for width (`client.c:452`), and prints four rows more
  than the board has when it logs the grid (`client.c:403`).
* The partial update of a player who walks from position -1 has row 0 and column
  255, and `set_grid` writes it beyond a small board (`client.c:483`); `Redrawn`
  keeps the board as it is.
* A player who leaves is not in any partial update: the others see him until the
  next full grid (`Unreported`).
* A packet has all movements of a pass before all bombs (`match.c:473`). When a
  player drops a bomb, closes the connection, and another walks onto that cell, all
  in one pass, the boards show the bomb instead of who stands there, until the next
  full grid or his next move (`Unreported`).
* On a field of 16 by 16 or more the update about position -1 would overwrite a
  cell of the client's board (hypothesis of `BoardShowsWhatWas`).
* `client.c:214`: sending `/t` alone fails, and the line stays in the buffer
  (`Empty`). The first line is not cleared before it is used, and a character
  taken back stays behind the cursor (`soiled`). A line of 150 characters has no
  terminator.
* Before the first full grid a client does not notice that its server is silent;
  after a window has been resized it does not notice the end of the connection;
  after the display loop was left by `break`, it waits for ESC on a screen that
  was given back, on which `getch` starts ncurses again; and it hangs when
  `read_tcp` is cancelled inside `end_game`: `Unnoticed`, `LeftEarly`, `Orphaned`.
* `start_match` of the client returns 1 when it cannot join the multicast group,
  and `main` takes only negative results for failures (`client.c:542`).

## 6. Plan

All steps are done.

1. `Board`, `Match`, `Contest`; `ActionNums`; `Lobby`; `Shutdown`: how matches
   come to be, run and end.
2. Theorems: types, walls and field of `Match`, `Match` implements `Contest`, the
   window of `ActionNums`.
3. `BombList` refining `BombQueue`; `Broadcast` over `Match`; `Wire` under
   `Shutdown`; `Client`.
4. Theorems about `Wire`: what is packed is what is unpacked.
5. Theorems about `Shutdown`: mutual exclusion, safe freeing, readable headers.
6. Theorems about the rest: what `BombList`, `Client`, `Broadcast`, `Lobby` and
   `ActionNums` keep invariant, `BombList` implements `BombQueue`, and the display is
   the grid over a network that keeps its packets.

Not modelled, and why:

* the debug thread: a stand-alone demo that the makefile does not build;
* socket set-up, addresses and ports: what they do is up to the operating system;
  `read_loop` and `write_loop` are modelled where a result of theirs matters;
* drawing with ncurses: pure output of the board `Broadcast` has;
* the three lines of received chat a client shows, which nothing depends on;
* logging.
