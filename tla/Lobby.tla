-------------------------------- MODULE Lobby --------------------------------
(***************************************************************************)
(* How clients become players of a match, and how matches start.           *)
(*                                                                         *)
(* Threads of the server: main accepts one connection at a time, reads its *)
(* first message and seats the client in the pending match of the mode he  *)
(* asks for; then one tcp_player_handler per seat waits for the client to  *)
(* be ready, and the handler that finds everybody ready starts the match.  *)
(* Handlers of a match and main interleave; match->mutex protects the      *)
(* seating, the marking of a ready player and the start test, each for     *)
(* itself.                                                                 *)
(*                                                                         *)
(* What a started match does is module Match.  kill_player is one step     *)
(* here, since only its write to player_status is read before a match      *)
(* starts.  Chat messages do not change what this module describes.        *)
(*                                                                         *)
(* A definition named X_Defect is X with a defect; Next does not use it.   *)
(***************************************************************************)
EXTENDS Integers, FiniteSets

CONSTANTS
  Clients,     (* processes that connect, once each                        *)
  Modes,       (* FOUR_OPPONENTS_MODE and TEAM_MODE                        *)
  MaxPlayers,  (* MAX_PLAYERS_PER_MATCH                                    *)
  Leavers,     (* clients that may close their connection                  *)
  MaxMatches,  (* bound on the matches that are set up; one per client     *)
               (* is enough                                                *)
  None         (* NULL                                                     *)

Matches == 1..MaxMatches
Seats == 0..(MaxPlayers - 1)

ASSUME LobbyAssumption ==
  /\ IsFiniteSet(Clients)
  /\ MaxPlayers \in Nat \ {0}
  /\ Leavers \subseteq Clients
  /\ MaxMatches \in Nat /\ Cardinality(Clients) <= MaxMatches
  /\ None \notin Clients \cup Modes \cup Matches \cup (Matches \X Seats)

(* PLAYER_STATUS; absent players of a new match are CONNECTED, too.        *)
CONNECTED     == 0
READY_TO_PLAY == 1
DEAD          == 2

VARIABLES
  client,     (* how far client c is                                       *)
  wish,       (* the mode in his first message                             *)
  told,       (* match and id that NewMatchMessage told him                *)
  inbox,      (* whether his CLIENT_READY_TO_PLAY waits to be read         *)
  main,       (* where the main thread is                                  *)
  guest,      (* client_socket of main                                     *)
  asked,      (* the mode main read from the first message                 *)
  seat,       (* the match and current_player_index of the guest           *)
  pending,    (* current_match_4_opponents and current_match_2_teams       *)
  matches,    (* how many matches have been created                        *)
  mode,       (* match->mode                                               *)
  socket,     (* match->sockets_tcp, None for a free seat                  *)
  status,     (* match->player_status                                      *)
  handler,    (* where the tcp_player_handler of a seat is                 *)
  starts      (* history: how often start_match has run for the match      *)

clientVars == <<client, wish, told, inbox>>
mainVars == <<main, guest, asked, seat, pending, matches>>
matchVars == <<mode, socket, status, handler, starts>>
vars == <<clientVars, mainVars, matchVars>>

Init ==
  /\ client = [c \in Clients |-> "new"]
  /\ wish = [c \in Clients |-> None]
  /\ told = [c \in Clients |-> None]
  /\ inbox = [c \in Clients |-> FALSE]
  /\ main = "accept" /\ guest = None /\ asked = None /\ seat = None
  /\ pending = [w \in Modes |-> None]
  /\ matches = 0
  /\ mode = [m \in Matches |-> None]
  /\ socket = [m \in Matches |-> [i \in Seats |-> None]]
  /\ status = [m \in Matches |-> [i \in Seats |-> CONNECTED]]
  /\ handler = [m \in Matches |-> [i \in Seats |-> "none"]]
  /\ starts = [m \in Matches |-> 0]

Running == main # "exited"

players_count(m) == Cardinality({i \in Seats : socket[m][i] # None})

-----------------------------------------------------------------------------
(* The client: connect_to_server, ...                                      *)
Connect(c) ==
  /\ Running
  /\ client[c] = "new"
  /\ client' = [client EXCEPT ![c] = "connected"]
  /\ UNCHANGED <<wish, told, inbox, mainVars, matchVars>>

(* ... start_match asks for a mode, ...                                    *)
Ask(c, w) ==
  /\ client[c] = "connected"
  /\ client' = [client EXCEPT ![c] = "waiting"]
  /\ wish' = [wish EXCEPT ![c] = w]
  /\ UNCHANGED <<told, inbox, mainVars, matchVars>>

(* ... waits for the answer and declares that he is ready.                 *)
DeclareReady(c) ==
  /\ client[c] = "waiting"
  /\ told[c] # None
  /\ client' = [client EXCEPT ![c] = "ready"]
  /\ inbox' = [inbox EXCEPT ![c] = TRUE]
  /\ UNCHANGED <<wish, told, mainVars, matchVars>>

(* A client may go away at any time; what he has sent can still be read,   *)
(* unless the connection is reset.                                         *)
Close(c) ==
  /\ c \in Leavers
  /\ client[c] \in {"connected", "waiting", "ready"}
  /\ client' = [client EXCEPT ![c] = "closed"]
  /\ UNCHANGED <<wish, told, inbox, mainVars, matchVars>>

-----------------------------------------------------------------------------
(* The main thread: wait_for_next_player, ...                              *)
Seated(c) == \E m \in Matches, i \in Seats : socket[m][i] = c

Accept(c) ==
  /\ main = "accept"
  /\ client[c] # "new" /\ ~Seated(c)
  /\ guest' = c
  /\ main' = "read"
  /\ UNCHANGED <<asked, seat, pending, matches, clientVars, matchVars>>

(* ... read_loop for the first message, ...                                *)
ReadFirst ==
  /\ main = "read"
  /\ wish[guest] # None
  /\ asked' = wish[guest]
  /\ main' = "join"
  /\ UNCHANGED <<guest, seat, pending, matches, clientVars, matchVars>>

(* whose failure goes unnoticed: then message_header is uninitialized, and *)
(* either names a mode by chance or makes handle_first_tcp_message exit.   *)
ReadNothing ==
  /\ main = "read"
  /\ client[guest] = "closed" /\ wish[guest] = None
  /\ \/ main' = "join" /\ asked' \in Modes
     \/ main' = "exited" /\ UNCHANGED asked
  /\ UNCHANGED <<guest, seat, pending, matches, clientVars, matchVars>>

(* ... handle_first_tcp_message: create_new_match or add_player_to_match,  *)
SitDown_NextSeat(m, i) ==
  /\ socket' = [socket EXCEPT ![m][i] = guest]
  /\ seat' = <<m, (i + 1) % MaxPlayers>>

SitDown(m, i) ==
  /\ socket' = [socket EXCEPT ![m][i] = guest]
  /\ seat' = <<m, i>>

CreateMatch ==
  /\ main = "join"
  /\ pending[asked] = None
  /\ matches' = matches + 1
  /\ mode' = [mode EXCEPT ![matches'] = asked]
  /\ SitDown(matches', 0)
  /\ pending' = [pending EXCEPT ![asked] = matches']
  /\ main' = "launch"
  /\ UNCHANGED <<guest, asked, clientVars, status, handler, starts>>

JoinMatch ==
  /\ main = "join"
  /\ pending[asked] # None
  /\ SitDown(pending[asked], players_count(pending[asked]))
  /\ main' = "launch"
  /\ UNCHANGED <<guest, asked, pending, matches, clientVars, mode, status, handler, starts>>

(* launch_tcp_player_handler,                                              *)
LaunchHandler ==
  /\ main = "launch"
  /\ handler' = [handler EXCEPT ![seat[1]][seat[2]] = "read"]
  /\ main' = "inform"
  /\ UNCHANGED <<guest, asked, seat, pending, matches, clientVars, mode, socket, status, starts>>

(* and send_new_match_info_message.                                        *)
SendNewMatchInfo ==
  /\ main = "inform"
  /\ told' = [told EXCEPT ![guest] = seat]
  /\ main' = "renew"
  /\ UNCHANGED <<guest, asked, seat, pending, matches, client, wish, inbox, matchVars>>

(* should_setup_new_match: a full match takes no more players.             *)
Full_Over(m) == players_count(m) > MaxPlayers

Full(m) == players_count(m) = MaxPlayers

Renew ==
  /\ main = "renew"
  /\ pending' = [w \in Modes |->
                   IF pending[w] # None /\ Full(pending[w]) THEN None ELSE pending[w]]
  /\ main' = "accept"
  /\ guest' = None /\ asked' = None /\ seat' = None
  /\ UNCHANGED <<matches, clientVars, matchVars>>

-----------------------------------------------------------------------------
(* tcp_player_handler of seat i of match m reads that the client is ready, *)
(* and handle_client_ready_to_play marks the player with the id the client *)
(* says he has; ...                                                        *)
MarkReady(m, i) ==
  /\ Running
  /\ handler[m][i] = "read"
  /\ inbox[socket[m][i]]
  /\ inbox' = [inbox EXCEPT ![socket[m][i]] = FALSE]
  /\ status' = [status EXCEPT ![m][told[socket[m][i]][2]] = READY_TO_PLAY]
  /\ handler' = [handler EXCEPT ![m][i] = "check"]
  /\ UNCHANGED <<client, wish, told, mainVars, mode, socket, starts>>

(* ... can_start_match, start_match: the two threads of the match run.     *)
CanStart_WhenFull(m) == Full(m)

CanStart_WhoIsThere(m) ==
  \A i \in Seats : socket[m][i] # None => status[m][i] # CONNECTED

CanStart(m) ==
  /\ Full(m)
  /\ \A i \in Seats : status[m][i] # CONNECTED

CheckStart_ByTheLast(m, i) ==
  /\ Running
  /\ handler[m][i] = "check"
  /\ starts' = IF i = MaxPlayers - 1 /\ CanStart(m) THEN [starts EXCEPT ![m] = @ + 1] ELSE starts
  /\ handler' = [handler EXCEPT ![m][i] = "read"]
  /\ UNCHANGED <<clientVars, mainVars, mode, socket, status>>

CheckStart(m, i) ==
  /\ Running
  /\ handler[m][i] = "check"
  /\ starts' = IF CanStart(m) THEN [starts EXCEPT ![m] = @ + 1] ELSE starts
  /\ handler' = [handler EXCEPT ![m][i] = "read"]
  /\ UNCHANGED <<clientVars, mainVars, mode, socket, status>>

(* The connection is over (a reset drops what the client sent last).       *)
KillPlayer(m, i) ==
  /\ Running
  /\ handler[m][i] = "read"
  /\ client[socket[m][i]] = "closed"
  /\ status' = [status EXCEPT ![m][i] = DEAD]
  /\ handler' = [handler EXCEPT ![m][i] = "ended"]
  /\ UNCHANGED <<clientVars, mainVars, mode, socket, starts>>

-----------------------------------------------------------------------------
Client(c) == Connect(c) \/ (\E w \in Modes : Ask(c, w)) \/ DeclareReady(c)

Main ==
  \/ \E c \in Clients : Accept(c)
  \/ ReadFirst \/ ReadNothing \/ CreateMatch \/ JoinMatch \/ LaunchHandler
  \/ SendNewMatchInfo \/ Renew

Handler(m, i) == MarkReady(m, i) \/ CheckStart(m, i) \/ KillPlayer(m, i)

Next ==
  \/ \E c \in Clients : Client(c) \/ Close(c)
  \/ Main
  \/ \E m \in Matches, i \in Seats : Handler(m, i)

Spec == Init /\ [][Next]_vars

(***************************************************************************)
(* A client that connected runs start_match to its end unless it is        *)
(* stopped; the threads of the server are runnable.                        *)
(***************************************************************************)
Fairness ==
  /\ \A c \in Clients : WF_vars(\E w \in Modes : Ask(c, w)) /\ WF_vars(DeclareReady(c))
  /\ WF_vars(Main)
  /\ \A m \in Matches, i \in Seats : WF_vars(Handler(m, i))

FairSpec == Spec /\ Fairness

-----------------------------------------------------------------------------
TypeOK ==
  /\ client \in [Clients -> {"new", "connected", "waiting", "ready", "closed"}]
  /\ wish \in [Clients -> Modes \cup {None}]
  /\ told \in [Clients -> (Matches \X Seats) \cup {None}]
  /\ inbox \in [Clients -> BOOLEAN]
  /\ main \in {"accept", "read", "join", "launch", "inform", "renew", "exited"}
  /\ guest \in Clients \cup {None}
  /\ asked \in Modes \cup {None}
  /\ seat \in (Matches \X Seats) \cup {None}
  /\ pending \in [Modes -> Matches \cup {None}]
  /\ matches \in 0..MaxMatches
  /\ mode \in [Matches -> Modes \cup {None}]
  /\ socket \in [Matches -> [Seats -> Clients \cup {None}]]
  /\ status \in [Matches -> [Seats -> {CONNECTED, READY_TO_PLAY, DEAD}]]
  /\ handler \in [Matches -> [Seats -> {"none", "read", "check", "ended"}]]
  /\ starts \in [Matches -> Nat]

(* What a client is told is his: nobody else sits there or was told so,    *)
(* and the match has the mode he asked for.  His actions, chat and         *)
(* readiness carry that id, and the server believes it.                    *)
SeatsAreTheirs ==
  \A c \in Clients : told[c] # None =>
    /\ socket[told[c][1]][told[c][2]] = c
    /\ wish[c] # None => mode[told[c][1]] = wish[c]
    /\ \A d \in Clients : told[d] = told[c] => d = c

(* A match that runs has all its players, each of them told so or gone: no *)
(* handler starts it between add_player_to_match and                       *)
(* send_new_match_info_message of someone who still waits for it.          *)
StartedWithEverybody ==
  \A m \in Matches : starts[m] > 0 =>
    \A i \in Seats :
      /\ socket[m][i] # None
      /\ told[socket[m][i]] = <<m, i>> \/ client[socket[m][i]] = "closed"

(* Nobody is seated in a match that runs: it has left main's hands before  *)
(* main accepts the next client.                                           *)
NobodyJoinsLate ==
  [][\A m \in Matches : starts[m] > 0 => socket'[m] = socket[m]]_vars

(* When all its clients stay, and so does the server, a match that is full *)
(* starts.                                                                 *)
FullMatchStarts ==
  \A m \in Matches :
    Full(m) /\ (\A i \in Seats : socket[m][i] \notin Leavers) ~> starts[m] > 0 \/ ~Running

(* There is one updater and one UDP receiver per match, as the fields      *)
(* match_handler_thread, match_updater_thread and has_match_started of     *)
(* Match have it (server/context.h:82).                                    *)
StartsOnce == \A m \in Matches : starts[m] <= 1

=============================================================================
