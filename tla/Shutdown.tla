------------------------------ MODULE Shutdown -------------------------------
(***************************************************************************)
(* The threads of a running match, its mutex and its end: the updater, the *)
(* UDP receiver and one tcp_player_handler per player compete for          *)
(* match->mutex; handlers relay chat messages while they hold it; and      *)
(* finish_match cancels and joins all threads, sends the result and frees  *)
(* the match.                                                              *)
(*                                                                         *)
(* Cancellation is deferred: a cancelled thread ends when it comes to, or  *)
(* waits in, a cancellation point.  recv and send are cancellation points, *)
(* and printf may be one; pthread_mutex_lock is none.  No thread has a     *)
(* cleanup handler that unlocks the mutex.                                 *)
(*                                                                         *)
(* What the threads do to the field while they hold the mutex is module    *)
(* Match, and when a match is decided is for Contest to say: here the      *)
(* updater may find after any round that it is.  Clients read what the     *)
(* server sends them, so that a send does not block.                       *)
(*                                                                         *)
(* A definition named X_Defect is X with a defect; Next does not use it.   *)
(***************************************************************************)
EXTENDS Integers, FiniteSets, Wire

CONSTANTS
  MaxPlayers,    (* match->players_count                                   *)
  Teams,         (* the teams of the players in TEAM_MODE                  *)
  Leavers,       (* players who may close their connection                 *)
  Chatters,      (* players who may write chat messages                    *)
  MaxChats,      (* bound on the chat messages                             *)
  MaxActions,    (* bound on the action messages                           *)
  Garbage        (* header words found in uninitialized memory             *)

Players == 0..(MaxPlayers - 1)

ASSUME ShutdownAssumption ==
  /\ MaxPlayers \in 1..4
  /\ Teams \in [Players -> {0, 1}]
  /\ Leavers \subseteq Players /\ Chatters \subseteq Players
  /\ MaxChats \in Nat /\ MaxActions \in Nat
  /\ Garbage \subseteq Words

(* Who holds the mutex: a player's handler or one of these.                *)
UPDATER  == -1
RECEIVER == -2
NOBODY   == -3

FOUR_OPPONENTS_MODE == 0
TEAM_MODE           == 1

ALL_PLAYERS_ARE_DEAD == -2

VARIABLES
  conn,      (* the connection to each player                              *)
  chat,      (* how much of his chat message has been sent                 *)
  chats,     (* number of chat messages so far                             *)
  actions,   (* number of action messages so far                           *)
  mutex,     (* the holder of match->mutex                                 *)
  updater,   (* where match_updater_thread_handler is                      *)
  cursor,    (* the loop variable of finish_match                          *)
  receiver,  (* where match_handler is                                     *)
  handler,   (* where each tcp_player_handler is                           *)
  left,      (* to whom its send_message still relays                      *)
  cancelled, (* pthread_cancel has been called for the other threads       *)
  told,      (* players the result was sent to                             *)
  down,      (* SIGPIPE has ended the server process                       *)
  mode,      (* match->mode                                                *)
  msg,       (* the message send_message relays: its kind and header word  *)
  half,      (* players who were sent the header of a chat message, but not  *)
             (* its text                                                   *)
  result,    (* what finish_match has been told                            *)
  end_game_message  (* the header word it sends                            *)

clients == <<chat, chats, actions>>
wire == <<mode, msg, half, result, end_game_message>>
vars == <<conn, clients, mutex, updater, cursor, receiver, handler, left, cancelled,
          told, down, wire>>

NoMsg == [kind |-> T_CHAT_ALL_PLAYERS, header |-> 0]

(* match->players_team, which is set in TEAM_MODE only.                    *)
players_team(p) == IF mode = TEAM_MODE THEN Teams[p] ELSE 0

Init ==
  /\ conn = [p \in Players |-> "open"]
  /\ chat = [p \in Players |-> "none"]
  /\ chats = 0 /\ actions = 0
  /\ mutex = NOBODY
  /\ updater = "round" /\ cursor = 0
  /\ receiver = "recv"
  /\ handler = [p \in Players |-> "recv"]
  /\ left = [p \in Players |-> {}]
  /\ cancelled = FALSE
  /\ told = {}
  /\ down = FALSE
  /\ mode \in {FOUR_OPPONENTS_MODE, TEAM_MODE}
  /\ msg = NoMsg /\ half = {}
  /\ result = 0 /\ end_game_message = 0

-----------------------------------------------------------------------------
(* The client: tchat_message writes header and length, then the text.      *)
ChatHeader(p) ==
  /\ p \in Chatters /\ conn[p] = "open" /\ chat[p] = "none"
  /\ chats < MaxChats
  /\ chats' = chats + 1
  /\ chat' = [chat EXCEPT ![p] = "header"]
  /\ UNCHANGED <<conn, actions, mutex, updater, cursor, receiver, handler, left,
                 cancelled, told, down, wire>>

ChatText(p) ==
  /\ conn[p] = "open" /\ chat[p] = "header"
  /\ chat' = [chat EXCEPT ![p] = "whole"]
  /\ UNCHANGED <<conn, chats, actions, mutex, updater, cursor, receiver, handler, left,
                 cancelled, told, down, wire>>

(* A client goes away.                                                     *)
Close(p) ==
  /\ p \in Leavers /\ conn[p] = "open"
  /\ conn' = [conn EXCEPT ![p] = "closed"]
  /\ UNCHANGED <<clients, mutex, updater, cursor, receiver, handler, left,
                 cancelled, told, down, wire>>

(* write_loop to p with flags 0: a closed peer will answer with a reset,   *)
(* and sending on a reset connection raises SIGPIPE, which nobody handles. *)
SendTo(p) ==
  /\ conn' = [conn EXCEPT ![p] = IF @ = "closed" THEN "resetting" ELSE @]
  /\ down' = (conn[p] = "reset")

(* The answer comes; what the peer wrote before and nobody read is lost.   *)
Reset(p) ==
  /\ conn[p] = "resetting"
  /\ conn' = [conn EXCEPT ![p] = "reset"]
  /\ UNCHANGED <<clients, mutex, updater, cursor, receiver, handler, left,
                 cancelled, told, down, wire>>

-----------------------------------------------------------------------------
Lock(thread) == mutex = NOBODY /\ mutex' = thread

Unlock == mutex' = NOBODY

(* tcp_player_handler reads the header of a chat message, ...              *)
ReadHeader(p) ==
  /\ handler[p] = "recv" /\ ~cancelled
  /\ chat[p] # "none" /\ conn[p] # "reset"
  /\ handler' = [handler EXCEPT ![p] = "lock"]
  /\ UNCHANGED <<conn, clients, mutex, updater, cursor, receiver, left, cancelled, told, down, wire>>

LockForChat_Unlocked(p) ==
  /\ handler[p] = "lock"
  /\ handler' = [handler EXCEPT ![p] = "text"]
  /\ UNCHANGED <<conn, clients, mutex, updater, cursor, receiver, left, cancelled, told, down, wire>>

LockForChat(p) ==
  /\ handler[p] = "lock"
  /\ Lock(p)
  /\ handler' = [handler EXCEPT ![p] = "text"]
  /\ UNCHANGED <<conn, clients, updater, cursor, receiver, left, cancelled, told, down, wire>>

(* To whom send_message relays a chat message of p.                        *)
Recipients(p, kind) ==
  {q \in Players \ {p} : kind = T_CHAT_TEAM => players_team(q) = players_team(p)}

(* ... and send_message waits for its text, or for the connection to end.  *)
(* Its header is an uninitialized word.                                    *)
ReadText(p) ==
  /\ handler[p] = "text" /\ ~cancelled
  /\ chat[p] = "whole" \/ conn[p] # "open"
  /\ chat' = [chat EXCEPT ![p] = "none"]
  /\ handler' = [handler EXCEPT ![p] = "relay"]
  /\ \E kind \in {T_CHAT_ALL_PLAYERS, T_CHAT_TEAM}, garbage \in Garbage :
       /\ msg' = [kind |-> kind, header |-> SET_ID(garbage, p)]
       /\ left' = [left EXCEPT ![p] = Recipients(p, kind)]
  /\ UNCHANGED <<conn, chats, actions, mutex, updater, cursor, receiver, cancelled,
                 told, down, mode, half, result, end_game_message>>

(* The header for the next recipient, made of what the last one was sent:  *)
(* send_message converts the header in place.                              *)
RelayHeader(p) ==
  htons(IF msg.kind = T_CHAT_ALL_PLAYERS
        THEN SET_CODEREQ(msg.header, SERVER_TCHAT_SENT_ALL_PLAYERS)
        ELSE SET_EQ(SET_CODEREQ(msg.header, SERVER_TCHAT_SENT_TEAM), players_team(p)))

(* To one player after the other, whoever has left, it sends first the     *)
(* header ...                                                              *)
NextRecipient(p, q) == q \in left[p] /\ \A r \in left[p] : q <= r

RelayMsgHeader(p) ==
  /\ handler[p] = "relay" /\ ~cancelled
  /\ \E q \in Players :
       /\ NextRecipient(p, q)
       /\ SendTo(q)
       /\ half' = half \cup {q}
  /\ msg' = [msg EXCEPT !.header = RelayHeader(p)]
  /\ handler' = [handler EXCEPT ![p] = "send"]
  /\ UNCHANGED <<clients, mutex, updater, cursor, receiver, left, cancelled, told,
                 mode, result, end_game_message>>

(* ... and then the text, ...                                              *)
RelayMsgText(p) ==
  /\ handler[p] = "send" /\ ~cancelled
  /\ \E q \in Players :
       /\ NextRecipient(p, q)
       /\ SendTo(q)
       /\ half' = half \ {q}
       /\ left' = [left EXCEPT ![p] = @ \ {q}]
  /\ handler' = [handler EXCEPT ![p] = "relay"]
  /\ UNCHANGED <<clients, mutex, updater, cursor, receiver, cancelled, told,
                 mode, msg, result, end_game_message>>

(* ... and returns to the handler, which unlocks the mutex.                *)
EndRelay_KeepsMutex(p) ==
  /\ handler[p] = "relay" /\ left[p] = {}
  /\ handler' = [handler EXCEPT ![p] = "recv"]
  /\ msg' = NoMsg
  /\ UNCHANGED <<conn, clients, mutex, updater, cursor, receiver, left, cancelled, told, down,
                 mode, half, result, end_game_message>>

EndRelay(p) ==
  /\ handler[p] = "relay" /\ left[p] = {}
  /\ Unlock
  /\ handler' = [handler EXCEPT ![p] = "recv"]
  /\ msg' = NoMsg
  /\ UNCHANGED <<conn, clients, updater, cursor, receiver, left, cancelled, told, down,
                 mode, half, result, end_game_message>>

(* The connection is over: the handler kills its player and ends.          *)
EndHandler(p) ==
  /\ handler[p] = "recv" /\ ~cancelled
  /\ conn[p] = "reset" \/ (conn[p] # "open" /\ chat[p] = "none")
  /\ handler' = [handler EXCEPT ![p] = "ended"]
  /\ UNCHANGED <<conn, clients, mutex, updater, cursor, receiver, left, cancelled, told, down, wire>>

(* The handler is cancelled in recv or send, and keeps the mutex if it has *)
(* it.                                                                     *)
CancelHandler(p) ==
  /\ cancelled
  /\ \/ handler[p] \in {"recv", "text", "send"}
     \/ handler[p] = "relay" /\ left[p] # {}
  /\ handler' = [handler EXCEPT ![p] = "ended"]
  /\ msg' = IF handler[p] \in {"relay", "send"} THEN NoMsg ELSE msg
  /\ UNCHANGED <<conn, clients, mutex, updater, cursor, receiver, left, cancelled, told, down,
                 mode, half, result, end_game_message>>

Handler(p) ==
  \/ ReadHeader(p) \/ LockForChat(p) \/ ReadText(p)
  \/ RelayMsgHeader(p) \/ RelayMsgText(p) \/ EndRelay(p)
  \/ EndHandler(p) \/ CancelHandler(p)

-----------------------------------------------------------------------------
(* match_handler: an action message arrives, ...                           *)
ReceiveAction ==
  /\ receiver = "recv" /\ ~cancelled
  /\ actions < MaxActions
  /\ actions' = actions + 1
  /\ receiver' = "lock"
  /\ UNCHANGED <<conn, chat, chats, mutex, updater, cursor, handler, left, cancelled, told, down, wire>>

(* ... handle_action_message locks the mutex, ...                          *)
LockForAction ==
  /\ receiver = "lock"
  /\ Lock(RECEIVER)
  /\ receiver' = "update"
  /\ UNCHANGED <<conn, clients, updater, cursor, handler, left, cancelled, told, down, wire>>

(* ... buffers the action and unlocks it.                                  *)
EndAction ==
  /\ receiver = "update"
  /\ Unlock
  /\ receiver' = "recv"
  /\ UNCHANGED <<conn, clients, updater, cursor, handler, left, cancelled, told, down, wire>>

(* It is cancelled in recv, or in DEBUG_PRINTF of update_latest_bomb_drop.  *)
CancelReceiver ==
  /\ cancelled
  /\ receiver \in {"recv", "update"}
  /\ receiver' = "ended"
  /\ UNCHANGED <<conn, clients, mutex, updater, cursor, handler, left, cancelled, told, down, wire>>

Receiver == ReceiveAction \/ LockForAction \/ EndAction \/ CancelReceiver

-----------------------------------------------------------------------------
(* The updater: process_partial_updates or explode_bombs takes the mutex   *)
(* and releases it.                                                        *)
BeginRound ==
  /\ updater = "round"
  /\ Lock(UPDATER)
  /\ updater' = "pass"
  /\ UNCHANGED <<conn, clients, cursor, receiver, handler, left, cancelled, told, down, wire>>

EndRound ==
  /\ updater = "pass"
  /\ Unlock
  /\ updater' \in {"round", "finish"}
  /\ UNCHANGED <<conn, clients, cursor, receiver, handler, left, cancelled, told, down, wire>>

(* What should_finish_match may have said, and the header made of it, of   *)
(* an uninitialized word.                                                  *)
Results ==
  {ALL_PLAYERS_ARE_DEAD} \cup (IF mode = FOUR_OPPONENTS_MODE THEN Players ELSE {0, 1})

EndHeader(garbage, r) ==
  IF mode = FOUR_OPPONENTS_MODE
  THEN SET_ID(SET_CODEREQ(garbage, SERVER_RESPONSE_MATCH_END_4_OPPONENTS), r)
  ELSE SET_EQ(SET_CODEREQ(garbage, SERVER_RESPONSE_MATCH_END_2_TEAMS), r)

(* finish_match: lock, cancel all other threads, unlock, ...               *)
BeginFinish_Unlocked ==
  /\ updater = "finish"
  /\ updater' = "cancel"
  /\ \E r \in Results, garbage \in Garbage :
       /\ result' = r
       /\ end_game_message' = htons(EndHeader(garbage, r))
  /\ UNCHANGED <<conn, clients, mutex, cursor, receiver, handler, left, cancelled, told, down,
                 mode, msg, half>>

BeginFinish ==
  /\ updater = "finish"
  /\ Lock(UPDATER)
  /\ updater' = "cancel"
  /\ \E r \in Results, garbage \in Garbage :
       /\ result' = r
       /\ end_game_message' = htons(EndHeader(garbage, r))
  /\ UNCHANGED <<conn, clients, cursor, receiver, handler, left, cancelled, told, down,
                 mode, msg, half>>

CancelThreads_KeepsMutex ==
  /\ updater = "cancel"
  /\ cancelled' = TRUE
  /\ updater' = "receiver"
  /\ UNCHANGED <<conn, clients, mutex, cursor, receiver, handler, left, told, down, wire>>

CancelThreads ==
  /\ updater = "cancel"
  /\ cancelled' = TRUE
  /\ Unlock
  /\ updater' = "receiver"
  /\ UNCHANGED <<conn, clients, cursor, receiver, handler, left, told, down, wire>>

(* ... join the UDP receiver, ...                                          *)
JoinReceiver_NotAwaited ==
  /\ updater = "receiver"
  /\ updater' = "handlers"
  /\ UNCHANGED <<conn, clients, mutex, cursor, receiver, handler, left, cancelled, told, down, wire>>

JoinReceiver ==
  /\ updater = "receiver"
  /\ receiver = "ended"
  /\ updater' = "handlers"
  /\ UNCHANGED <<conn, clients, mutex, cursor, receiver, handler, left, cancelled, told, down, wire>>

(* ... then for every player join his handler and send him the result, ... *)
JoinHandler_NextId ==
  /\ updater = "handlers" /\ cursor \in Players
  /\ handler[cursor] = "ended"
  /\ SendTo(cursor)
  /\ told' = told \cup {cursor + 1}
  /\ cursor' = cursor + 1
  /\ UNCHANGED <<clients, mutex, updater, receiver, handler, left, cancelled, wire>>

JoinHandler ==
  /\ updater = "handlers" /\ cursor \in Players
  /\ handler[cursor] = "ended"
  /\ SendTo(cursor)
  /\ told' = told \cup {cursor}
  /\ cursor' = cursor + 1
  /\ UNCHANGED <<clients, mutex, updater, receiver, handler, left, cancelled, wire>>

(* ... and free the match.                                                 *)
FreeMatch ==
  /\ updater = "handlers" /\ cursor = MaxPlayers
  /\ updater' = "freed"
  /\ UNCHANGED <<conn, clients, mutex, cursor, receiver, handler, left, cancelled, told, down, wire>>

Updater ==
  \/ BeginRound \/ EndRound \/ BeginFinish \/ CancelThreads \/ JoinReceiver
  \/ JoinHandler \/ FreeMatch

-----------------------------------------------------------------------------
Next ==
  /\ ~down
  /\ \/ \E p \in Players : ChatHeader(p) \/ ChatText(p) \/ Close(p) \/ Reset(p) \/ Handler(p)
     \/ Receiver
     \/ Updater

Spec == Init /\ [][Next]_vars

(***************************************************************************)
(* The threads are runnable, and a thread that waits for the mutex gets it *)
(* some day: the updater sleeps between any two passes.  A client that has *)
(* begun a chat message ends it, unless the connection is closed.          *)
(***************************************************************************)
Fairness ==
  /\ WF_vars(~down /\ Updater) /\ SF_vars(~down /\ (BeginRound \/ BeginFinish))
  /\ WF_vars(~down /\ (EndAction \/ CancelReceiver)) /\ SF_vars(~down /\ LockForAction)
  /\ \A p \in Players :
       /\ WF_vars(~down /\ Handler(p)) /\ SF_vars(~down /\ LockForChat(p))
       /\ WF_vars(~down /\ ChatText(p))

FairSpec == Spec /\ Fairness

-----------------------------------------------------------------------------
TypeOK ==
  /\ conn \in [Players -> {"open", "closed", "resetting", "reset"}]
  /\ chat \in [Players -> {"none", "header", "whole"}]
  /\ chats \in 0..MaxChats /\ actions \in 0..MaxActions
  /\ mutex \in Players \cup {UPDATER, RECEIVER, NOBODY}
  /\ updater \in {"round", "pass", "finish", "cancel", "receiver", "handlers", "freed"}
  /\ cursor \in 0..MaxPlayers
  /\ receiver \in {"recv", "lock", "update", "ended"}
  /\ handler \in [Players -> {"recv", "lock", "text", "relay", "send", "ended"}]
  /\ left \in [Players -> SUBSET Players]
  /\ cancelled \in BOOLEAN
  /\ told \in SUBSET Players
  /\ down \in BOOLEAN
  /\ mode \in {FOUR_OPPONENTS_MODE, TEAM_MODE}
  /\ msg \in [kind : {T_CHAT_ALL_PLAYERS, T_CHAT_TEAM}, header : Words]
  /\ half \in SUBSET Players
  /\ result \in Results \cup {0} /\ end_game_message \in Words

(* A thread in a critical section holds the mutex, so at most one is; a    *)
(* thread that was cancelled there keeps it.                               *)
MutexProtects ==
  /\ \A p \in Players : handler[p] \in {"text", "relay", "send"} => mutex = p
  /\ receiver = "update" => mutex = RECEIVER
  /\ updater \in {"pass", "cancel"} => mutex = UPDATER

(* When the match is freed no thread is left that could use it.            *)
FreedWhenUnused ==
  updater = "freed" => receiver = "ended" /\ \A p \in Players : handler[p] = "ended"

(* The updater always gets the mutex again, however much the players chat. *)
RoundsGoOn == updater = "round" ~> updater # "round" \/ down

(* Each recipient of a chat message reads, whatever the memory of its      *)
(* header held and however often send_message has converted it before,     *)
(* that it is one, and for which team; the first one reads who sent it.    *)
(* The others read that it was player 0: the ID is lost in the conversion. *)
ChatReadable ==
  [][\A p \in Players : RelayMsgHeader(p) =>
       LET h == ntohs(msg'.header)
       IN /\ msg.kind = T_CHAT_ALL_PLAYERS =>
               GET_CODEREQ(h) = SERVER_TCHAT_SENT_ALL_PLAYERS
          /\ msg.kind = T_CHAT_TEAM =>
               GET_CODEREQ(h) = SERVER_TCHAT_SENT_TEAM /\ GET_EQ(h) = players_team(p)
          /\ left[p] = Recipients(p, msg.kind) => GET_ID(h) = p]_vars

(* Whoever is told the result reads a message of its own: he is not in the *)
(* middle of a chat message whose relaying was cancelled, so that he would *)
(* take the header for its text.  And whatever the memory of the header    *)
(* held he reads that the match is over, and who has won.  When nobody     *)
(* has, he reads player 2 or team 0: -2 does not fit into the fields.      *)
EndReadable ==
  /\ told \cap half = {}
  /\ told # {} =>
       LET h == ntohs(end_game_message)
       IN IF mode = FOUR_OPPONENTS_MODE
          THEN /\ GET_CODEREQ(h) = SERVER_RESPONSE_MATCH_END_4_OPPONENTS
               /\ result # ALL_PLAYERS_ARE_DEAD => GET_ID(h) = result
          ELSE /\ GET_CODEREQ(h) = SERVER_RESPONSE_MATCH_END_2_TEAMS
               /\ result # ALL_PLAYERS_ARE_DEAD => GET_EQ(h) = result

(* Once finish_match has begun, every player who still listens is told the *)
(* result, unless the mutex is left behind by a thread that was cancelled  *)
(* while it held it, or SIGPIPE has ended the server.                      *)
MutexOrphaned ==
  \/ \E p \in Players : mutex = p /\ handler[p] = "ended"
  \/ mutex = RECEIVER /\ receiver = "ended"

EndReached == \A p \in Players : p \in told \/ conn[p] # "open"

EndUnlessOrphaned == updater = "finish" ~> EndReached \/ MutexOrphaned \/ down

(* "Finish the match and send the end game message to all players"         *)
(* (server/match.c:799).                                                   *)
EndMessageSent == updater = "finish" ~> EndReached

=============================================================================
