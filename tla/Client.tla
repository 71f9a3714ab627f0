------------------------------- MODULE Client --------------------------------
(***************************************************************************)
(* The threads of a client from create_board to the end of main            *)
(* (client.c): main runs the display loop, read_tcp reads what the server  *)
(* says, game_control reads the keyboard.  They share the flag end, set    *)
(* and sometimes read under the player's mutex, ncurses, and the line of   *)
(* chat under way (ncurses/ncurses.c).                                     *)
(*                                                                         *)
(* The build of the makefile prints at every level (-DVERBOSE), and a      *)
(* print may be a cancellation point.  What the board shows is module      *)
(* Broadcast; the texts that arrive are left out.  A key that is pressed   *)
(* is one control has not swallowed as a repetition.                       *)
(*                                                                         *)
(* A definition named X_Defect is X with a defect; Next does not use it.   *)
(***************************************************************************)
EXTENDS Integers, Sequences

CONSTANTS
  SIZE_MAX_MESSAGE,  (* length of the chat line, 150                       *)
  MaxChats,          (* bound on the chat messages that arrive             *)
  MaxKeys            (* bound on the keys that are pressed                 *)

ASSUME ClientAssumption ==
  /\ SIZE_MAX_MESSAGE \in 3..255
  /\ MaxChats \in Nat /\ MaxKeys \in Nat

UDP_POLL_TIMEOUT_MILLISECONDS                   == 2000
UDP_NO_MESSAGE_FROM_SERVER_TIMEOUT_MILLISECONDS == 5000

(* Characters of the line: the prefix /t in two letters, which stand for   *)
(* the others, too; JUNK is what malloc may leave.                         *)
NUL  == "nul"
JUNK == "junk"
Letters == {"/", "t"}

NOBODY  == "nobody"
MAIN    == "main"
READER  == "read_tcp"
CONTROL == "game_control"

VARIABLES
  server,      (* "up", connection "closed", or "silent" and unreachable   *)
  inbox,       (* messages on the TCP connection that are not yet read     *)
  chats,       (* number of chat messages so far                           *)
  keys,        (* number of keys pressed so far                            *)
  end,         (* pl->end                                                  *)
  mutex,       (* who holds pl->mutex                                      *)
  main,        (* where main is                                            *)
  silence,     (* poll timeouts in a row, at most three                    *)
  init,        (* gameboard.init                                           *)
  cancelled,   (* pthread_cancel has been called for read_tcp              *)
  reader,      (* where read_tcp is                                        *)
  interrupted, (* errno of read_tcp is EINTR                               *)
  control,     (* where game_control is                                    *)
  tchat_mode,
  data,        (* line_w: the characters ...                               *)
  cursor,      (* ... of which this many are shown                         *)
  soiled       (* history: data may hold characters beyond the cursor      *)

display == <<main, silence, init, cancelled>>
line    == <<tchat_mode, data, cursor, soiled>>
outside == <<server, inbox, chats>>
vars == <<outside, keys, end, mutex, display, reader, interrupted, control, line>>

Positions == 1..SIZE_MAX_MESSAGE

Init ==
  /\ server = "up" /\ inbox = <<>> /\ chats = 0 /\ keys = 0
  /\ end = 0 /\ mutex = NOBODY
  /\ main = "test" /\ silence = 0 /\ init = FALSE /\ cancelled = FALSE
  /\ reader = "test" /\ interrupted = FALSE
  /\ control = "test"
  /\ tchat_mode = 0 /\ cursor = 0 /\ soiled = TRUE
  /\ \E c \in {NUL, JUNK} : data = [i \in Positions |-> c]

Lock(thread) == mutex = NOBODY /\ mutex' = thread

-----------------------------------------------------------------------------
(* The server: a chat message, the end of the match and of the connection, *)
(* an end without a word, or a connection that is dead without an end.     *)
SendChat ==
  /\ server = "up" /\ chats < MaxChats
  /\ chats' = chats + 1
  /\ inbox' = Append(inbox, "chat")
  /\ UNCHANGED <<server, keys, end, mutex, display, reader, interrupted, control, line>>

FinishMatch ==
  /\ server = "up"
  /\ server' = "closed"
  /\ inbox' = Append(inbox, "end")
  /\ UNCHANGED <<chats, keys, end, mutex, display, reader, interrupted, control, line>>

Vanish ==
  /\ server = "up"
  /\ server' \in {"closed", "silent"}
  /\ UNCHANGED <<inbox, chats, keys, end, mutex, display, reader, interrupted, control, line>>

Server == SendChat \/ FinishMatch \/ Vanish

-----------------------------------------------------------------------------
(* main, in refresh_gameboard_implementation: while(pl->end == 0), ...     *)
Test ==
  /\ main = "test"
  /\ main' = IF end = 0 THEN "poll" ELSE "left"
  /\ UNCHANGED <<outside, keys, end, mutex, silence, init, cancelled, reader, interrupted,
                 control, line>>

(* ... a full grid, or a partial update after one, ...                     *)
PollUpdate ==
  /\ main = "poll" /\ server = "up"
  /\ init' \in {init, TRUE}
  /\ main' = IF init' THEN "lock" ELSE "left"
  /\ silence' = 0
  /\ UNCHANGED <<outside, keys, end, mutex, cancelled, reader, interrupted, control, line>>

PollTimeout_Restarts ==
  /\ main = "poll"
  /\ silence' = 1
  /\ main' = IF init /\ silence' * UDP_POLL_TIMEOUT_MILLISECONDS
                          >= UDP_NO_MESSAGE_FROM_SERVER_TIMEOUT_MILLISECONDS
             THEN "flag" ELSE "test"
  /\ UNCHANGED <<outside, keys, end, mutex, init, cancelled, reader, interrupted, control, line>>

(* ... two seconds without any, ...                                        *)
PollTimeout ==
  /\ main = "poll"
  /\ silence' = IF silence < 3 THEN silence + 1 ELSE 3
  /\ main' = IF init /\ silence' * UDP_POLL_TIMEOUT_MILLISECONDS
                          >= UDP_NO_MESSAGE_FROM_SERVER_TIMEOUT_MILLISECONDS
             THEN "flag" ELSE "test"
  /\ UNCHANGED <<outside, keys, end, mutex, init, cancelled, reader, interrupted, control, line>>

(* ... or an error of poll, which ends the loop, as does a partial update  *)
(* that comes before any full grid.                                        *)
PollFails ==
  /\ main = "poll"
  /\ main' = "left"
  /\ UNCHANGED <<outside, keys, end, mutex, silence, init, cancelled, reader, interrupted,
                 control, line>>

LockToDraw_Unlocked ==
  /\ main = "lock"
  /\ main' = IF end = 0 THEN "draw" ELSE "test"
  /\ UNCHANGED <<outside, keys, end, mutex, silence, init, cancelled, reader, interrupted,
                 control, line>>

(* refresh_game under the mutex, if the game has not ended meanwhile.      *)
LockToDraw ==
  /\ main = "lock"
  /\ IF end = 0 THEN Lock(MAIN) /\ main' = "draw"
     ELSE mutex = NOBODY /\ main' = "test" /\ UNCHANGED mutex
  /\ UNCHANGED <<outside, keys, end, silence, init, cancelled, reader, interrupted,
                 control, line>>

Draw ==
  /\ main = "draw"
  /\ mutex' = NOBODY
  /\ main' = "test"
  /\ UNCHANGED <<outside, keys, end, silence, init, cancelled, reader, interrupted,
                 control, line>>

(* end_game, and out of the loop.                                          *)
GiveUp ==
  /\ main = "flag" /\ mutex = NOBODY
  /\ end' = 1
  /\ main' = "left"
  /\ UNCHANGED <<outside, keys, mutex, silence, init, cancelled, reader, interrupted,
                 control, line>>

CancelReader_NotCancelled ==
  /\ main = "left"
  /\ main' = "joinReader"
  /\ UNCHANGED <<outside, keys, end, mutex, silence, init, cancelled, reader, interrupted,
                 control, line>>

(* endwin, without the mutex; then read_tcp is cancelled and joined, and   *)
(* game_control is joined.                                                 *)
CancelReader ==
  /\ main = "left"
  /\ cancelled' = TRUE
  /\ main' = "joinReader"
  /\ UNCHANGED <<outside, keys, end, mutex, silence, init, reader, interrupted, control, line>>

Join ==
  /\ \/ main = "joinReader" /\ reader = "ended" /\ main' = "joinControl"
     \/ main = "joinControl" /\ control = "ended" /\ main' = "done"
  /\ UNCHANGED <<outside, keys, end, mutex, silence, init, cancelled, reader, interrupted,
                 control, line>>

Main ==
  \/ Test \/ PollUpdate \/ PollTimeout \/ PollFails \/ LockToDraw \/ Draw \/ GiveUp
  \/ CancelReader \/ Join

-----------------------------------------------------------------------------
(* read_tcp: while(pl->end == 0), ...                                      *)
TestReader ==
  /\ reader = "test"
  /\ reader' = IF end = 0 THEN "recv" ELSE "ended"
  /\ UNCHANGED <<outside, keys, end, mutex, display, interrupted, control, line>>

(* ... a message, or ...                                                   *)
ReadMessage ==
  /\ reader = "recv" /\ inbox # <<>>
  /\ reader' = IF Head(inbox) = "chat" THEN "chat" ELSE "flag"
  /\ inbox' = Tail(inbox)
  /\ UNCHANGED <<server, chats, keys, end, mutex, display, interrupted, control, line>>

(* ... the end of the connection, which read_loop takes for an interrupted *)
(* call if one has been interrupted before: recv leaves errno alone when   *)
(* it returns 0.  Then it tries again, forever.                            *)
ReadEnd ==
  /\ reader = "recv" /\ inbox = <<>> /\ server = "closed"
  /\ ~interrupted
  /\ reader' = "flag"
  /\ UNCHANGED <<outside, keys, end, mutex, display, interrupted, control, line>>

(* The window is resized: a signal that ncurses handles.                   *)
Interrupt ==
  /\ reader = "recv"
  /\ interrupted' = TRUE
  /\ UNCHANGED <<outside, keys, end, mutex, display, reader, control, line>>

(* process_tchat_message puts the text among the lines shown.              *)
ShowChat ==
  /\ reader = "chat" /\ mutex = NOBODY
  /\ reader' = "test"
  /\ UNCHANGED <<outside, keys, end, mutex, display, interrupted, control, line>>

(* end_game sets the flag, says so while it holds the mutex, and releases  *)
(* it.                                                                     *)
SetEnd ==
  /\ reader = "flag"
  /\ Lock(READER)
  /\ end' = 1
  /\ reader' = "print"
  /\ UNCHANGED <<outside, keys, display, interrupted, control, line>>

UnlockEnd ==
  /\ reader = "print"
  /\ mutex' = NOBODY
  /\ reader' = "test"
  /\ UNCHANGED <<outside, keys, end, display, interrupted, control, line>>

(* A cancelled thread ends in recv or when it prints, with the mutex if it *)
(* has it.                                                                 *)
Cancelled ==
  /\ cancelled
  /\ reader \in {"recv", "chat", "flag", "print"}
  /\ reader' = "ended"
  /\ UNCHANGED <<outside, keys, end, mutex, display, interrupted, control, line>>

Reader ==
  \/ TestReader \/ ReadMessage \/ ReadEnd \/ ShowChat \/ SetEnd \/ UnlockEnd \/ Cancelled

-----------------------------------------------------------------------------
(* game_control: while(pl->end == 0), take the mutex, ...                  *)
TestControl ==
  /\ control = "test"
  /\ control' = IF end = 0 THEN "lock" ELSE "ended"
  /\ UNCHANGED <<outside, keys, end, mutex, display, reader, interrupted, line>>

LockForKeys ==
  /\ control = "lock"
  /\ Lock(CONTROL)
  /\ control' = "keys"
  /\ UNCHANGED <<outside, keys, end, display, reader, interrupted, line>>

(* ... read a key, if there is one, and release it.                        *)
NoKey ==
  /\ control = "keys"
  /\ mutex' = NOBODY
  /\ control' = "test"
  /\ UNCHANGED <<outside, keys, end, display, reader, interrupted, line>>

Key ==
  /\ control = "keys" /\ keys < MaxKeys
  /\ keys' = keys + 1
  /\ mutex' = NOBODY
  /\ UNCHANGED <<outside, end, display, reader, interrupted>>

Type(c) ==
  /\ Key
  /\ tchat_mode = 1 /\ cursor < SIZE_MAX_MESSAGE
  /\ data' = [data EXCEPT ![cursor + 1] = c]
  /\ cursor' = cursor + 1
  /\ control' = "test"
  /\ UNCHANGED <<tchat_mode, soiled>>

Backspace_BelowZero ==
  /\ Key
  /\ tchat_mode = 0
  /\ cursor' = cursor - 1
  /\ soiled' = TRUE
  /\ control' = "test"
  /\ UNCHANGED <<tchat_mode, data>>

(* It works outside the chat only.                                         *)
Backspace ==
  /\ Key
  /\ tchat_mode = 0 /\ cursor > 0
  /\ cursor' = cursor - 1
  /\ soiled' = TRUE
  /\ control' = "test"
  /\ UNCHANGED <<tchat_mode, data>>

(* Enter begins and ends the chat; both send what the line holds.          *)
Enter ==
  /\ Key
  /\ tchat_mode' = 1 - tchat_mode
  /\ control' = IF cursor > 0 THEN "send" ELSE "test"
  /\ UNCHANGED <<data, cursor, soiled>>

(* ESC, which works outside the chat only.                                 *)
Quit ==
  /\ Key
  /\ tchat_mode = 0
  /\ control' = "quit"
  /\ UNCHANGED line

(* The text tchat_message sends: the line up to its first NUL, without the *)
(* prefix /t of a message to the team.  (A line without NUL is longer than *)
(* it is: what follows in memory is sent, too.)                            *)
ToTeam == data[1] = "/" /\ data[2] = "t"

Length ==
  LET nuls == {i \in Positions : data[i] = NUL}
  IN IF nuls = {} THEN SIZE_MAX_MESSAGE ELSE (CHOOSE i \in nuls : \A j \in nuls : i <= j) - 1

Empty == ToTeam /\ Length = 2

SendLine_KeepsText ==
  /\ control = "send" /\ mutex = NOBODY
  /\ control' = "test"
  /\ IF Empty THEN UNCHANGED <<data, cursor, soiled>>
     ELSE cursor' = 0 /\ soiled' = FALSE /\ UNCHANGED data
  /\ UNCHANGED <<outside, keys, end, mutex, display, reader, interrupted, tchat_mode>>

(* tchat_message, under the mutex.  write_loop of an empty text returns 0, *)
(* which counts as a failure: then the line stays.                         *)
SendLine ==
  /\ control = "send" /\ mutex = NOBODY
  /\ control' = "test"
  /\ IF Empty THEN UNCHANGED <<data, cursor, soiled>>
     ELSE cursor' = 0 /\ soiled' = FALSE /\ data' = [i \in Positions |-> NUL]
  /\ UNCHANGED <<outside, keys, end, mutex, display, reader, interrupted, tchat_mode>>

(* The second write to a connection the server has closed raises SIGPIPE,  *)
(* which ends the process.                                                 *)
SendFatal ==
  /\ control = "send" /\ mutex = NOBODY
  /\ server = "closed"
  /\ main' = "killed"
  /\ UNCHANGED <<outside, keys, end, mutex, silence, init, cancelled, reader, interrupted,
                 control, line>>

(* end_game, and the thread ends.                                          *)
SetEndByKey ==
  /\ control = "quit" /\ mutex = NOBODY
  /\ end' = 1
  /\ control' = "ended"
  /\ UNCHANGED <<outside, keys, mutex, display, reader, interrupted, line>>

Control ==
  \/ TestControl \/ LockForKeys
  \/ NoKey \/ (\E c \in Letters : Type(c)) \/ Backspace \/ Enter \/ Quit
  \/ SendLine \/ SendFatal \/ SetEndByKey

-----------------------------------------------------------------------------
Next ==
  /\ main # "killed"
  /\ Server \/ Main \/ Reader \/ Interrupt \/ Control

Spec == Init /\ [][Next]_vars

(* Threads are runnable, poll returns within two seconds, and a thread     *)
(* that waits for the mutex gets it some day, though game_control takes it *)
(* again and again.                                                        *)
Fairness == SF_vars(Main) /\ SF_vars(Reader) /\ SF_vars(main # "killed" /\ Control)

FairSpec == Spec /\ Fairness

-----------------------------------------------------------------------------
TypeOK ==
  /\ server \in {"up", "closed", "silent"}
  /\ inbox \in Seq({"chat", "end"})
  /\ chats \in 0..MaxChats /\ keys \in 0..MaxKeys
  /\ end \in {0, 1}
  /\ mutex \in {NOBODY, MAIN, READER, CONTROL}
  /\ main \in {"test", "poll", "lock", "draw", "flag", "left", "joinReader", "joinControl",
               "done", "killed"}
  /\ silence \in 0..3
  /\ init \in BOOLEAN /\ cancelled \in BOOLEAN /\ interrupted \in BOOLEAN
  /\ reader \in {"test", "recv", "chat", "flag", "print", "ended"}
  /\ control \in {"test", "lock", "keys", "send", "quit", "ended"}
  /\ tchat_mode \in {0, 1}
  /\ data \in [Positions -> Letters \cup {NUL, JUNK}]
  /\ cursor \in 0..SIZE_MAX_MESSAGE
  /\ soiled \in BOOLEAN

(* ncurses is not made for threads (ncurses.c:25): while the display loop  *)
(* draws, game_control is not in getch, and the end flag, after which the  *)
(* screen is given back, cannot be set.                                    *)
DrawsAlone == main = "draw" => control # "keys" /\ end = 0

(* A chat message carries the line up to its first NUL, not up to the      *)
(* cursor: beyond the cursor the line is empty, so that no character is    *)
(* sent that its writer has not got before his eyes.  Known exceptions are *)
(* the first message, whose line has never been cleared, and a line with a *)
(* character taken back.                                                   *)
LineIsClean == soiled \/ \A i \in Positions : i > cursor => data[i] = NUL

(* The client is over: main has ended, or SIGPIPE has ended it.            *)
Over == main \in {"done", "killed"}

(* read_tcp was cancelled between lock and unlock of end_game.             *)
Orphaned == mutex = READER /\ reader = "ended"

(* Once the end flag is set, by whomever, all threads end and main joins   *)
(* them, unless cancelling read_tcp has left the mutex locked.             *)
ThreadsEnd == end = 1 ~> Over \/ Orphaned

(* A client does not outlive its server: it ends by itself when the match  *)
(* is over, the connection is closed or nothing is heard any more.  Known  *)
(* exceptions: before the first full grid, silence is not noticed, nor is  *)
(* a closed connection if a call was interrupted before; when the display  *)
(* has been left without the end flag, game_control waits for ESC; and an  *)
(* orphaned mutex.                                                         *)
Unnoticed == ~init /\ (server = "silent" \/ interrupted)

LeftEarly == main \in {"left", "joinReader", "joinControl"} /\ end = 0

EndsWithServer ==
  server # "up" ~> Over \/ Unnoticed \/ LeftEarly \/ Orphaned

=============================================================================
