--------------------------- MODULE ShutdownProofs ----------------------------
(***************************************************************************)
(* Theorems about Shutdown, for every number of players the code allows,   *)
(* every team, and whatever is in uninitialized memory: critical sections  *)
(* exclude each other, the match is freed when no thread is left, and what *)
(* players are sent can be read.                                           *)
(***************************************************************************)
EXTENDS Shutdown, TLAPS

-----------------------------------------------------------------------------
(* The header and the action word: setting a field that fits gives a word  *)
(* of 16 bits from which it is read back and in which the others are what  *)
(* they were, and converting twice changes nothing.                        *)

(* A header made of its three fields.                                      *)
Packed(c, id, eq) == c + (8192 * id) + (32768 * eq)

(* What a word of 16 bits is.                                              *)
LEMMA InWords ==
  ASSUME NEW x \in Int, 0 <= x, x <= 65535
  PROVE  x \in Words
BY DEF Words

(* Every header is.                                                        *)
LEMMA Fields ==
  ASSUME NEW h \in Words
  PROVE  /\ GET_CODEREQ(h) \in Codes /\ GET_ID(h) \in 0..3 /\ GET_EQ(h) \in 0..1
         /\ h = Packed(GET_CODEREQ(h), GET_ID(h), GET_EQ(h))
<1>1. h \in Int /\ 0 <= h /\ h <= 65535
  BY DEF Words
<1>2. h = (8192 * (h \div 8192)) + (h % 8192) /\ 0 <= h % 8192 /\ h % 8192 <= 8191
  BY <1>1, SMT
<1>3. (h \div 8192) % 4 \in 0..3 /\ h \div 32768 \in 0..1
  BY <1>1, SMT
<1>4. h \div 8192 = (4 * (h \div 32768)) + ((h \div 8192) % 4)
  BY <1>1, SMT
<1>5. h % 8192 \in Codes
  BY <1>1, <1>2, SMT DEF Codes
<1>6. h = (h % 8192) + (8192 * ((h \div 8192) % 4)) + (32768 * (h \div 32768))
  BY <1>1, <1>2, <1>4, SMT
<1> QED BY <1>3, <1>5, <1>6 DEF GET_CODEREQ, GET_ID, GET_EQ, Packed

(* And any three fields make one.                                          *)
LEMMA PackedFields ==
  ASSUME NEW c \in Codes, NEW id \in 0..3, NEW eq \in 0..1
  PROVE  LET h == Packed(c, id, eq)
         IN h \in Words /\ GET_CODEREQ(h) = c /\ GET_ID(h) = id /\ GET_EQ(h) = eq
<1> DEFINE h == c + (8192 * id) + (32768 * eq)
<1>1. c \in Int /\ 0 <= c /\ c <= 8191 /\ id \in Int /\ 0 <= id /\ id <= 3
        /\ eq \in Int /\ 0 <= eq /\ eq <= 1
  BY DEF Codes
<1>2. h \in Int /\ 0 <= h /\ h <= 65535
  BY <1>1, SMT
<1>3. h % 8192 = c /\ h \div 8192 = id + (4 * eq) /\ h \div 32768 = eq
  BY <1>1, SMT
<1>4. (id + (4 * eq)) % 4 = id
  BY <1>1, SMT
<1>5. h \in Words
  <2> HIDE DEF h
  <2> QED BY <1>2, InWords
<1> QED BY <1>3, <1>4, <1>5 DEF GET_CODEREQ, GET_ID, GET_EQ, Packed

(* SET_CODEREQ of a code of 13 bits: the code is read back, and the sender *)
(* and his team stay.                                                      *)
THEOREM CodeReadBack ==
  ASSUME NEW h \in Words, NEW c \in Codes
  PROVE  /\ SET_CODEREQ(h, c) \in Words
         /\ GET_CODEREQ(SET_CODEREQ(h, c)) = c
         /\ GET_ID(SET_CODEREQ(h, c)) = GET_ID(h)
         /\ GET_EQ(SET_CODEREQ(h, c)) = GET_EQ(h)
<1>1. SET_CODEREQ(h, c) = Packed(c, GET_ID(h), GET_EQ(h))
  <2> DEFINE a == GET_CODEREQ(h)  i == GET_ID(h)  e == GET_EQ(h)
  <2>1. a \in Int /\ i \in Int /\ e \in Int /\ c \in Int /\ h = Packed(a, i, e)
    <3>1. a \in Codes /\ i \in 0..3 /\ e \in 0..1 /\ h = Packed(a, i, e)
      BY Fields
    <3> HIDE DEF a, i, e
    <3> QED BY <3>1 DEF Codes
  <2>2. h - a + c = c + (8192 * i) + (32768 * e)
    <3> HIDE DEF a, i, e
    <3> QED BY <2>1, SMT DEF Packed
  <2> QED BY <2>2 DEF SET_CODEREQ, Packed
<1> QED BY <1>1, Fields, PackedFields

(* SET_ID of an id of two bits, as those of the players are.               *)
THEOREM IdReadBack ==
  ASSUME NEW h \in Words, NEW id \in 0..3
  PROVE  /\ SET_ID(h, id) \in Words
         /\ GET_ID(SET_ID(h, id)) = id
         /\ GET_CODEREQ(SET_ID(h, id)) = GET_CODEREQ(h)
         /\ GET_EQ(SET_ID(h, id)) = GET_EQ(h)
<1>1. id % 4 = id /\ (id \div 4) % 2 = 0
  BY SMT
<1>2. SET_ID(h, id) = Packed(GET_CODEREQ(h), id, GET_EQ(h))
  BY <1>1 DEF SET_ID, Packed
<1> QED BY <1>2, Fields, PackedFields

(* SET_EQ of a team.                                                       *)
THEOREM EqReadBack ==
  ASSUME NEW h \in Words, NEW eq \in 0..1
  PROVE  /\ SET_EQ(h, eq) \in Words
         /\ GET_EQ(SET_EQ(h, eq)) = eq
         /\ GET_CODEREQ(SET_EQ(h, eq)) = GET_CODEREQ(h)
         /\ GET_ID(SET_EQ(h, eq)) = GET_ID(h)
<1>1. SET_EQ(h, eq) = Packed(GET_CODEREQ(h), GET_ID(h), eq)
  <2> DEFINE a == GET_CODEREQ(h)  i == GET_ID(h)  e == GET_EQ(h)
  <2>1. /\ a \in Int /\ 0 <= a /\ a <= 8191 /\ i \in Int /\ 0 <= i /\ i <= 3 /\ e \in Int
        /\ h = Packed(a, i, e)
    <3>1. a \in Codes /\ i \in 0..3 /\ e \in 0..1 /\ h = Packed(a, i, e)
      BY Fields
    <3> HIDE DEF a, i, e
    <3> QED BY <3>1, SMT DEF Codes
  <2>2. h % 32768 = a + (8192 * i)
    <3> HIDE DEF a, i, e
    <3> QED BY <2>1, SMT DEF Packed
  <2>3. eq % 2 = eq
    BY SMT
  <2> QED BY <2>2, <2>3 DEF SET_EQ, Packed
<1> QED BY <1>1, Fields, PackedFields

(* The action word: number and action are read back, in whichever order    *)
(* they are set, and each leaves the other alone.                          *)
THEOREM ActionReadBack ==
  ASSUME NEW a \in Words, NEW num \in Codes, NEW action \in 0..7
  PROVE  /\ SET_NUM(a, num) \in Words
         /\ GET_NUM(SET_NUM(a, num)) = num
         /\ GET_ACTION(SET_NUM(a, num)) = GET_ACTION(a)
         /\ SET_ACTION(a, action) \in Words
         /\ GET_ACTION(SET_ACTION(a, action)) = action
         /\ GET_NUM(SET_ACTION(a, action)) = GET_NUM(a)
<1> DEFINE n == a % 8192  k == a \div 8192
<1>1. /\ n \in Int /\ 0 <= n /\ n <= 8191 /\ k \in Int /\ 0 <= k /\ k <= 7
      /\ a \in Int /\ a = n + (8192 * k)
  BY SMT DEF Words
<1>2. num \in Int /\ 0 <= num /\ num <= 8191 /\ action \in Int /\ 0 <= action /\ action <= 7
        /\ action % 8 = action
  BY SMT DEF Codes
<1>3. a - n + num = num + (8192 * k)
  <2> HIDE DEF n, k
  <2> QED BY <1>1, <1>2, SMT
<1>4. ASSUME NEW x \in Int, NEW y \in Int, 0 <= x, x <= 8191, 0 <= y, y <= 7
      PROVE  /\ x + (8192 * y) \in Words
             /\ (x + (8192 * y)) % 8192 = x /\ (x + (8192 * y)) \div 8192 = y
  <2>1. x + (8192 * y) \in Int /\ 0 <= x + (8192 * y) /\ x + (8192 * y) <= 65535
    BY <1>4, SMT
  <2>2. (x + (8192 * y)) % 8192 = x /\ (x + (8192 * y)) \div 8192 = y
    BY <1>4, SMT
  <2> QED BY <2>1, <2>2, InWords
<1>5. SET_NUM(a, num) = num + (8192 * k) /\ SET_ACTION(a, action) = n + (8192 * action)
  BY <1>2, <1>3 DEF SET_NUM, SET_ACTION, GET_NUM
<1>6. GET_NUM(a) = n /\ GET_ACTION(a) = k
  BY DEF GET_NUM, GET_ACTION
<1> HIDE DEF n, k
<1>7. /\ num + (8192 * k) \in Words
      /\ (num + (8192 * k)) % 8192 = num /\ (num + (8192 * k)) \div 8192 = k
  BY <1>1, <1>2, <1>4
<1>8. /\ n + (8192 * action) \in Words
      /\ (n + (8192 * action)) % 8192 = n /\ (n + (8192 * action)) \div 8192 = action
  BY <1>1, <1>2, <1>4
<1> QED BY <1>5, <1>6, <1>7, <1>8 DEF GET_NUM, GET_ACTION

(* htons gives a word, and undoes itself: a header that is converted once  *)
(* more than it is read is back in the order of the sender's machine.      *)
LEMMA ConversionUndoesItself ==
  ASSUME NEW w \in Words
  PROVE  htons(w) \in Words /\ ntohs(htons(w)) = w
<1> DEFINE lo == w % 256  hi == w \div 256
<1>1. /\ lo \in Int /\ 0 <= lo /\ lo <= 255 /\ hi \in Int /\ 0 <= hi /\ hi <= 255
      /\ w = (256 * hi) + lo
  BY SMT DEF Words
<1>2. htons(w) = (256 * lo) + hi
  BY DEF htons
<1> HIDE DEF lo, hi
<1>3. ((256 * lo) + hi) % 256 = hi /\ ((256 * lo) + hi) \div 256 = lo
  BY <1>1, SMT
<1>4. (256 * lo) + hi \in Int /\ 0 <= (256 * lo) + hi /\ (256 * lo) + hi <= 65535
  BY <1>1, SMT
<1>5. (256 * lo) + hi \in Words
  BY <1>4, InWords
<1> QED BY <1>1, <1>2, <1>3, <1>5 DEF htons, ntohs

-----------------------------------------------------------------------------
USE DEF Players

(* Whatever does not fit into its field, a header stays a word of 16 bits  *)
(* and keeps its code.                                                     *)
LEMMA AnyIdKeepsCode ==
  ASSUME NEW h \in Words, NEW id \in Int
  PROVE  SET_ID(h, id) \in Words /\ GET_CODEREQ(SET_ID(h, id)) = GET_CODEREQ(h)
<1> DEFINE i == id % 4  b == (id \div 4) % 2
<1>1. i \in 0..3 /\ b \in Int
  BY SMT
<1>2. CASE b = 1
  <2>1. SET_ID(h, id) = Packed(GET_CODEREQ(h), i, 1)
    BY <1>2 DEF SET_ID, Packed
  <2> QED BY <1>1, <2>1, Fields, PackedFields
<1>3. CASE b # 1
  <2>1. SET_ID(h, id) = Packed(GET_CODEREQ(h), i, GET_EQ(h))
    BY <1>3 DEF SET_ID, Packed
  <2> QED BY <1>1, <2>1, Fields, PackedFields
<1> QED BY <1>2, <1>3

LEMMA AnyEqKeepsCode ==
  ASSUME NEW h \in Words, NEW eq \in Int
  PROVE  SET_EQ(h, eq) \in Words /\ GET_CODEREQ(SET_EQ(h, eq)) = GET_CODEREQ(h)
<1>1. eq % 2 \in 0..1
  BY SMT
<1>2. SET_EQ(h, eq) = SET_EQ(h, eq % 2)
  <2>1. (eq % 2) % 2 = eq % 2
    BY <1>1, SMT
  <2> QED BY <2>1 DEF SET_EQ
<1> QED BY <1>1, <1>2, EqReadBack

LEMMA CodesFit ==
  /\ SERVER_TCHAT_SENT_ALL_PLAYERS \in Codes /\ SERVER_TCHAT_SENT_TEAM \in Codes
  /\ SERVER_RESPONSE_MATCH_END_4_OPPONENTS \in Codes
  /\ SERVER_RESPONSE_MATCH_END_2_TEAMS \in Codes
BY DEF Codes, SERVER_TCHAT_SENT_ALL_PLAYERS, SERVER_TCHAT_SENT_TEAM,
       SERVER_RESPONSE_MATCH_END_4_OPPONENTS, SERVER_RESPONSE_MATCH_END_2_TEAMS

LEMMA TeamsOfPlayers ==
  ASSUME NEW p \in Players
  PROVE  players_team(p) \in 0..1
BY ShutdownAssumption DEF players_team

LEMMA RelayHeaderIsWord ==
  ASSUME TypeOK, NEW p \in Players
  PROVE  RelayHeader(p) \in Words
<1>1. msg.header \in Words
  BY DEF TypeOK
<1> DEFINE all == SET_CODEREQ(msg.header, SERVER_TCHAT_SENT_ALL_PLAYERS)
           team == SET_CODEREQ(msg.header, SERVER_TCHAT_SENT_TEAM)
<1>2. all \in Words /\ team \in Words
  BY <1>1, CodesFit, CodeReadBack
<1> HIDE DEF all, team
<1>3. SET_EQ(team, players_team(p)) \in Words
  BY <1>2, TeamsOfPlayers, EqReadBack
<1>4. htons(all) \in Words /\ htons(SET_EQ(team, players_team(p))) \in Words
  BY <1>2, <1>3, ConversionUndoesItself
<1> QED BY <1>4 DEF RelayHeader, all, team

LEMMA EndHeaderIsWord ==
  ASSUME NEW garbage \in Words, NEW r \in Results
  PROVE  EndHeader(garbage, r) \in Words
<1> DEFINE opponents == SET_CODEREQ(garbage, SERVER_RESPONSE_MATCH_END_4_OPPONENTS)
           teams == SET_CODEREQ(garbage, SERVER_RESPONSE_MATCH_END_2_TEAMS)
<1>1. opponents \in Words /\ teams \in Words
  BY CodesFit, CodeReadBack
<1>2. r \in Int
  BY ShutdownAssumption DEF Results, ALL_PLAYERS_ARE_DEAD
<1> HIDE DEF opponents, teams
<1>3. SET_ID(opponents, r) \in Words /\ SET_EQ(teams, r) \in Words
  BY <1>1, <1>2, AnyIdKeepsCode, AnyEqKeepsCode
<1> QED BY <1>3 DEF EndHeader, opponents, teams

-----------------------------------------------------------------------------
(* Type correctness.                                                       *)
LEMMA InitType == Init => TypeOK
<1> SUFFICES ASSUME Init PROVE TypeOK
  OBVIOUS
<1>1. cancelled \in BOOLEAN /\ down \in BOOLEAN
  BY Zenon DEF Init
<1>2. msg \in [kind : {T_CHAT_ALL_PLAYERS, T_CHAT_TEAM}, header : Words] /\ end_game_message \in Words
  BY DEF Init, NoMsg, Words
<1>3. /\ conn \in [Players -> {"open", "closed", "resetting", "reset"}]
      /\ chat \in [Players -> {"none", "header", "whole"}]
      /\ chats \in 0..MaxChats /\ actions \in 0..MaxActions
      /\ mutex \in Players \cup {UPDATER, RECEIVER, NOBODY}
      /\ updater \in {"round", "pass", "finish", "cancel", "receiver", "handlers", "freed"}
      /\ cursor \in 0..MaxPlayers
      /\ receiver \in {"recv", "lock", "update", "ended"}
      /\ handler \in [Players -> {"recv", "lock", "text", "relay", "send", "ended"}]
      /\ left \in [Players -> SUBSET Players]
      /\ told \in SUBSET Players
      /\ mode \in {FOUR_OPPONENTS_MODE, TEAM_MODE}
      /\ half \in SUBSET Players
      /\ result \in Results \cup {0}
  BY ShutdownAssumption DEF Init, FOUR_OPPONENTS_MODE, TEAM_MODE
<1> QED BY <1>1, <1>2, <1>3 DEF TypeOK

(* The parts of a step that several actions share.                         *)
LEMMA SendToType ==
  ASSUME TypeOK, NEW p \in Players, SendTo(p)
  PROVE  conn' \in [Players -> {"open", "closed", "resetting", "reset"}] /\ down' \in BOOLEAN
<1>1. down' \in BOOLEAN
  BY Zenon DEF SendTo
<1>2. conn' \in [Players -> {"open", "closed", "resetting", "reset"}]
  BY DEF SendTo, TypeOK
<1> QED BY <1>1, <1>2

LEMMA HandlerType ==
  ASSUME TypeOK, NEW p \in Players, Handler(p)
  PROVE  TypeOK'
<1>1. CASE ReadHeader(p)
  BY <1>1 DEF ReadHeader, TypeOK, clients, wire, Results
<1>2. CASE LockForChat(p)
  BY <1>2 DEF LockForChat, Lock, TypeOK, clients, wire, Results
<1>3. CASE ReadText(p)
  <2>1. PICK kind \in {T_CHAT_ALL_PLAYERS, T_CHAT_TEAM}, garbage \in Garbage :
          /\ msg' = [kind |-> kind, header |-> SET_ID(garbage, p)]
          /\ left' = [left EXCEPT ![p] = Recipients(p, kind)]
    BY <1>3 DEF ReadText
  <2>2. SET_ID(garbage, p) \in Words
    BY ShutdownAssumption, AnyIdKeepsCode
  <2>3. msg' \in [kind : {T_CHAT_ALL_PLAYERS, T_CHAT_TEAM}, header : Words]
    BY <2>1, <2>2
  <2>4. left' \in [Players -> SUBSET Players]
    BY <2>1 DEF Recipients, TypeOK
  <2> QED BY <1>3, <2>3, <2>4 DEF ReadText, TypeOK, Results
<1>4. CASE RelayMsgHeader(p)
  <2>1. PICK q \in Players : SendTo(q) /\ half' = half \cup {q}
    BY <1>4 DEF RelayMsgHeader
  <2>2. conn' \in [Players -> {"open", "closed", "resetting", "reset"}] /\ down' \in BOOLEAN
    BY <2>1, SendToType
  <2>3. half' \in SUBSET Players
    BY <2>1 DEF TypeOK
  <2>4. msg' \in [kind : {T_CHAT_ALL_PLAYERS, T_CHAT_TEAM}, header : Words]
    BY <1>4, RelayHeaderIsWord DEF RelayMsgHeader, TypeOK
  <2> QED BY <1>4, <2>2, <2>3, <2>4 DEF RelayMsgHeader, TypeOK, clients, Results
<1>5. CASE RelayMsgText(p)
  <2>1. PICK q \in Players : SendTo(q) /\ half' = half \ {q} /\ left' = [left EXCEPT ![p] = @ \ {q}]
    BY <1>5 DEF RelayMsgText
  <2>2. conn' \in [Players -> {"open", "closed", "resetting", "reset"}] /\ down' \in BOOLEAN
    BY <2>1, SendToType
  <2>3. half' \in SUBSET Players /\ left' \in [Players -> SUBSET Players]
    BY <2>1 DEF TypeOK
  <2> QED BY <1>5, <2>2, <2>3 DEF RelayMsgText, TypeOK, clients, Results
<1>6. CASE EndRelay(p)
  <2>1. msg' \in [kind : {T_CHAT_ALL_PLAYERS, T_CHAT_TEAM}, header : Words]
    BY <1>6 DEF EndRelay, NoMsg, Words
  <2> QED BY <1>6, <2>1 DEF EndRelay, Unlock, TypeOK, clients, Results
<1>7. CASE EndHandler(p)
  BY <1>7 DEF EndHandler, TypeOK, clients, wire, Results
<1>8. CASE CancelHandler(p)
  <2>1. msg' \in [kind : {T_CHAT_ALL_PLAYERS, T_CHAT_TEAM}, header : Words]
    BY <1>8 DEF CancelHandler, NoMsg, Words, TypeOK
  <2> QED BY <1>8, <2>1 DEF CancelHandler, TypeOK, clients, Results
<1> QED BY <1>1, <1>2, <1>3, <1>4, <1>5, <1>6, <1>7, <1>8 DEF Handler

LEMMA ReceiverType ==
  ASSUME TypeOK, Receiver
  PROVE  TypeOK'
<1>1. CASE ReceiveAction
  BY <1>1, ShutdownAssumption DEF ReceiveAction, TypeOK, wire, Results
<1>2. CASE LockForAction
  BY <1>2 DEF LockForAction, Lock, TypeOK, clients, wire, Results
<1>3. CASE EndAction
  BY <1>3 DEF EndAction, Unlock, TypeOK, clients, wire, Results
<1>4. CASE CancelReceiver
  BY <1>4 DEF CancelReceiver, TypeOK, clients, wire, Results
<1> QED BY <1>1, <1>2, <1>3, <1>4 DEF Receiver

LEMMA UpdaterType ==
  ASSUME TypeOK, Updater
  PROVE  TypeOK'
<1>1. CASE BeginRound
  BY <1>1 DEF BeginRound, Lock, TypeOK, clients, wire, Results
<1>2. CASE EndRound
  BY <1>2 DEF EndRound, Unlock, TypeOK, clients, wire, Results
<1>3. CASE BeginFinish
  <2>1. PICK r \in Results, garbage \in Garbage :
          result' = r /\ end_game_message' = htons(EndHeader(garbage, r))
    BY <1>3 DEF BeginFinish
  <2>2. end_game_message' \in Words
    BY <2>1, ShutdownAssumption, EndHeaderIsWord, ConversionUndoesItself
  <2>3. result' \in Results' \cup {0}
    BY <1>3, <2>1 DEF BeginFinish, Results
  <2> QED BY <1>3, <2>2, <2>3 DEF BeginFinish, Lock, TypeOK, clients
<1>4. CASE CancelThreads
  BY <1>4 DEF CancelThreads, Unlock, TypeOK, clients, wire, Results
<1>5. CASE JoinReceiver
  BY <1>5 DEF JoinReceiver, TypeOK, clients, wire, Results
<1>6. CASE JoinHandler
  <2>1. conn' \in [Players -> {"open", "closed", "resetting", "reset"}] /\ down' \in BOOLEAN
    BY <1>6, SendToType DEF JoinHandler
  <2>2. cursor' \in 0..MaxPlayers /\ told' \in SUBSET Players
    BY <1>6, ShutdownAssumption DEF JoinHandler, TypeOK
  <2> QED BY <1>6, <2>1, <2>2 DEF JoinHandler, TypeOK, clients, wire, Results
<1>7. CASE FreeMatch
  BY <1>7 DEF FreeMatch, TypeOK, clients, wire, Results
<1> QED BY <1>1, <1>2, <1>3, <1>4, <1>5, <1>6, <1>7 DEF Updater

LEMMA ClientType ==
  ASSUME TypeOK, NEW p \in Players, ChatHeader(p) \/ ChatText(p) \/ Close(p) \/ Reset(p)
  PROVE  TypeOK'
<1>1. CASE ChatHeader(p)
  BY <1>1, ShutdownAssumption DEF ChatHeader, TypeOK, wire, Results
<1>2. CASE ChatText(p)
  BY <1>2 DEF ChatText, TypeOK, wire, Results
<1>3. CASE Close(p)
  BY <1>3 DEF Close, TypeOK, clients, wire, Results
<1>4. CASE Reset(p)
  BY <1>4 DEF Reset, TypeOK, clients, wire, Results
<1> QED BY <1>1, <1>2, <1>3, <1>4

LEMMA TypeStep == TypeOK /\ [Next]_vars => TypeOK'
<1> SUFFICES ASSUME TypeOK, [Next]_vars PROVE TypeOK'
  OBVIOUS
<1>1. CASE UNCHANGED vars
  BY <1>1 DEF vars, clients, wire, TypeOK, Results
<1>2. CASE Next
  BY <1>2, ClientType, HandlerType, ReceiverType, UpdaterType DEF Next
<1> QED BY <1>1, <1>2

(* Every thread is somewhere, every holder of the mutex is a thread, and   *)
(* what is sent is a word of 16 bits, for every number of players.         *)
THEOREM EndTypeCorrect == Spec => []TypeOK
BY InitType, TypeStep, PTL DEF Spec

-----------------------------------------------------------------------------
(* Mutual exclusion.                                                       *)
LEMMA InitMutex == Init => MutexProtects
BY DEF Init, MutexProtects

LEMMA HandlerMutex ==
  ASSUME TypeOK, MutexProtects, NEW p \in Players, Handler(p)
  PROVE  MutexProtects'
<1> USE DEF TypeOK, MutexProtects
<1>1. CASE ReadHeader(p)
  BY <1>1 DEF ReadHeader
<1>2. CASE LockForChat(p)
  BY <1>2, ShutdownAssumption DEF LockForChat, Lock, UPDATER, RECEIVER, NOBODY
<1>3. CASE ReadText(p)
  BY <1>3 DEF ReadText
<1>4. CASE RelayMsgHeader(p) \/ RelayMsgText(p)
  BY <1>4 DEF RelayMsgHeader, RelayMsgText
<1>5. CASE EndRelay(p)
  BY <1>5, ShutdownAssumption DEF EndRelay, Unlock, UPDATER, RECEIVER, NOBODY
<1>6. CASE EndHandler(p)
  BY <1>6 DEF EndHandler
<1>7. CASE CancelHandler(p)
  BY <1>7 DEF CancelHandler
<1> QED BY <1>1, <1>2, <1>3, <1>4, <1>5, <1>6, <1>7 DEF Handler

LEMMA ReceiverMutex ==
  ASSUME TypeOK, MutexProtects, Receiver
  PROVE  MutexProtects'
<1> USE DEF TypeOK, MutexProtects
<1>1. CASE ReceiveAction
  BY <1>1 DEF ReceiveAction
<1>2. CASE LockForAction
  BY <1>2, ShutdownAssumption DEF LockForAction, Lock, UPDATER, RECEIVER, NOBODY
<1>3. CASE EndAction
  BY <1>3, ShutdownAssumption DEF EndAction, Unlock, UPDATER, RECEIVER, NOBODY
<1>4. CASE CancelReceiver
  BY <1>4 DEF CancelReceiver
<1> QED BY <1>1, <1>2, <1>3, <1>4 DEF Receiver

LEMMA UpdaterMutex ==
  ASSUME TypeOK, MutexProtects, Updater
  PROVE  MutexProtects'
<1> USE DEF TypeOK, MutexProtects
<1>1. CASE BeginRound
  BY <1>1, ShutdownAssumption DEF BeginRound, Lock, UPDATER, RECEIVER, NOBODY
<1>2. CASE EndRound
  BY <1>2, ShutdownAssumption DEF EndRound, Unlock, UPDATER, RECEIVER, NOBODY
<1>3. CASE BeginFinish
  BY <1>3, ShutdownAssumption DEF BeginFinish, Lock, UPDATER, RECEIVER, NOBODY
<1>4. CASE CancelThreads
  BY <1>4, ShutdownAssumption DEF CancelThreads, Unlock, UPDATER, RECEIVER, NOBODY
<1>5. CASE JoinReceiver
  BY <1>5 DEF JoinReceiver
<1>6. CASE JoinHandler
  BY <1>6 DEF JoinHandler
<1>7. CASE FreeMatch
  BY <1>7 DEF FreeMatch
<1> QED BY <1>1, <1>2, <1>3, <1>4, <1>5, <1>6, <1>7 DEF Updater

LEMMA MutexStep == TypeOK /\ MutexProtects /\ [Next]_vars => MutexProtects'
<1> SUFFICES ASSUME TypeOK, MutexProtects, [Next]_vars PROVE MutexProtects'
  OBVIOUS
<1>1. CASE UNCHANGED vars
  BY <1>1 DEF vars, MutexProtects
<1>2. ASSUME NEW p \in Players, ChatHeader(p) \/ ChatText(p) \/ Close(p) \/ Reset(p)
      PROVE  MutexProtects'
  BY <1>2 DEF ChatHeader, ChatText, Close, Reset, MutexProtects
<1>3. CASE Next
  BY <1>2, <1>3, HandlerMutex, ReceiverMutex, UpdaterMutex DEF Next
<1> QED BY <1>1, <1>3

(* In every match at most one thread is in a critical section of           *)
(* match->mutex, and it holds the mutex.                                   *)
THEOREM MutualExclusion == Spec => []MutexProtects
<1>1. Init => MutexProtects
  BY InitMutex
<1>2. TypeOK /\ MutexProtects /\ [Next]_vars => MutexProtects'
  BY MutexStep
<1> QED BY <1>1, <1>2, EndTypeCorrect, PTL DEF Spec

-----------------------------------------------------------------------------
(* Joined threads have ended and stay so.                                  *)
JoinInv ==
  /\ updater \in {"handlers", "freed"} => receiver = "ended"
  /\ \A p \in Players : p < cursor => handler[p] = "ended"
  /\ updater = "freed" => cursor = MaxPlayers

LEMMA InitJoin == Init => JoinInv
BY ShutdownAssumption DEF Init, JoinInv

LEMMA HandlerJoin ==
  ASSUME TypeOK, JoinInv, NEW p \in Players, Handler(p)
  PROVE  JoinInv'
<1>1. handler[p] # "ended"
  BY DEF Handler, ReadHeader, LockForChat, ReadText, RelayMsgHeader,
         RelayMsgText, EndRelay, EndHandler, CancelHandler
<1>2. UNCHANGED <<updater, receiver, cursor>>
  BY DEF Handler, ReadHeader, LockForChat, ReadText, RelayMsgHeader,
         RelayMsgText, EndRelay, EndHandler, CancelHandler
<1>3. \A q \in Players : q # p => handler'[q] = handler[q]
  BY DEF Handler, ReadHeader, LockForChat, ReadText, RelayMsgHeader,
         RelayMsgText, EndRelay, EndHandler, CancelHandler,
         TypeOK
<1> QED BY <1>1, <1>2, <1>3 DEF JoinInv

LEMMA JoinStep == TypeOK /\ JoinInv /\ [Next]_vars => JoinInv'
<1> SUFFICES ASSUME TypeOK, JoinInv, [Next]_vars PROVE JoinInv'
  OBVIOUS
<1>1. CASE UNCHANGED vars
  BY <1>1 DEF vars, JoinInv
<1>2. ASSUME NEW p \in Players, ChatHeader(p) \/ ChatText(p) \/ Close(p) \/ Reset(p)
      PROVE  JoinInv'
  BY <1>2 DEF ChatHeader, ChatText, Close, Reset, JoinInv
<1>3. CASE Receiver
  BY <1>3 DEF Receiver, ReceiveAction, LockForAction, EndAction, CancelReceiver, JoinInv
<1>4. CASE BeginRound \/ EndRound \/ BeginFinish \/ CancelThreads
  BY <1>4 DEF BeginRound, EndRound, BeginFinish, CancelThreads, JoinInv
<1>5. CASE JoinReceiver
  BY <1>5 DEF JoinReceiver, JoinInv
<1>6. CASE JoinHandler
  <2>1. cursor \in Players /\ cursor' = cursor + 1 /\ handler[cursor] = "ended"
          /\ UNCHANGED <<updater, receiver, handler>> /\ updater = "handlers"
    BY <1>6 DEF JoinHandler
  <2> QED BY <2>1, ShutdownAssumption DEF JoinInv
<1>7. CASE FreeMatch
  BY <1>7 DEF FreeMatch, JoinInv
<1>8. CASE Next
  BY <1>2, <1>3, <1>4, <1>5, <1>6, <1>7, <1>8, HandlerJoin DEF Next, Updater
<1> QED BY <1>1, <1>8

(* In every match, when finish_match frees it all its other threads have   *)
(* ended: none can use the match, or lock its mutex, afterwards.           *)
THEOREM FreedLast == Spec => []FreedWhenUnused
<1>1. TypeOK /\ JoinInv => FreedWhenUnused
  BY ShutdownAssumption DEF JoinInv, FreedWhenUnused
<1> QED BY <1>1, InitJoin, JoinStep, EndTypeCorrect, PTL DEF Spec

-----------------------------------------------------------------------------
(* While a message has not been relayed to anybody, its header says who    *)
(* wrote it.                                                               *)
RelayInv ==
  \A p \in Players : handler[p] \in {"relay", "send"} =>
    /\ left[p] \subseteq Recipients(p, msg.kind)
    /\ handler[p] = "relay" /\ left[p] = Recipients(p, msg.kind) => GET_ID(msg.header) = p

LEMMA OneInSection ==
  ASSUME TypeOK, MutexProtects, NEW p \in Players, NEW q \in Players,
         handler[p] \in {"text", "relay", "send"},
         handler[q] \in {"text", "relay", "send"}
  PROVE  p = q
BY DEF MutexProtects

LEMMA HandlerRelay ==
  ASSUME TypeOK, MutexProtects, RelayInv, NEW p \in Players, Handler(p)
  PROVE  RelayInv'
<1>1. mode' = mode
  BY DEF Handler, ReadHeader, LockForChat, ReadText, RelayMsgHeader,
         RelayMsgText, EndRelay, EndHandler, CancelHandler, wire
<1>2. \A q \in Players : \A kind : Recipients(q, kind)' = Recipients(q, kind)
  BY <1>1 DEF Recipients, players_team
<1>3. \A q \in Players : q # p => handler'[q] = handler[q]
  BY DEF Handler, ReadHeader, LockForChat, ReadText, RelayMsgHeader,
         RelayMsgText, EndRelay, EndHandler, CancelHandler,
         TypeOK
<1>4. CASE ReadHeader(p) \/ LockForChat(p) \/ EndHandler(p)
  <2>1. handler'[p] \notin {"relay", "send"} /\ msg' = msg /\ left' = left
    BY <1>4 DEF ReadHeader, LockForChat, EndHandler, TypeOK, wire
  <2> QED BY <1>2, <1>3, <2>1 DEF RelayInv
<1>5. CASE ReadText(p)
  <2>1. PICK kind \in {T_CHAT_ALL_PLAYERS, T_CHAT_TEAM}, garbage \in Garbage :
          /\ msg' = [kind |-> kind, header |-> SET_ID(garbage, p)]
          /\ left' = [left EXCEPT ![p] = Recipients(p, kind)]
    BY <1>5 DEF ReadText
  <2>2. GET_ID(SET_ID(garbage, p)) = p
    <3>1. p \in 0..3 /\ garbage \in Words
      BY ShutdownAssumption
    <3> QED BY <3>1, IdReadBack
  <2>3. \A q \in Players : q # p => handler'[q] \notin {"relay", "send"}
    BY <1>3, <1>5, OneInSection DEF ReadText
  <2>4. left'[p] = Recipients(p, msg'.kind)
    BY <2>1 DEF TypeOK
  <2> QED BY <1>2, <2>1, <2>2, <2>3, <2>4 DEF RelayInv
<1>6. CASE RelayMsgHeader(p)
  <2>1. /\ left' = left /\ msg'.kind = msg.kind
        /\ handler[p] = "relay" /\ handler'[p] = "send"
    BY <1>6 DEF RelayMsgHeader, TypeOK
  <2>2. \A q \in Players : q # p => handler'[q] \notin {"relay", "send"}
    BY <1>3, <2>1, OneInSection
  <2>3. left'[p] \subseteq Recipients(p, msg.kind)
    BY <2>1 DEF RelayInv
  <2> QED BY <1>2, <2>1, <2>2, <2>3 DEF RelayInv
<1>7. CASE RelayMsgText(p)
  <2>1. PICK q \in left[p] : left' = [left EXCEPT ![p] = @ \ {q}]
    BY <1>7 DEF RelayMsgText, NextRecipient
  <2>2. handler[p] = "send" /\ msg' = msg
    BY <1>7 DEF RelayMsgText
  <2>3. left'[p] \subseteq Recipients(p, msg.kind) /\ left'[p] # Recipients(p, msg.kind)
    BY <2>1, <2>2 DEF RelayInv, TypeOK
  <2>4. \A r \in Players : r # p => handler'[r] \notin {"relay", "send"}
    BY <1>3, <2>2, OneInSection
  <2> QED BY <1>2, <2>2, <2>3, <2>4 DEF RelayInv
<1>8. CASE EndRelay(p) \/ CancelHandler(p)
  <2>1. handler'[p] \notin {"relay", "send"} /\ left' = left
    BY <1>8 DEF EndRelay, CancelHandler, TypeOK
  <2>2. CASE handler[p] \in {"relay", "send"}
    <3>1. \A q \in Players : q # p => handler'[q] \notin {"relay", "send"}
      BY <1>3, <2>2, OneInSection
    <3> QED BY <2>1, <3>1 DEF RelayInv
  <2>3. CASE handler[p] \notin {"relay", "send"}
    <3>1. msg' = msg
      BY <1>8, <2>3 DEF EndRelay, CancelHandler
    <3> QED BY <1>2, <1>3, <2>1, <3>1 DEF RelayInv
  <2> QED BY <2>2, <2>3
<1> QED BY <1>4, <1>5, <1>6, <1>7, <1>8 DEF Handler

LEMMA RelayStep == TypeOK /\ MutexProtects /\ RelayInv /\ [Next]_vars => RelayInv'
<1> SUFFICES ASSUME TypeOK, MutexProtects, RelayInv, [Next]_vars PROVE RelayInv'
  OBVIOUS
<1>1. ASSUME UNCHANGED <<handler, left, msg, mode>>
      PROVE  RelayInv'
  BY <1>1 DEF RelayInv, Recipients, players_team
<1>2. CASE UNCHANGED vars
  BY <1>1, <1>2 DEF vars, wire
<1>3. ASSUME NEW p \in Players, ChatHeader(p) \/ ChatText(p) \/ Close(p) \/ Reset(p)
      PROVE  RelayInv'
  BY <1>1, <1>3 DEF ChatHeader, ChatText, Close, Reset, wire
<1>4. CASE Receiver
  BY <1>1, <1>4 DEF Receiver, ReceiveAction, LockForAction, EndAction, CancelReceiver, wire
<1>5. CASE Updater
  BY <1>1, <1>5 DEF Updater, BeginRound, EndRound, BeginFinish, CancelThreads, JoinReceiver,
                    JoinHandler, FreeMatch, wire
<1>6. CASE Next
  BY <1>3, <1>4, <1>5, <1>6, HandlerRelay DEF Next
<1> QED BY <1>2, <1>6

(* What a relayed header says, once the recipient has converted it.        *)
LEMMA RelayReadable ==
  ASSUME TypeOK, RelayInv, NEW p \in Players, RelayMsgHeader(p)
  PROVE  LET h == ntohs(msg'.header)
         IN /\ msg.kind = T_CHAT_ALL_PLAYERS =>
                 GET_CODEREQ(h) = SERVER_TCHAT_SENT_ALL_PLAYERS
            /\ msg.kind = T_CHAT_TEAM =>
                 GET_CODEREQ(h) = SERVER_TCHAT_SENT_TEAM /\ GET_EQ(h) = players_team(p)
            /\ left[p] = Recipients(p, msg.kind) => GET_ID(h) = p
<1> DEFINE all == SET_CODEREQ(msg.header, SERVER_TCHAT_SENT_ALL_PLAYERS)
           code == SET_CODEREQ(msg.header, SERVER_TCHAT_SENT_TEAM)
           team == SET_EQ(code, players_team(p))
<1>1. msg.header \in Words /\ msg.kind \in {T_CHAT_ALL_PLAYERS, T_CHAT_TEAM}
  BY DEF TypeOK
<1>2. /\ all \in Words
      /\ GET_CODEREQ(all) = SERVER_TCHAT_SENT_ALL_PLAYERS /\ GET_ID(all) = GET_ID(msg.header)
  BY <1>1, CodesFit, CodeReadBack
<1>3. /\ code \in Words
      /\ GET_CODEREQ(code) = SERVER_TCHAT_SENT_TEAM /\ GET_ID(code) = GET_ID(msg.header)
  BY <1>1, CodesFit, CodeReadBack
<1>4. /\ team \in Words /\ GET_EQ(team) = players_team(p)
      /\ GET_CODEREQ(team) = GET_CODEREQ(code) /\ GET_ID(team) = GET_ID(code)
  <2> HIDE DEF code
  <2> QED BY <1>3, TeamsOfPlayers, EqReadBack
<1>5. left[p] = Recipients(p, msg.kind) => GET_ID(msg.header) = p
  BY DEF RelayMsgHeader, RelayInv
<1>6. msg'.header = htons(IF msg.kind = T_CHAT_ALL_PLAYERS THEN all ELSE team)
  BY DEF RelayMsgHeader, RelayHeader, TypeOK
<1>7. T_CHAT_ALL_PLAYERS # T_CHAT_TEAM
  BY DEF T_CHAT_ALL_PLAYERS, T_CHAT_TEAM
<1> HIDE DEF all, code, team
<1>8. CASE msg.kind = T_CHAT_ALL_PLAYERS
  <2>1. ntohs(msg'.header) = all
    BY <1>2, <1>6, <1>8, ConversionUndoesItself
  <2> QED BY <1>2, <1>5, <1>7, <1>8, <2>1
<1>9. CASE msg.kind = T_CHAT_TEAM
  <2>1. ntohs(msg'.header) = team
    BY <1>4, <1>6, <1>7, <1>9, ConversionUndoesItself
  <2> QED BY <1>3, <1>4, <1>5, <1>7, <1>9, <2>1
<1> QED BY <1>1, <1>8, <1>9

(* In every match, whatever the memory of the header held and however      *)
(* often send_message has converted it, each recipient reads that it is a  *)
(* chat message and for which team, and the first one who wrote it.        *)
THEOREM ChatCanBeRead == Spec => ChatReadable
<1>1. TypeOK /\ RelayInv => \A p \in Players : RelayMsgHeader(p) =>
        LET h == ntohs(msg'.header)
        IN /\ msg.kind = T_CHAT_ALL_PLAYERS =>
                GET_CODEREQ(h) = SERVER_TCHAT_SENT_ALL_PLAYERS
           /\ msg.kind = T_CHAT_TEAM =>
                GET_CODEREQ(h) = SERVER_TCHAT_SENT_TEAM /\ GET_EQ(h) = players_team(p)
           /\ left[p] = Recipients(p, msg.kind) => GET_ID(h) = p
  BY RelayReadable
<1>2. Init => RelayInv
  BY DEF Init, RelayInv
<1>3. TypeOK /\ MutexProtects /\ RelayInv /\ [Next]_vars => RelayInv'
  BY RelayStep
<1> QED BY <1>1, <1>2, <1>3, EndTypeCorrect, MutualExclusion, PTL DEF Spec, ChatReadable

-----------------------------------------------------------------------------
(* The result and its header are those finish_match began with.            *)
EndInv ==
  /\ told # {} => updater \in {"handlers", "freed"}
  /\ updater \in {"cancel", "receiver", "handlers", "freed"} =>
       /\ result \in Results
       /\ \E garbage \in Garbage : end_game_message = htons(EndHeader(garbage, result))

LEMMA InitEnd == Init => EndInv
BY DEF Init, EndInv

LEMMA EndStep == EndInv /\ [Next]_vars => EndInv'
<1> SUFFICES ASSUME EndInv, [Next]_vars PROVE EndInv'
  OBVIOUS
<1>1. ASSUME mode' = mode
      PROVE  Results' = Results /\ \A g, r : EndHeader(g, r)' = EndHeader(g, r)
  BY <1>1 DEF Results, EndHeader
<1>2. ASSUME UNCHANGED <<updater, told, result, end_game_message, mode>>
      PROVE  EndInv'
  BY <1>1, <1>2 DEF EndInv
<1>3. CASE UNCHANGED vars
  BY <1>2, <1>3 DEF vars, wire
<1>4. ASSUME NEW p \in Players, ChatHeader(p) \/ ChatText(p) \/ Close(p) \/ Reset(p) \/ Handler(p)
      PROVE  EndInv'
  BY <1>2, <1>4 DEF ChatHeader, ChatText, Close, Reset, Handler, ReadHeader, LockForChat, ReadText,
                    RelayMsgHeader, RelayMsgText, EndRelay, EndHandler, CancelHandler, wire
<1>5. CASE Receiver
  BY <1>2, <1>5 DEF Receiver, ReceiveAction, LockForAction, EndAction, CancelReceiver, wire
<1>6. CASE BeginRound \/ EndRound
  BY <1>1, <1>6 DEF BeginRound, EndRound, EndInv, wire
<1>7. CASE BeginFinish
  <2>1. mode' = mode /\ updater' = "cancel" /\ told' = told /\ updater = "finish"
    BY <1>7 DEF BeginFinish
  <2>2. PICK r \in Results, garbage \in Garbage :
          result' = r /\ end_game_message' = htons(EndHeader(garbage, r))
    BY <1>7 DEF BeginFinish
  <2>3. htons(EndHeader(garbage, r)) = htons(EndHeader(garbage, result)')
    BY <1>1, <2>1, <2>2 DEF EndHeader
  <2>4. (\E g \in Garbage : end_game_message = htons(EndHeader(g, result)))'
    BY <2>1, <2>2 DEF EndHeader
  <2> QED BY <1>1, <2>1, <2>2, <2>4 DEF EndInv
<1>8. CASE CancelThreads \/ JoinReceiver \/ JoinHandler \/ FreeMatch
  BY <1>1, <1>8 DEF CancelThreads, JoinReceiver, JoinHandler, FreeMatch, EndInv, wire
<1>9. CASE Next
  BY <1>4, <1>5, <1>6, <1>7, <1>8, <1>9 DEF Next, Updater
<1> QED BY <1>3, <1>9

LEMMA EndHeaderReadable ==
  ASSUME NEW garbage \in Words, NEW r \in Results, mode \in {FOUR_OPPONENTS_MODE, TEAM_MODE},
         r # ALL_PLAYERS_ARE_DEAD
  PROVE  LET h == EndHeader(garbage, r)
         IN IF mode = FOUR_OPPONENTS_MODE
            THEN GET_CODEREQ(h) = SERVER_RESPONSE_MATCH_END_4_OPPONENTS /\ GET_ID(h) = r
            ELSE GET_CODEREQ(h) = SERVER_RESPONSE_MATCH_END_2_TEAMS /\ GET_EQ(h) = r
<1> DEFINE opponents == SET_CODEREQ(garbage, SERVER_RESPONSE_MATCH_END_4_OPPONENTS)
           teams == SET_CODEREQ(garbage, SERVER_RESPONSE_MATCH_END_2_TEAMS)
<1>1. /\ opponents \in Words /\ GET_CODEREQ(opponents) = SERVER_RESPONSE_MATCH_END_4_OPPONENTS
      /\ teams \in Words /\ GET_CODEREQ(teams) = SERVER_RESPONSE_MATCH_END_2_TEAMS
  BY CodesFit, CodeReadBack
<1> HIDE DEF opponents, teams
<1>2. CASE mode = FOUR_OPPONENTS_MODE
  <2>1. r \in 0..3
    BY <1>2, ShutdownAssumption DEF Results
  <2>2. GET_CODEREQ(SET_ID(opponents, r)) = SERVER_RESPONSE_MATCH_END_4_OPPONENTS
          /\ GET_ID(SET_ID(opponents, r)) = r
    BY <1>1, <2>1, IdReadBack
  <2> QED BY <1>2, <2>2 DEF EndHeader, opponents
<1>3. CASE mode # FOUR_OPPONENTS_MODE
  <2>1. r \in 0..1
    BY <1>3 DEF Results
  <2>2. GET_CODEREQ(SET_EQ(teams, r)) = SERVER_RESPONSE_MATCH_END_2_TEAMS
          /\ GET_EQ(SET_EQ(teams, r)) = r
    BY <1>1, <2>1, EqReadBack
  <2> QED BY <1>3, <2>2 DEF EndHeader, teams
<1> QED BY <1>2, <1>3

(* The code of the end message is read even when all players are dead.     *)
LEMMA EndCodeReadable ==
  ASSUME NEW garbage \in Words, NEW r \in Results
  PROVE  GET_CODEREQ(EndHeader(garbage, r)) =
           IF mode = FOUR_OPPONENTS_MODE THEN SERVER_RESPONSE_MATCH_END_4_OPPONENTS
           ELSE SERVER_RESPONSE_MATCH_END_2_TEAMS
<1> DEFINE opponents == SET_CODEREQ(garbage, SERVER_RESPONSE_MATCH_END_4_OPPONENTS)
           teams == SET_CODEREQ(garbage, SERVER_RESPONSE_MATCH_END_2_TEAMS)
<1>1. /\ opponents \in Words /\ GET_CODEREQ(opponents) = SERVER_RESPONSE_MATCH_END_4_OPPONENTS
      /\ teams \in Words /\ GET_CODEREQ(teams) = SERVER_RESPONSE_MATCH_END_2_TEAMS
  BY CodesFit, CodeReadBack
<1>2. r \in Int
  BY ShutdownAssumption DEF Results, ALL_PLAYERS_ARE_DEAD
<1> HIDE DEF opponents, teams
<1>3. GET_CODEREQ(SET_ID(opponents, r)) = GET_CODEREQ(opponents)
        /\ GET_CODEREQ(SET_EQ(teams, r)) = GET_CODEREQ(teams)
  BY <1>1, <1>2, AnyIdKeepsCode, AnyEqKeepsCode
<1> QED BY <1>1, <1>3 DEF EndHeader, opponents, teams

(* Who has been sent half of a chat message is about to be sent its text,  *)
(* and by a handler that holds the mutex; finish_match holds it when it    *)
(* cancels the handlers, so that it finds none of them there.              *)
HalfInv ==
  /\ \A q \in half : \E p \in Players : handler[p] = "send" /\ NextRecipient(p, q)
  /\ cancelled => \A p \in Players : handler[p] \notin {"relay", "send"}
  /\ updater \in {"receiver", "handlers", "freed"} => cancelled

LEMMA InitHalf == Init => HalfInv
BY DEF Init, HalfInv

LEMMA HandlerHalf ==
  ASSUME TypeOK, MutexProtects, HalfInv, NEW p \in Players, Handler(p)
  PROVE  HalfInv'
<1>1. updater' = updater /\ cancelled' = cancelled
  BY DEF Handler, ReadHeader, LockForChat, ReadText, RelayMsgHeader, RelayMsgText, EndRelay,
         EndHandler, CancelHandler
<1>2. \A q \in Players : q # p => handler'[q] = handler[q]
  BY DEF Handler, ReadHeader, LockForChat, ReadText, RelayMsgHeader, RelayMsgText, EndRelay,
         EndHandler, CancelHandler, TypeOK
<1>3. cancelled' => \A q \in Players : handler'[q] \notin {"relay", "send"}
  <2>1. cancelled => handler'[p] \notin {"relay", "send"}
    BY DEF Handler, ReadHeader, LockForChat, ReadText, RelayMsgHeader, RelayMsgText, EndRelay,
           EndHandler, CancelHandler, TypeOK
  <2> QED BY <1>1, <1>2, <2>1 DEF HalfInv
<1>4. ASSUME handler[p] # "send", half' = half,
             \A q \in Players : q # p => left'[q] = left[q]
      PROVE  HalfInv'
  <2>1. ASSUME NEW q \in half'
        PROVE  \E r \in Players : handler'[r] = "send" /\ NextRecipient(r, q)'
    <3>1. PICK r \in Players : handler[r] = "send" /\ NextRecipient(r, q)
      BY <1>4, <2>1 DEF HalfInv
    <3>2. handler'[r] = "send" /\ left'[r] = left[r]
      BY <1>2, <1>4, <3>1
    <3> QED BY <3>1, <3>2 DEF NextRecipient
  <2> QED BY <1>1, <1>3, <2>1 DEF HalfInv
<1>5. CASE ReadHeader(p) \/ LockForChat(p) \/ ReadText(p) \/ EndRelay(p) \/ EndHandler(p)
  <2>1. handler[p] # "send" /\ half' = half
    BY <1>5 DEF ReadHeader, LockForChat, ReadText, EndRelay, EndHandler, wire
  <2>2. \A q \in Players : q # p => left'[q] = left[q]
    BY <1>5 DEF ReadHeader, LockForChat, ReadText, EndRelay, EndHandler, TypeOK
  <2> QED BY <1>4, <2>1, <2>2
<1>6. CASE CancelHandler(p)
  <2>1. handler[p] # "send"
    BY <1>6 DEF CancelHandler, HalfInv
  <2> QED BY <1>4, <1>6, <2>1 DEF CancelHandler
<1>7. CASE RelayMsgHeader(p)
  <2>1. PICK q \in Players : NextRecipient(p, q) /\ half' = half \cup {q}
    BY <1>7 DEF RelayMsgHeader
  <2>2. handler[p] = "relay" /\ handler'[p] = "send" /\ left' = left
    BY <1>7 DEF RelayMsgHeader, TypeOK
  <2>3. half = {}
    BY <2>2, OneInSection DEF HalfInv
  <2>4. half' = {q} /\ NextRecipient(p, q)'
    BY <2>1, <2>2, <2>3 DEF NextRecipient
  <2> QED BY <1>1, <1>3, <2>2, <2>4 DEF HalfInv
<1>8. CASE RelayMsgText(p)
  <2>1. PICK q \in Players : NextRecipient(p, q) /\ half' = half \ {q}
    BY <1>8 DEF RelayMsgText
  <2>2. handler[p] = "send"
    BY <1>8 DEF RelayMsgText
  <2>3. \A r \in half : r = q
    <3> SUFFICES ASSUME NEW r \in half PROVE r = q
      OBVIOUS
    <3>1. NextRecipient(p, r)
      BY <2>2, OneInSection DEF HalfInv
    <3> QED BY <2>1, <3>1, ShutdownAssumption DEF NextRecipient, TypeOK
  <2>4. half' = {}
    BY <2>1, <2>3
  <2> QED BY <1>1, <1>3, <2>4 DEF HalfInv
<1> QED BY <1>5, <1>6, <1>7, <1>8 DEF Handler

LEMMA HalfStep == TypeOK /\ MutexProtects /\ HalfInv /\ [Next]_vars => HalfInv'
<1> SUFFICES ASSUME TypeOK, MutexProtects, HalfInv, [Next]_vars PROVE HalfInv'
  OBVIOUS
<1>1. ASSUME UNCHANGED <<handler, left, half, cancelled>>,
             updater' \in {"receiver", "handlers", "freed"} => cancelled
      PROVE  HalfInv'
  BY <1>1 DEF HalfInv, NextRecipient
<1>2. CASE UNCHANGED vars
  BY <1>1, <1>2 DEF vars, wire, HalfInv
<1>3. ASSUME NEW p \in Players, ChatHeader(p) \/ ChatText(p) \/ Close(p) \/ Reset(p)
      PROVE  HalfInv'
  BY <1>1, <1>3 DEF ChatHeader, ChatText, Close, Reset, wire, HalfInv
<1>4. CASE Receiver
  BY <1>1, <1>4 DEF Receiver, ReceiveAction, LockForAction, EndAction, CancelReceiver, wire,
                    HalfInv
<1>5. CASE BeginRound \/ EndRound \/ BeginFinish \/ JoinReceiver \/ JoinHandler \/ FreeMatch
  BY <1>1, <1>5 DEF BeginRound, EndRound, BeginFinish, JoinReceiver, JoinHandler, FreeMatch,
                    wire, HalfInv
<1>6. CASE CancelThreads
  <2>1. \A p \in Players : handler[p] \notin {"relay", "send"}
    BY <1>6, ShutdownAssumption DEF CancelThreads, MutexProtects, UPDATER
  <2> QED BY <1>6, <2>1 DEF CancelThreads, wire, HalfInv, NextRecipient
<1>7. CASE Next
  BY <1>3, <1>4, <1>5, <1>6, <1>7, HandlerHalf DEF Next, Updater
<1> QED BY <1>2, <1>7

(* In every match, whoever is told the result is not in the middle of a    *)
(* chat message, and reads that the match is over and, unless nobody has,  *)
(* who has won.                                                            *)
THEOREM EndCanBeRead == Spec => []EndReadable
<1>1. TypeOK /\ EndInv /\ HalfInv => EndReadable
  <2> SUFFICES ASSUME TypeOK, EndInv, HalfInv, told # {} PROVE EndReadable
    BY DEF EndReadable
  <2>1. PICK garbage \in Garbage : end_game_message = htons(EndHeader(garbage, result))
    BY DEF EndInv
  <2>2. result \in Results /\ garbage \in Words /\ mode \in {FOUR_OPPONENTS_MODE, TEAM_MODE}
    BY <2>1, ShutdownAssumption DEF EndInv, TypeOK
  <2>3. ntohs(end_game_message) = EndHeader(garbage, result)
    BY <2>1, <2>2, EndHeaderIsWord, ConversionUndoesItself
  <2>4. half = {}
    BY DEF EndInv, HalfInv
  <2> QED BY <2>2, <2>3, <2>4, EndHeaderReadable, EndCodeReadable DEF EndReadable
<1> QED BY <1>1, InitEnd, EndStep, InitHalf, HalfStep, EndTypeCorrect, MutualExclusion, PTL
        DEF Spec

=============================================================================
