---------------------------- MODULE MatchProofs ----------------------------
(***************************************************************************)
(* Proofs about Match, for every size of the field, number of players,     *)
(* frequency and pattern of messages and departures.                       *)
(***************************************************************************)
EXTENDS MatchInvariant, SequenceTheorems, TLAPS

-----------------------------------------------------------------------------
(* Lemmas about the operators the model is built from.                     *)

(* RemoveAt drops one element and keeps the others in order.               *)
LEMMA RemoveAtProperties ==
  ASSUME NEW S, NEW s \in Seq(S), NEW i \in DOMAIN s
  PROVE  /\ RemoveAt(s, i) \in Seq(S)
         /\ Len(RemoveAt(s, i)) = Len(s) - 1
         /\ \A k \in 1..(Len(s) - 1) : RemoveAt(s, i)[k] = IF k < i THEN s[k] ELSE s[k + 1]
<1> DEFINE before == SubSeq(s, 1, i - 1)
           after  == SubSeq(s, i + 1, Len(s))
<1>1. /\ Len(s) \in Nat
      /\ i \in 1..Len(s)
      /\ \A k \in 1..Len(s) : s[k] \in S
  BY LenProperties, ElementOfSeq
<1>2. /\ before \in Seq(S)
      /\ Len(before) = i - 1
      /\ \A k \in 1..(i - 1) : before[k] = s[k]
  <2>1. \A k \in 1..(i - 1) : s[k] \in S
    BY <1>1
  <2>2. /\ before \in Seq(S)
        /\ Len(before) = IF 1 <= i - 1 THEN i - 1 - 1 + 1 ELSE 0
        /\ \A k \in 1..(i - 1 - 1 + 1) : before[k] = s[1 + k - 1]
    BY <1>1, <2>1, SubSeqProperties
  <2> QED
    BY <1>1, <2>2
<1>3. /\ after \in Seq(S)
      /\ Len(after) = Len(s) - i
      /\ \A k \in 1..(Len(s) - i) : after[k] = s[i + k]
  <2>1. \A k \in (i + 1)..Len(s) : s[k] \in S
    BY <1>1
  <2>2. /\ after \in Seq(S)
        /\ Len(after) = IF i + 1 <= Len(s) THEN Len(s) - (i + 1) + 1 ELSE 0
        /\ \A k \in 1..(Len(s) - (i + 1) + 1) : after[k] = s[i + 1 + k - 1]
    BY <1>1, <2>1, SubSeqProperties
  <2> QED
    BY <1>1, <2>2
<1>4. RemoveAt(s, i) = before \o after
  BY DEF RemoveAt
<1>5. /\ before \o after \in Seq(S)
      /\ Len(before \o after) = Len(before) + Len(after)
      /\ \A k \in 1..(Len(before) + Len(after)) :
           (before \o after)[k] = IF k <= Len(before) THEN before[k] ELSE after[k - Len(before)]
  BY <1>2, <1>3, ConcatProperties
<1> HIDE DEF before, after
<1>6. ASSUME NEW k \in 1..(Len(s) - 1)
      PROVE  (before \o after)[k] = IF k < i THEN s[k] ELSE s[k + 1]
  <2>1. CASE k < i
    <3>1. k \in 1..(Len(before) + Len(after)) /\ k <= Len(before) /\ k \in 1..(i - 1)
      BY <1>1, <1>2, <1>3, <2>1
    <3>2. (before \o after)[k] = before[k]
      BY <1>5, <3>1
    <3>3. before[k] = s[k]
      BY <1>2, <3>1
    <3> QED
      BY <2>1, <3>2, <3>3
  <2>2. CASE ~(k < i)
    <3>1. k \in 1..(Len(before) + Len(after)) /\ ~(k <= Len(before))
      BY <1>1, <1>2, <1>3, <2>2
    <3>2. (before \o after)[k] = after[k - Len(before)]
      BY <1>5, <3>1
    <3>3. (before \o after)[k] = after[k - (i - 1)]
      BY <1>2, <3>2
    <3>4. k - (i - 1) \in 1..(Len(s) - i) /\ i + (k - (i - 1)) = k + 1
      BY <1>1, <2>2
    <3> QED
      BY <1>3, <2>2, <3>3, <3>4
  <2> QED
    BY <2>1, <2>2
<1>7. Len(before) + Len(after) = Len(s) - 1
  BY <1>1, <1>2, <1>3
<1>8. \A k \in 1..(Len(s) - 1) :
        (before \o after)[k] = IF k < i THEN s[k] ELSE s[k + 1]
  BY <1>6
<1> QED
  BY <1>4, <1>5, <1>7, <1>8

(* What is left after RemoveAt was there before, at another place.         *)
LEMMA RemovedFrom ==
  ASSUME NEW S, NEW s \in Seq(S), NEW i \in DOMAIN s
  PROVE  /\ RemoveAt(s, i) \in Seq(S)
         /\ Len(RemoveAt(s, i)) = Len(s) - 1
         /\ \A k \in DOMAIN RemoveAt(s, i) :
              \E j \in DOMAIN s : j # i /\ RemoveAt(s, i)[k] = s[j]
         /\ \A j \in DOMAIN s : j # i =>
              \E k \in DOMAIN RemoveAt(s, i) : RemoveAt(s, i)[k] = s[j]
<1>1. /\ Len(s) \in Nat /\ DOMAIN s = 1..Len(s)
      /\ RemoveAt(s, i) \in Seq(S)
      /\ Len(RemoveAt(s, i)) = Len(s) - 1
      /\ \A k \in 1..(Len(s) - 1) : RemoveAt(s, i)[k] = IF k < i THEN s[k] ELSE s[k + 1]
  BY RemoveAtProperties, LenProperties
<1>2. DOMAIN RemoveAt(s, i) = 1..(Len(s) - 1)
  BY <1>1, LenProperties
<1>3. ASSUME NEW k \in DOMAIN RemoveAt(s, i)
      PROVE  \E j \in DOMAIN s : j # i /\ RemoveAt(s, i)[k] = s[j]
  <2>1. k \in 1..(Len(s) - 1)
    BY <1>2
  <2>2. CASE k < i
    <3>1. k \in DOMAIN s /\ k # i
      BY <1>1, <2>1, <2>2
    <3> QED
      BY <1>1, <2>1, <2>2, <3>1
  <2>3. CASE ~(k < i)
    <3>1. k + 1 \in DOMAIN s /\ k + 1 # i
      BY <1>1, <2>1, <2>3
    <3> QED
      BY <1>1, <2>1, <2>3, <3>1
  <2> QED
    BY <2>2, <2>3
<1>4. ASSUME NEW j \in DOMAIN s, j # i
      PROVE  \E k \in DOMAIN RemoveAt(s, i) : RemoveAt(s, i)[k] = s[j]
  <2>1. CASE j < i
    <3>1. j \in DOMAIN RemoveAt(s, i) /\ RemoveAt(s, i)[j] = s[j]
      BY <1>1, <1>2, <2>1
    <3> QED
      BY <3>1
  <2>2. CASE ~(j < i)
    <3>1. j - 1 \in 1..(Len(s) - 1) /\ ~(j - 1 < i) /\ j - 1 + 1 = j
      BY <1>1, <1>4, <2>2
    <3>2. RemoveAt(s, i)[j - 1] = s[j]
      BY <1>1, <3>1
    <3> QED
      BY <1>2, <3>1, <3>2
  <2> QED
    BY <2>1, <2>2
<1> QED
  BY <1>1, <1>3, <1>4

(* Cells and the codes they hold.                                          *)
LEMMA CellFacts ==
  /\ Off \in Positions /\ Off \notin Cells /\ Cells \subseteq Positions
  /\ \A c \in Cells : c = <<c[1], c[2]>> /\ c[1] \in 0..(Height - 1) /\ c[2] \in 0..(Width - 1)
BY BoardAssumption DEF Off, Positions, Cells

LEMMA CodeFacts ==
  /\ {EMPTY_CELL, INDESTRUCTIBLE_WALL, DESTRUCTIBLE_WALL, BOMB, EXPLODED_BY_BOMB}
       \subseteq CellCodes
  /\ \A p \in Players : ENCODE_PLAYER(p) \in CellCodes
  /\ \A p \in Players : ENCODE_PLAYER(p) \notin
       {EMPTY_CELL, INDESTRUCTIBLE_WALL, DESTRUCTIBLE_WALL, BOMB, EXPLODED_BY_BOMB}
  /\ \A p, q \in Players : ENCODE_PLAYER(p) = ENCODE_PLAYER(q) => p = q
  /\ BOMB \notin Walkable /\ BOMB \notin Walls /\ Walkable \cap Walls = {}
BY BoardAssumption
DEF Players, CellCodes, ENCODE_PLAYER, Walkable, Walls, EMPTY_CELL, INDESTRUCTIBLE_WALL,
    DESTRUCTIBLE_WALL, BOMB, EXPLODED_BY_BOMB, PLAYER_OFFSET

(* The uint8_t fields of a bomb or an update hold a cell of the field as   *)
(* it is; -1 becomes a cell outside it.                                    *)
LEMMA AsBytesFacts ==
  /\ \A c \in Positions : AsBytes(c) \in (0..(Height - 1)) \X (0..255)
  /\ \A c \in Cells : AsBytes(c) = c
  /\ AsBytes(Off) \notin Cells
<1>1. ASSUME NEW c \in Positions
      PROVE  AsBytes(c) \in (0..(Height - 1)) \X (0..255)
  <2>1. c[1] \in 0..(Height - 1) /\ c[2] \in Int
    BY BoardAssumption DEF Positions, Cells, Off
  <2>2. c[2] % 256 \in 0..255
    BY <2>1
  <2> QED
    BY <2>1, <2>2 DEF AsBytes
<1>2. ASSUME NEW c \in Cells
      PROVE  AsBytes(c) = c
  BY BoardAssumption DEF Cells, AsBytes
<1>3. AsBytes(Off) \notin Cells
  BY BoardAssumption DEF Cells, Off, AsBytes
<1> QED
  BY <1>1, <1>2, <1>3

LEMMA InitialPositionFacts ==
  /\ \A p \in Players : InitialPosition(p) \in Cells
  /\ \A p, q \in Players : InitialPosition(p) = InitialPosition(q) => p = q
  /\ \A p \in Players : InitialPosition(p) \notin Interior
<1>1. ASSUME NEW p \in Players
      PROVE  p = 0 \/ p = 1 \/ p = 2 \/ p = 3
  BY BoardAssumption DEF Players
<1>2. /\ InitialPosition(0) = <<0, 0>>
      /\ InitialPosition(1) = <<0, Width - 1>>
      /\ InitialPosition(2) = <<Height - 1, Width - 1>>
      /\ InitialPosition(3) = <<Height - 1, 0>>
  BY DEF InitialPosition
<1> QED
  BY <1>1, <1>2, BoardAssumption DEF Cells, Interior

(* The 13 offsets of a blast are at most two cells long.                   *)
LEMMA ReachFacts ==
  /\ DOMAIN Reach = 1..13
  /\ \A k \in 1..13 : Reach[k] \in (-2..2) \X (-2..2)
  /\ Reach[1] = <<0, 0>>
BY DEF Reach

(* The field before the first step: only a start corner shows a player, no *)
(* cell shows a bomb.                                                      *)
LEMMA InitialCellFacts ==
  ASSUME NEW walls \in SUBSET (Interior \ Pillars), NEW left \in SUBSET Players,
         NEW byte \in CellCodes, NEW c \in Positions
  PROVE  /\ InitialCell(c, walls, left, byte) \in CellCodes
         /\ c \in Cells => InitialCell(c, walls, left, byte) # BOMB
         /\ c \in Cells => InitialCell(c, walls, left, byte) # EXPLODED_BY_BOMB
         /\ \A p \in Players : c \in Cells =>
              (InitialCell(c, walls, left, byte) = ENCODE_PLAYER(p)
                 <=> p \notin left /\ c = InitialPosition(p))
         /\ \A p \in left : c = InitialPosition(p) =>
              InitialCell(c, walls, left, byte) = EMPTY_CELL
         /\ c \in Interior \/ c = Off \/ InitialCell(c, walls, left, byte) \notin Walls
<1> DEFINE cell == InitialCell(c, walls, left, byte)
<1>1. Pillars \subseteq Interior /\ Off \notin Interior
  BY DEF Pillars, Interior, Off
<1>2. CASE c = Off
  BY <1>2, CellFacts, InitialPositionFacts DEF InitialCell
<1>3. CASE c # Off /\ c \in walls
  <2>1. cell = DESTRUCTIBLE_WALL
    BY <1>3 DEF InitialCell
  <2> QED
    BY <1>1, <1>3, <2>1, CodeFacts, InitialPositionFacts
    DEF BOMB, DESTRUCTIBLE_WALL, EXPLODED_BY_BOMB
<1>4. CASE c # Off /\ c \notin walls /\ c \in Pillars
  <2>1. cell = INDESTRUCTIBLE_WALL
    BY <1>4 DEF InitialCell
  <2> QED
    BY <1>1, <1>4, <2>1, CodeFacts, InitialPositionFacts
    DEF BOMB, INDESTRUCTIBLE_WALL, EXPLODED_BY_BOMB
<1>5. CASE c # Off /\ c \notin walls /\ c \notin Pillars
  <2>1. CASE \E p \in Players \ left : c = InitialPosition(p)
    <3>1. PICK p \in Players \ left : c = InitialPosition(p)
      BY <2>1
    <3>2. (CHOOSE q \in Players : c = InitialPosition(q)) = p
      BY <3>1, InitialPositionFacts
    <3>3. cell = ENCODE_PLAYER(p)
      BY <1>5, <2>1, <3>2 DEF InitialCell
    <3>4. cell \notin Walls /\ cell # BOMB /\ cell # EXPLODED_BY_BOMB
      BY <3>1, <3>3, CodeFacts DEF Walls
    <3> QED
      BY <3>1, <3>3, <3>4, CodeFacts, InitialPositionFacts
  <2>2. CASE ~\E p \in Players \ left : c = InitialPosition(p)
    <3>1. cell = EMPTY_CELL
      BY <1>5, <2>2 DEF InitialCell
    <3> QED
      BY <2>2, <3>1, CodeFacts, InitialPositionFacts
      DEF BOMB, EMPTY_CELL, EXPLODED_BY_BOMB, Walls, DESTRUCTIBLE_WALL, INDESTRUCTIBLE_WALL
  <2> QED
    BY <2>1, <2>2
<1> QED
  BY <1>2, <1>3, <1>4, <1>5

(* An update names a cell in bytes, even when the player was off the field.*)
LEMMA UpdateType ==
  ASSUME NEW c \in Positions, NEW code \in CellCodes
  PROVE  Update(c, code) \in UpdateEntries
BY AsBytesFacts DEF Update, UpdateEntries

(* Setting the counter of one bomb touches nothing else.                   *)
LEMMA SetCounter ==
  ASSUME NEW s \in Seq(BombEntries), NEW i \in DOMAIN s,
         NEW n \in 0..BOMB_TIME_TO_EXPLODE_SECONDS
  PROVE  /\ [s EXCEPT ![i].seconds = n] \in Seq(BombEntries)
         /\ Len([s EXCEPT ![i].seconds = n]) = Len(s)
         /\ \A j \in DOMAIN s :
              /\ [s EXCEPT ![i].seconds = n][j].cell = s[j].cell
              /\ [s EXCEPT ![i].seconds = n][j].seconds = IF j = i THEN n ELSE s[j].seconds
<1>1. i \in 1..Len(s) /\ DOMAIN s = 1..Len(s) /\ \A j \in DOMAIN s : s[j] \in BombEntries
  BY LenProperties, ElementOfSeq
<1> DEFINE b == [s[i] EXCEPT !.seconds = n]
<1>2. b \in BombEntries /\ b.cell = s[i].cell /\ b.seconds = n
  <2>1. s[i] \in BombEntries
    BY <1>1
  <2>2. b = [cell |-> s[i].cell, player |-> s[i].player, seconds |-> n]
    <3>1. s[i] = [cell |-> s[i].cell, player |-> s[i].player, seconds |-> s[i].seconds]
      BY <2>1 DEF BombEntries
    <3> QED
      BY <3>1
  <2> QED
    BY <2>1, <2>2 DEF BombEntries
<1>3. [s EXCEPT ![i].seconds = n] = [s EXCEPT ![i] = b]
  OBVIOUS
<1> HIDE DEF b
<1>4. /\ [s EXCEPT ![i] = b] \in Seq(BombEntries)
      /\ Len([s EXCEPT ![i] = b]) = Len(s)
      /\ \A j \in 1..Len(s) : [s EXCEPT ![i] = b][j] = IF j = i THEN b ELSE s[j]
  BY <1>1, <1>2, ExceptSeq
<1> QED
  BY <1>1, <1>2, <1>3, <1>4

(* The same for any value, as far as the cells are concerned.              *)
LEMMA BombCells ==
  ASSUME NEW s, NEW i, NEW n
  PROVE  /\ DOMAIN [s EXCEPT ![i].seconds = n] = DOMAIN s
         /\ \A j \in DOMAIN s : [s EXCEPT ![i].seconds = n][j].cell = s[j].cell
OBVIOUS

(* A result is a player or a team, or one of the two special values; as a  *)
(* winner it has no opponent among S.                                      *)
LEMMA FinishResultFacts ==
  ASSUME NEW S \in SUBSET Players
  PROVE  /\ FinishResult(S) \in Players \cup {NO_WINNER_YET, ALL_PLAYERS_ARE_DEAD}
         /\ FinishResult(S) = ALL_PLAYERS_ARE_DEAD => S = {}
         /\ FinishResult(S) \in Players => \A p \in S : Side(p) = FinishResult(S)
         /\ FinishResult(S) \in Players => \E p \in S : Side(p) = FinishResult(S)
<1>1. NO_WINNER_YET \notin Players /\ ALL_PLAYERS_ARE_DEAD \notin Players
      /\ NO_WINNER_YET # ALL_PLAYERS_ARE_DEAD
  BY DEF Players, NO_WINNER_YET, ALL_PLAYERS_ARE_DEAD
<1>2. CASE Mode = FOUR_OPPONENTS_MODE
  <2>1. FinishResult(S) = FourOpponentsResult(S)
    BY <1>2 DEF FinishResult
  <2>2. CASE S = {} \/ MaxPlayers = 1 \/ \E p, q \in S : p # q
    BY <1>1, <2>1, <2>2 DEF FourOpponentsResult
  <2>3. CASE S # {} /\ MaxPlayers # 1 /\ \A p, q \in S : p = q
    <3>1. FourOpponentsResult(S) \in S
      BY <2>3 DEF FourOpponentsResult
    <3> QED
      BY <1>1, <1>2, <2>1, <2>3, <3>1 DEF Side
  <2> QED
    BY <2>2, <2>3
<1>3. CASE Mode = TEAM_MODE
  <2> DEFINE teams == {Team(p) : p \in S}
  <2>1. FinishResult(S) = TwoTeamsResult(S)
    BY <1>3 DEF FinishResult, FOUR_OPPONENTS_MODE, TEAM_MODE
  <2>2. teams \subseteq {0, 1} /\ teams \subseteq Players
    <3>1. \A p \in Players : Team(p) \in {0, 1} /\ Team(p) \in Players
      BY BoardAssumption DEF Team, Players
    <3> QED
      BY <3>1
  <2>3. CASE teams = {} \/ teams = {0, 1}
    BY <1>1, <2>1, <2>3 DEF TwoTeamsResult
  <2>4. CASE teams # {} /\ teams # {0, 1}
    <3>1. TwoTeamsResult(S) \in teams
      BY <2>4 DEF TwoTeamsResult
    <3>2. \A t, u \in teams : t = u
      BY <2>2, <2>4
    <3>3. \A p \in S : Team(p) = TwoTeamsResult(S)
      BY <3>1, <3>2
    <3> QED
      BY <1>1, <1>3, <2>1, <2>2, <2>4, <3>1, <3>3
      DEF Side, FOUR_OPPONENTS_MODE, TEAM_MODE
  <2> QED
    BY <2>3, <2>4
<1> QED
  BY <1>2, <1>3, MatchAssumption

-----------------------------------------------------------------------------
(* Type correctness, together with the ranges of the loop variables.       *)

USE BoardAssumption, MatchAssumption

LEMMA InitType ==
  Init => TypeOK /\ ControlInv
<1> SUFFICES ASSUME NEW walls \in SUBSET (Interior \ Pillars), NEW left \in SUBSET Players,
                    NEW byte \in CellCodes, NEW late \in SUBSET left,
                    Start(walls, left, late, byte)
             PROVE  TypeOK /\ ControlInv
  BY DEF Init
<1>1. grid \in [Positions -> CellCodes]
  BY InitialCellFacts DEF Start
<1>2. position \in [Players -> Positions] /\ leaving \in [Players -> Positions]
  BY InitialPositionFacts, CellFacts DEF Start
<1>3. tcp \in [Players -> {"open", "erase", "mark", "unplace", "closed"}]
  BY DEF Start
<1>4. bombs \in Seq(BombEntries) /\ movementUpdates \in Seq(UpdateEntries)
      /\ bombUpdates \in Seq(UpdateEntries)
  BY DEF Start
<1>5. walk \in Positions \X Positions /\ 0 \in 0..ReachEnd
  BY CellFacts DEF Start, ReachEnd
<1>6. /\ exploded \in [Positions -> {EMPTY_CELL, EXPLODED_BY_BOMB}]
      /\ status \in [Players -> {READY_TO_PLAY, DEAD}]
      /\ movement \in [Players -> Movements \cup {NotPending}]
      /\ drop \in [Players -> BOOLEAN]
  BY DEF Start
<1>7. /\ pc = "round" /\ tick = 0 /\ cursor = 0 /\ blast = 0 /\ raced = FALSE
      /\ alive = {} /\ result = NO_WINNER_YET /\ receiver = NoMessage /\ received = 0
  BY DEF Start
<1>8. ControlInv
  <2>1. bombs = <<>>
    BY DEF Start
  <2> QED
    BY <1>7, <2>1 DEF ControlInv
<1>9. raced \in BOOLEAN
  BY <1>7
<1>10. /\ tick \in 0..(Ticks - 1) /\ received \in 0..MaxMessages
       /\ cursor \in Nat /\ blast \in 0..ReachEnd
  BY <1>5, <1>7
<1>11. TypeOK
  BY <1>1, <1>2, <1>3, <1>4, <1>5, <1>6, <1>7, <1>9, <1>10 DEF TypeOK
<1> QED
  BY <1>8, <1>11

LEMMA ReceiverType ==
  ASSUME TypeOK, ControlInv, Receiver
  PROVE  TypeOK' /\ ControlInv'
<1>1. ASSUME NEW p \in Players, NEW a \in Inputs, ReceiveAction(p, a)
      PROVE  TypeOK' /\ ControlInv'
  BY <1>1 DEF ReceiveAction, TypeOK, ControlInv, board, buffers, updates, loops, leave
<1>2. CASE BufferAction
  <2>1. receiver[1] \in Players /\ receiver[2] \in Actions
    BY <1>2 DEF BufferAction, TypeOK, NoMessage
  <2> DEFINE p == receiver[1]
             a == receiver[2]
  <2>2. movement' = movement \/ \E m \in Movements \cup {NotPending} : movement' = [movement EXCEPT ![p] = m]
    BY <1>2, <2>1 DEF BufferAction, buffers
  <2>3. drop' = drop \/ drop' = [drop EXCEPT ![p] = TRUE]
    BY <1>2, <2>1 DEF BufferAction, buffers
  <2> HIDE DEF p
  <2>4. movement' \in [Players -> Movements \cup {NotPending}]
    BY <2>1, <2>2 DEF TypeOK
  <2>6. drop' \in [Players -> BOOLEAN]
    BY <2>1, <2>3 DEF TypeOK
  <2>5. /\ UNCHANGED <<grid, exploded, position, status, bombs, movementUpdates, bombUpdates, pc>>
        /\ UNCHANGED <<walk, tick, cursor, blast, alive, result, received, tcp, leaving, raced>>
        /\ receiver' = NoMessage
    BY <1>2 DEF BufferAction, board, updates, loops, leave
  <2> QED
    BY <2>4, <2>5, <2>6 DEF TypeOK, ControlInv
<1> QED
  BY <1>1, <1>2 DEF Receiver

LEMMA KillPlayerType ==
  ASSUME TypeOK, ControlInv, NEW p \in Players, Leave(p) \/ KillPlayer(p)
  PROVE  TypeOK' /\ ControlInv'
<1>1. CASE Leave(p)
  BY <1>1 DEF Leave, TypeOK, ControlInv, board, buffers, updates, loops, network, KillBegins
<1>2. CASE EraseCell(p)
  BY <1>2, CodeFacts DEF EraseCell, TypeOK, ControlInv, buffers, updates, loops, network
<1>3. CASE MarkDead(p)
  BY <1>3 DEF MarkDead, TypeOK, ControlInv, buffers, updates, loops, network
<1>4. CASE Unplace(p)
  BY <1>4, CellFacts DEF Unplace, TypeOK, ControlInv, buffers, updates, loops, network
<1> QED
  BY <1>1, <1>2, <1>3, <1>4 DEF KillPlayer

LEMMA PassType ==
  ASSUME TypeOK, ControlInv, Pass
  PROVE  TypeOK' /\ ControlInv'
<1>1. CASE BeginPass
  BY <1>1 DEF BeginPass, TypeOK, ControlInv, board, buffers, updates, network, leave
<1>2. CASE BeginMove
  BY <1>2, CellFacts DEF BeginMove, MayMove, WritesField, TypeOK, ControlInv, board, buffers,
     updates, network, leave
<1>3. CASE StayInPlace
  BY <1>3 DEF StayInPlace, TypeOK, ControlInv, board, updates, loops, network, leave
<1>4. CASE MovePlayer
  <2> DEFINE from == walk[1]
             to   == walk[2]
  <2>1. from \in Positions /\ to \in Cells /\ cursor \in Players
    BY <1>4 DEF MovePlayer, TypeOK, ControlInv
  <2>2. LeftBehind(from) \in CellCodes /\ ENCODE_PLAYER(cursor) \in CellCodes
    BY <2>1, CodeFacts DEF LeftBehind, TypeOK
  <2>3. grid' \in [Positions -> CellCodes] /\ position' \in [Players -> Positions]
    BY <1>4, <2>1, <2>2, CellFacts DEF MovePlayer, TypeOK
  <2>4. movement' \in [Players -> Movements \cup {NotPending}] /\ walk' \in Positions \X Positions
    BY <1>4, <2>1, CellFacts DEF MovePlayer, TypeOK
  <2>5. movementUpdates' \in Seq(UpdateEntries)
    <3>1. <<Update(from, LeftBehind(from)), Update(to, ENCODE_PLAYER(cursor))>> \in Seq(UpdateEntries)
      BY <2>1, <2>2, CellFacts, UpdateType
    <3> QED
      BY <1>4, <3>1, ConcatProperties DEF MovePlayer, TypeOK
  <2>6. raced' \in BOOLEAN
    BY <1>4 DEF MovePlayer, WritesField
  <2>7. /\ UNCHANGED <<exploded, status, bombs, drop, bombUpdates, tick, cursor, blast>>
        /\ UNCHANGED <<alive, result, receiver, received, tcp, leaving>>
        /\ pc = "walk" /\ pc' = "drop"
    BY <1>4 DEF MovePlayer, network, leave
  <2> QED
    BY <2>1, <2>3, <2>4, <2>5, <2>6, <2>7 DEF TypeOK, ControlInv
<1>5. CASE PlaceBomb
  BY <1>5, CodeFacts DEF PlaceBomb, WritesField, TypeOK, ControlInv, buffers, updates, loops,
     network, leave
<1>6. CASE ListBomb
  <2>1. cursor \in Players /\ position[cursor] \in Positions
    BY <1>6 DEF ListBomb, TypeOK, ControlInv
  <2> DEFINE bomb == [cell |-> AsBytes(position[cursor]), player |-> cursor,
                      seconds |-> BOMB_TIME_TO_EXPLODE_SECONDS]
  <2>2. bomb \in BombEntries /\ bomb.seconds # 0
    BY <2>1, AsBytesFacts DEF BombEntries, BOMB_TIME_TO_EXPLODE_SECONDS
  <2>3. bombs' = Append(bombs, bomb)
    BY <1>6 DEF ListBomb
  <2> HIDE DEF bomb
  <2>4. /\ bombs' \in Seq(BombEntries)
        /\ \A i \in DOMAIN bombs' : (i \in DOMAIN bombs /\ bombs'[i] = bombs[i]) \/ bombs'[i] = bomb
    BY <2>2, <2>3 DEF TypeOK
  <2>5. bombUpdates' \in Seq(UpdateEntries)
    BY <1>6, <2>1, UpdateType, CodeFacts DEF ListBomb, TypeOK
  <2>6. drop' \in [Players -> BOOLEAN]
    BY <1>6 DEF ListBomb, TypeOK
  <2>7. raced' \in BOOLEAN
    BY <1>6 DEF ListBomb, WritesField
  <2>8. cursor' \in 0..MaxPlayers /\ cursor' \in Nat
    BY <1>6, <2>1 DEF ListBomb, Players
  <2>9. /\ UNCHANGED <<grid, exploded, position, status, movement, movementUpdates>>
        /\ UNCHANGED <<walk, tick, blast, alive, result, receiver, received, tcp, leaving>>
        /\ pc = "list" /\ pc' = "move"
    BY <1>6 DEF ListBomb, network, leave
  <2>10. ControlInv'
    BY <2>2, <2>4, <2>8, <2>9 DEF ControlInv
  <2> QED
    BY <2>4, <2>5, <2>6, <2>7, <2>8, <2>9, <2>10 DEF TypeOK
<1>7. CASE KeepBomb
  BY <1>7 DEF KeepBomb, TypeOK, ControlInv, Players, board, buffers, updates, network, leave
<1>8. CASE EndPass
  BY <1>8 DEF EndPass, TypeOK, ControlInv, board, buffers, network, leave
<1> QED
  BY <1>1, <1>2, <1>3, <1>4, <1>5, <1>6, <1>7, <1>8 DEF Pass

LEMMA FinishTestType ==
  ASSUME TypeOK, ControlInv, FinishTest \/ FinishMatch \/ Freed
  PROVE  TypeOK' /\ ControlInv'
<1>1. CASE CountPlayer
  BY <1>1 DEF CountPlayer, TypeOK, ControlInv, Players, board, buffers, updates, network, leave
<1>2. CASE Decide
  <2>1. result' \in Players \cup {NO_WINNER_YET, ALL_PLAYERS_ARE_DEAD}
    BY <1>2, FinishResultFacts DEF Decide, TypeOK
  <2>2. /\ pc' \in {"bombs", "finish"} /\ cursor' = 1
        /\ UNCHANGED <<grid, exploded, position, status, bombs, movement, drop, movementUpdates>>
        /\ UNCHANGED <<bombUpdates, walk, tick, blast, alive, receiver, received, tcp, leaving, raced>>
    BY <1>2 DEF Decide, board, buffers, updates, network, leave
  <2>3. Len(bombs) \in Nat
    BY DEF TypeOK
  <2>4. ControlInv'
    BY <1>2, <2>2, <2>3 DEF Decide, ControlInv
  <2> QED
    BY <2>1, <2>2, <2>4 DEF TypeOK
<1>3. CASE FinishMatch
  BY <1>3 DEF FinishMatch, TypeOK, ControlInv, board, buffers, updates, loops, network, leave
<1>4. CASE Freed
  BY <1>4 DEF Freed, TypeOK, ControlInv, vars, board, buffers, updates, loops, network, leave
<1> QED
  BY <1>1, <1>2, <1>3, <1>4 DEF FinishTest

(* A step of explode_bombs that only moves the loop over the list.         *)
LEMMA NextInReachType ==
  ASSUME TypeOK, ControlInv, pc = "blast", blast \in DOMAIN Reach
  PROVE  NextInReach \in 1..ReachEnd
BY ReachFacts DEF NextInReach, Nearest, ReachEnd

LEMMA ExplodeBombsType ==
  ASSUME TypeOK, ControlInv, ExplodeBombs
  PROVE  TypeOK' /\ ControlInv'
<1>0. /\ Len(bombs) \in Nat /\ DOMAIN bombs = 1..Len(bombs)
      /\ \A i \in DOMAIN bombs : bombs[i] \in BombEntries
  BY LenProperties, ElementOfSeq DEF TypeOK
<1>1. CASE CountDown
  <2>1. /\ pc = "bombs" /\ cursor \in DOMAIN bombs
        /\ bombs[cursor].seconds - 1 \in 1..BOMB_TIME_TO_EXPLODE_SECONDS
    <3>1. /\ pc = "bombs" /\ cursor \in DOMAIN bombs
          /\ bombs[cursor].seconds # 1 /\ bombs[cursor].seconds # 0
      BY <1>1 DEF CountDown, Due, ControlInv
    <3>2. bombs[cursor].seconds \in 0..BOMB_TIME_TO_EXPLODE_SECONDS
      BY <1>0, <3>1 DEF BombEntries
    <3> QED
      BY <3>1, <3>2 DEF BOMB_TIME_TO_EXPLODE_SECONDS
  <2>2. bombs' = [bombs EXCEPT ![cursor].seconds = bombs[cursor].seconds - 1]
    BY <1>1 DEF CountDown
  <2>3. /\ bombs' \in Seq(BombEntries)
        /\ Len(bombs') = Len(bombs)
        /\ DOMAIN bombs' = DOMAIN bombs
        /\ \A i \in DOMAIN bombs : bombs'[i].seconds # 0
    <3>1. bombs[cursor].seconds - 1 \in 0..BOMB_TIME_TO_EXPLODE_SECONDS
      BY <2>1 DEF BOMB_TIME_TO_EXPLODE_SECONDS
    <3>2. /\ bombs' \in Seq(BombEntries)
          /\ Len(bombs') = Len(bombs)
          /\ \A j \in DOMAIN bombs :
               bombs'[j].seconds = IF j = cursor THEN bombs[cursor].seconds - 1 ELSE bombs[j].seconds
      <4>1. bombs \in Seq(BombEntries) /\ cursor \in DOMAIN bombs
        BY <2>1 DEF TypeOK
      <4> QED
        BY <2>2, <3>1, <4>1, SetCounter
    <3>3. \A j \in DOMAIN bombs : bombs[j].seconds # 0
      BY <2>1 DEF ControlInv
    <3>4. \A j \in DOMAIN bombs : bombs'[j].seconds # 0
      BY <2>1, <3>2, <3>3
    <3>5. DOMAIN bombs' = DOMAIN bombs
      BY <1>0, <3>2, LenProperties
    <3> QED
      BY <3>2, <3>4, <3>5
  <2>4. /\ pc' = "bombs" /\ cursor' = cursor + 1
        /\ UNCHANGED <<grid, exploded, position, status, movement, drop, movementUpdates>>
        /\ UNCHANGED <<bombUpdates, walk, tick, blast, alive, result, receiver, received, tcp>>
        /\ UNCHANGED <<leaving, raced>>
    BY <1>1 DEF CountDown, buffers, updates, network, leave
  <2>5. ControlInv'
    BY <1>0, <2>1, <2>3, <2>4 DEF ControlInv
  <2> QED
    BY <2>1, <2>3, <2>4, <2>5 DEF TypeOK
<1>2. CASE Fizzle
  <2>1. cursor \in DOMAIN bombs /\ bombs' = RemoveAt(bombs, cursor)
    BY <1>2 DEF Fizzle
  <2>2. /\ bombs' \in Seq(BombEntries)
        /\ Len(bombs') = Len(bombs) - 1
        /\ \A i \in DOMAIN bombs' : \E j \in DOMAIN bombs : bombs'[i] = bombs[j]
    BY <2>1, RemovedFrom DEF TypeOK
  <2>3. /\ pc = "bombs" /\ pc' = "bombs"
        /\ UNCHANGED <<grid, exploded, position, status, movement, drop, movementUpdates>>
        /\ UNCHANGED <<bombUpdates, walk, tick, cursor, blast, alive, result, receiver>>
        /\ UNCHANGED <<received, tcp, leaving, raced>>
    BY <1>2 DEF Fizzle, buffers, updates, loops, network, leave
  <2>4. ControlInv'
    BY <1>0, <2>1, <2>2, <2>3 DEF ControlInv
  <2> QED
    BY <2>2, <2>3, <2>4 DEF TypeOK
<1>3. CASE Ignite
  <2>1. /\ pc = "bombs" /\ cursor \in DOMAIN bombs /\ bombs[cursor].cell \in Cells
        /\ bombs' = [bombs EXCEPT ![cursor].seconds = 0]
        /\ 0 \in 0..BOMB_TIME_TO_EXPLODE_SECONDS
    BY <1>3 DEF Ignite, Shown, BOMB_TIME_TO_EXPLODE_SECONDS
  <2>2. /\ bombs' \in Seq(BombEntries)
        /\ Len(bombs') = Len(bombs)
        /\ DOMAIN bombs' = DOMAIN bombs
        /\ bombs'[cursor].cell \in Cells
        /\ \A i \in DOMAIN bombs : bombs'[i].seconds = 0 => i = cursor
    <3>1. /\ bombs' \in Seq(BombEntries)
          /\ Len(bombs') = Len(bombs)
          /\ \A j \in DOMAIN bombs :
               /\ bombs'[j].cell = bombs[j].cell
               /\ bombs'[j].seconds = IF j = cursor THEN 0 ELSE bombs[j].seconds
      <4>1. bombs \in Seq(BombEntries) /\ cursor \in DOMAIN bombs
        BY <2>1 DEF TypeOK
      <4> QED
        BY <2>1, <4>1, SetCounter
    <3>2. \A j \in DOMAIN bombs : bombs[j].seconds # 0
      BY <2>1 DEF ControlInv
    <3>3. DOMAIN bombs' = DOMAIN bombs
      BY <1>0, <3>1, LenProperties
    <3> QED
      BY <2>1, <3>1, <3>2, <3>3
  <2>3. /\ pc' = "blast" /\ blast' = 1 /\ 1 \in 0..ReachEnd /\ 1 \in 1..ReachEnd
        /\ UNCHANGED <<grid, exploded, position, status, movement, drop, movementUpdates>>
        /\ UNCHANGED <<bombUpdates, walk, tick, cursor, alive, result, receiver, received>>
        /\ UNCHANGED <<tcp, leaving, raced>>
    BY <1>3 DEF Ignite, buffers, updates, network, leave, ReachEnd
  <2>4. ControlInv'
    BY <1>0, <2>1, <2>2, <2>3 DEF ControlInv
  <2> QED
    BY <2>2, <2>3, <2>4 DEF TypeOK
<1>4. CASE BreakWall
  <2>1. blast' \in 1..ReachEnd /\ blast' \in 0..ReachEnd
    BY <1>4, NextInReachType DEF BreakWall, ReachEnd
  <2>2. /\ grid' \in [Positions -> CellCodes]
        /\ exploded' \in [Positions -> {EMPTY_CELL, EXPLODED_BY_BOMB}]
    BY <1>4, CodeFacts DEF BreakWall, TypeOK
  <2>3. raced' \in BOOLEAN
    BY <1>4 DEF BreakWall, WritesField
  <2>4. /\ pc = "blast"
        /\ UNCHANGED <<position, status, bombs, movement, drop, movementUpdates, bombUpdates, pc>>
        /\ UNCHANGED <<walk, tick, cursor, alive, result, receiver, received, tcp, leaving>>
    BY <1>4 DEF BreakWall, buffers, updates, network, leave
  <2> QED
    BY <2>1, <2>2, <2>3, <2>4 DEF TypeOK, ControlInv
<1>5. CASE KillPlayers
  <2>1. blast' \in 1..ReachEnd /\ blast' \in 0..ReachEnd
    BY <1>5, NextInReachType DEF KillPlayers, ReachEnd
  <2>2. /\ grid' \in [Positions -> CellCodes]
        /\ status' \in [Players -> {READY_TO_PLAY, DEAD}]
        /\ position' \in [Players -> Positions]
    BY <1>5, CodeFacts, CellFacts DEF KillPlayers, TypeOK
  <2>3. raced' \in BOOLEAN
    BY <1>5 DEF KillPlayers, WritesField
  <2>4. /\ pc = "blast"
        /\ UNCHANGED <<exploded, bombs, movement, drop, movementUpdates, bombUpdates, pc>>
        /\ UNCHANGED <<walk, tick, cursor, alive, result, receiver, received, tcp, leaving>>
    BY <1>5 DEF KillPlayers, buffers, updates, network, leave
  <2> QED
    BY <2>1, <2>2, <2>3, <2>4 DEF TypeOK, ControlInv
<1>6. CASE BlastNothing
  <2>1. blast' \in 1..ReachEnd /\ blast' \in 0..ReachEnd
    BY <1>6, NextInReachType DEF BlastNothing, ReachEnd
  <2>2. /\ pc = "blast"
        /\ UNCHANGED <<grid, exploded, position, status, bombs, movement, drop, movementUpdates>>
        /\ UNCHANGED <<bombUpdates, pc, walk, tick, cursor, alive, result, receiver, received>>
        /\ UNCHANGED <<tcp, leaving, raced>>
    BY <1>6 DEF BlastNothing, board, buffers, updates, network, leave
  <2> QED
    BY <2>1, <2>2 DEF TypeOK, ControlInv
<1>7. CASE EndBlast
  <2>1. /\ cursor \in DOMAIN bombs /\ bombs' = RemoveAt(bombs, cursor)
        /\ pc = "blast" /\ pc' = "bombs" /\ blast' = 0 /\ 0 \in 0..ReachEnd
    BY <1>7 DEF EndBlast, ControlInv, ReachEnd
  <2>2. /\ bombs' \in Seq(BombEntries)
        /\ Len(bombs') = Len(bombs) - 1
        /\ \A i \in DOMAIN bombs' :
             \E j \in DOMAIN bombs : j # cursor /\ bombs'[i] = bombs[j]
    BY <2>1, RemovedFrom DEF TypeOK
  <2>3. grid' \in [Positions -> CellCodes]
    <3>1. exploded[bombs[cursor].cell] \in CellCodes
      BY <1>7, CodeFacts, CellFacts DEF EndBlast, TypeOK, ControlInv
    <3>2. grid' = [grid EXCEPT ![bombs[cursor].cell] = exploded[bombs[cursor].cell]]
      BY <1>7 DEF EndBlast
    <3> QED
      BY <3>1, <3>2 DEF TypeOK
  <2>4. raced' \in BOOLEAN
    BY <1>7 DEF EndBlast, WritesField
  <2>5. /\ UNCHANGED <<exploded, position, status, movement, drop, movementUpdates, bombUpdates>>
        /\ UNCHANGED <<walk, tick, cursor, alive, result, receiver, received, tcp, leaving>>
    BY <1>7 DEF EndBlast, buffers, updates, network, leave
  <2>6. ControlInv'
    BY <1>0, <2>1, <2>2, <2>5 DEF ControlInv
  <2> QED
    BY <2>1, <2>2, <2>3, <2>4, <2>5, <2>6 DEF TypeOK
<1>8. CASE EndBombs
  BY <1>8 DEF EndBombs, TypeOK, ControlInv, board, buffers, updates, network, leave
<1> QED
  BY <1>1, <1>2, <1>3, <1>4, <1>5, <1>6, <1>7, <1>8 DEF ExplodeBombs

LEMMA NextType ==
  ASSUME TypeOK, ControlInv, [Next]_vars
  PROVE  TypeOK' /\ ControlInv'
<1>1. CASE UNCHANGED vars
  BY <1>1 DEF vars, board, buffers, updates, loops, network, leave, TypeOK, ControlInv
<1> QED
  BY <1>1, PassType, FinishTestType, ExplodeBombsType, ReceiverType, KillPlayerType
  DEF Next, Updater

(* Every variable keeps its type in every behaviour: in particular the     *)
(* code indexes grid only with cells of the field and with -1.             *)
THEOREM TypeCorrect == Spec => []TypeOK
<1>1. Init => TypeOK /\ ControlInv
  BY InitType
<1>2. TypeOK /\ ControlInv /\ [Next]_vars => (TypeOK /\ ControlInv)'
  BY NextType
<1> QED
  BY <1>1, <1>2, PTL DEF Spec

-----------------------------------------------------------------------------
(* Walls.  Apart from BreakWall every step writes only cells without a     *)
(* wall, and writes no wall.                                               *)
KeepsWalls ==
  /\ exploded' = exploded
  /\ \A c \in Cells : grid'[c] = grid[c] \/ (grid[c] \notin Walls /\ grid'[c] \notin Walls)

LEMMA KeepsWallsFall ==
  ASSUME KeepsWalls
  PROVE  /\ WallsFall
         /\ \A c \in Positions : WallFree(c) => WallFree(c)'
BY DEF KeepsWalls, WallsFall, WallFree, Walls, INDESTRUCTIBLE_WALL, DESTRUCTIBLE_WALL

(* Then only the cells that a step newly points to need a look.            *)
LEMMA KeepsWallInv ==
  ASSUME TypeOK, WallInv, KeepsWalls,
         \A p \in Players : WallFree(position'[p]) /\ WallFree(leaving'[p]),
         pc' = "walk" => WallFree(walk'[1]) /\ WallFree(walk'[2]),
         \A i \in DOMAIN bombs' : WallFree(bombs'[i].cell)
  PROVE  WallInv' /\ WallsFall
<1>1. \A c : WallFree(c) => (c \in Cells => grid'[c] \notin Walls)
  BY DEF KeepsWalls, WallFree
<1>2. \A c \in Cells : exploded'[c] = EXPLODED_BY_BOMB => grid'[c] \notin Walls
  BY DEF KeepsWalls, WallInv
<1> QED
  BY <1>1, <1>2, KeepsWallsFall DEF WallInv, WallFree

LEMMA InitWalls ==
  Init => WallInv
<1> SUFFICES ASSUME NEW walls \in SUBSET (Interior \ Pillars), NEW left \in SUBSET Players,
                    NEW byte \in CellCodes, NEW late \in SUBSET left,
                    Start(walls, left, late, byte)
             PROVE  WallInv
  BY DEF Init
<1>1. \A p \in Players : WallFree(InitialPosition(p))
  <2> TAKE p \in Players
  <2>1. InitialPosition(p) \in Cells /\ InitialPosition(p) \notin Interior
        /\ InitialPosition(p) \in Positions /\ InitialPosition(p) # Off
    BY InitialPositionFacts, CellFacts
  <2>2. grid[InitialPosition(p)] \notin Walls
    BY <2>1, InitialCellFacts DEF Start
  <2> QED
    BY <2>2 DEF WallFree
<1>2. WallFree(Off)
  BY CellFacts DEF WallFree
<1>3. \A p \in Players : WallFree(position[p]) /\ WallFree(leaving[p])
  BY <1>1, <1>2 DEF Start
<1>4. \A c \in Cells : exploded[c] # EXPLODED_BY_BOMB
  BY CellFacts DEF Start, EMPTY_CELL, EXPLODED_BY_BOMB
<1>5. pc # "walk" /\ bombs = <<>>
  BY DEF Start
<1> QED
  BY <1>3, <1>4, <1>5 DEF WallInv

LEMMA NextWalls ==
  ASSUME TypeOK, ControlInv, WallInv, [Next]_vars
  PROVE  WallInv' /\ WallsFall
<1> USE DEF WallFree
<1>0. EMPTY_CELL \notin Walls /\ BOMB \notin Walls /\ EXPLODED_BY_BOMB \notin Walls
      /\ \A p \in Players : ENCODE_PLAYER(p) \notin Walls
  BY CodeFacts DEF Walls, EMPTY_CELL, BOMB, EXPLODED_BY_BOMB, INDESTRUCTIBLE_WALL, DESTRUCTIBLE_WALL
<1>1. ASSUME UNCHANGED <<grid, exploded, position, leaving, bombs>>,
             pc' = "walk" => pc = "walk" /\ walk' = walk
      PROVE  WallInv' /\ WallsFall
  <2>1. KeepsWalls
    BY <1>1 DEF KeepsWalls
  <2> QED
    BY <1>1, <2>1, KeepsWallInv DEF WallInv
<1>2. CASE UNCHANGED vars \/ Freed \/ Receiver \/ BeginPass \/ StayInPlace \/ KeepBomb \/ EndPass
            \/ FinishTest \/ FinishMatch \/ BlastNothing \/ EndBombs
  <2>1. UNCHANGED <<grid, exploded, position, leaving, bombs>>
    BY <1>2 DEF Freed, Receiver, ReceiveAction, BufferAction, BeginPass, StayInPlace, KeepBomb,
       EndPass, FinishTest, CountPlayer, Decide, FinishMatch, BlastNothing, EndBombs,
       vars, board, leave
  <2>2. pc' = "walk" => pc = "walk" /\ walk' = walk
    BY <1>2 DEF Freed, Receiver, ReceiveAction, BufferAction, BeginPass, StayInPlace, KeepBomb,
       EndPass, FinishTest, CountPlayer, Decide, FinishMatch, BlastNothing, EndBombs,
       vars, loops
  <2> QED
    BY <1>1, <2>1, <2>2
<1>3. CASE BeginMove
  <2>1. KeepsWalls
    BY <1>3 DEF BeginMove, KeepsWalls, board
  <2>2. WallFree(walk'[1]) /\ WallFree(walk'[2])
    BY <1>3, CodeFacts DEF BeginMove, MayMove, WallInv
  <2> QED
    BY <1>3, <2>1, <2>2, KeepsWallInv DEF BeginMove, WallInv, board, leave
<1>4. CASE MovePlayer
  <2>1. /\ walk[1] \in Positions /\ walk[2] \in Cells /\ cursor \in Players
        /\ WallFree(walk[1]) /\ WallFree(walk[2])
    BY <1>4 DEF MovePlayer, TypeOK, ControlInv, WallInv
  <2>2. LeftBehind(walk[1]) \notin Walls
    BY <1>0, <2>1 DEF LeftBehind, TypeOK
  <2> DEFINE from == walk[1]
             to == walk[2]
             code == ENCODE_PLAYER(cursor)
             shown == LeftBehind(walk[1])
  <2>3. KeepsWalls
    <3>1. grid' = [grid EXCEPT ![from] = shown, ![to] = code] /\ exploded' = exploded
      BY <1>4 DEF MovePlayer
    <3>2. code \notin Walls /\ shown \notin Walls
      BY <1>0, <2>1, <2>2
    <3> HIDE DEF from, to, code, shown
    <3>3. \A c \in Cells : grid'[c] = grid[c] \/ (c = from /\ grid'[c] = shown) \/ (c = to /\ grid'[c] = code)
      BY <3>1, CellFacts DEF TypeOK
    <3>4. WallFree(from) /\ WallFree(to)
      BY <2>1 DEF from, to
    <3> QED
      BY <3>1, <3>2, <3>3, <3>4 DEF KeepsWalls
  <2>4. \A p \in Players : WallFree(position'[p]) /\ WallFree(leaving'[p])
    BY <1>4, <2>1 DEF MovePlayer, WallInv, TypeOK, leave
  <2>5. pc' = "drop" /\ bombs' = bombs
    BY <1>4 DEF MovePlayer
  <2> QED
    BY <2>3, <2>4, <2>5, KeepsWallInv DEF WallInv
<1>5. CASE PlaceBomb
  <2>1. cursor \in Players /\ WallFree(position[cursor])
    BY <1>5 DEF PlaceBomb, ControlInv, WallInv
  <2>2. KeepsWalls
    BY <1>0, <1>5, <2>1 DEF PlaceBomb, KeepsWalls, TypeOK
  <2>3. UNCHANGED <<position, leaving, bombs>> /\ pc' = "list"
    BY <1>5 DEF PlaceBomb, leave
  <2> QED
    BY <2>2, <2>3, KeepsWallInv DEF WallInv
<1>6. CASE ListBomb
  <2>1. cursor \in Players /\ WallFree(position[cursor]) /\ position[cursor] \in Positions
    BY <1>6 DEF ListBomb, ControlInv, WallInv, TypeOK
  <2>2. WallFree(AsBytes(position[cursor]))
    BY <2>1, AsBytesFacts DEF Positions
  <2> DEFINE bomb == [cell |-> AsBytes(position[cursor]), player |-> cursor,
                      seconds |-> BOMB_TIME_TO_EXPLODE_SECONDS]
  <2>3. WallFree(bomb.cell) /\ bombs' = Append(bombs, bomb)
    BY <1>6, <2>2 DEF ListBomb
  <2> HIDE DEF bomb
  <2>4. \A i \in DOMAIN bombs' : (i \in DOMAIN bombs /\ bombs'[i] = bombs[i]) \/ bombs'[i] = bomb
    BY <2>3 DEF TypeOK
  <2>5. \A i \in DOMAIN bombs' : WallFree(bombs'[i].cell)
    BY <2>3, <2>4 DEF WallInv
  <2>6. KeepsWalls
    BY <1>6 DEF ListBomb, KeepsWalls
  <2>7. UNCHANGED <<position, leaving>> /\ pc' = "move"
    BY <1>6 DEF ListBomb, leave
  <2> QED
    BY <2>5, <2>6, <2>7, KeepsWallInv DEF WallInv
<1>7. CASE CountDown \/ Ignite
  <2>1. PICK n : bombs' = [bombs EXCEPT ![cursor].seconds = n]
    BY <1>7 DEF CountDown, Ignite
  <2>2. DOMAIN bombs' = DOMAIN bombs /\ \A i \in DOMAIN bombs : bombs'[i].cell = bombs[i].cell
    BY <2>1, BombCells
  <2>3. KeepsWalls /\ UNCHANGED <<position, leaving>> /\ pc' # "walk"
    BY <1>7 DEF CountDown, Ignite, KeepsWalls, leave
  <2> QED
    BY <2>2, <2>3, KeepsWallInv DEF WallInv
<1>8. CASE Fizzle
  <2>1. \A i \in DOMAIN bombs' : \E j \in DOMAIN bombs : bombs'[i] = bombs[j]
    BY <1>8, RemovedFrom DEF Fizzle, TypeOK
  <2>2. KeepsWalls /\ UNCHANGED <<position, leaving>> /\ pc' # "walk"
    BY <1>8 DEF Fizzle, KeepsWalls, leave
  <2> QED
    BY <2>1, <2>2, KeepsWallInv DEF WallInv
<1>9. CASE EndBlast
  <2>1. /\ cursor \in DOMAIN bombs /\ bombs[cursor].cell \in Cells
        /\ WallFree(bombs[cursor].cell)
    BY <1>9 DEF EndBlast, ControlInv, WallInv
  <2>2. \A i \in DOMAIN bombs' : \E j \in DOMAIN bombs : bombs'[i] = bombs[j]
    BY <1>9, <2>1, RemovedFrom DEF EndBlast, TypeOK
  <2>3. KeepsWalls
    <3>1. /\ grid' = [grid EXCEPT ![bombs[cursor].cell] = exploded[bombs[cursor].cell]]
          /\ UNCHANGED exploded
      BY <1>9 DEF EndBlast
    <3> DEFINE c == bombs[cursor].cell
    <3>2. exploded[c] \notin Walls
      BY <1>0, <2>1, CellFacts DEF TypeOK
    <3>3. c \in Cells /\ grid[c] \notin Walls /\ grid \in [Positions -> CellCodes]
      BY <2>1 DEF WallFree, TypeOK
    <3>4. grid' = [grid EXCEPT ![c] = exploded[c]]
      BY <3>1
    <3> HIDE DEF c
    <3> QED
      BY <3>1, <3>2, <3>3, <3>4, CellFacts DEF KeepsWalls
  <2>4. UNCHANGED <<position, leaving>> /\ pc' # "walk"
    BY <1>9 DEF EndBlast, leave
  <2> QED
    BY <2>2, <2>3, <2>4, KeepsWallInv DEF WallInv
<1>10. CASE BreakWall
  <2> DEFINE cell == BlastCell
  <2>1. /\ cell \in Cells /\ cell \in Positions
        /\ grid[cell] = DESTRUCTIBLE_WALL
        /\ grid' = [grid EXCEPT ![cell] = EXPLODED_BY_BOMB]
        /\ exploded' = [exploded EXCEPT ![cell] = EXPLODED_BY_BOMB]
        /\ UNCHANGED <<position, leaving, bombs>>
        /\ pc' # "walk"
    BY <1>10, CellFacts DEF BreakWall, leave
  <2> HIDE DEF cell
  <2>2. \A c \in Cells : grid'[c] = IF c = cell THEN EXPLODED_BY_BOMB ELSE grid[c]
    BY <2>1, CellFacts DEF TypeOK
  <2>3. \A c \in Cells : exploded'[c] = IF c = cell THEN EXPLODED_BY_BOMB ELSE exploded[c]
    BY <2>1, CellFacts DEF TypeOK
  <2>4. WallsFall
    BY <1>0, <2>1, <2>2, <2>3 DEF WallsFall, INDESTRUCTIBLE_WALL, DESTRUCTIBLE_WALL
  <2>5. WallInv'
    BY <1>0, <2>1, <2>2, <2>3 DEF WallInv
  <2> QED
    BY <2>4, <2>5
<1>11. CASE KillPlayers
  <2>1. \A c \in Cells : grid'[c] = grid[c] \/ (grid'[c] = EMPTY_CELL /\ \E p \in Players : position[p] = c)
    BY <1>11, CellFacts DEF KillPlayers, PlayersAt
  <2>2. KeepsWalls
    BY <1>0, <1>11, <2>1 DEF KillPlayers, KeepsWalls, WallInv
  <2>3. \A p \in Players : position'[p] = position[p] \/ position'[p] = Off
    BY <1>11 DEF KillPlayers
  <2>4. UNCHANGED <<leaving, bombs>> /\ pc' # "walk"
    BY <1>11 DEF KillPlayers, leave
  <2> QED
    BY <2>2, <2>3, <2>4, CellFacts, KeepsWallInv DEF WallInv
<1>12. ASSUME NEW p \in Players, Leave(p) \/ MarkDead(p) \/ Unplace(p)
       PROVE  WallInv' /\ WallsFall
  <2>1. KeepsWalls /\ UNCHANGED bombs
    BY <1>12 DEF Leave, MarkDead, Unplace, KeepsWalls, board
  <2>2. \A q \in Players : WallFree(position'[q]) /\ WallFree(leaving'[q])
    <3>1. \A q \in Players : position'[q] = position[q] \/ position'[q] = Off
      BY <1>12 DEF Leave, MarkDead, Unplace, TypeOK, board
    <3>2. \A q \in Players : leaving'[q] = leaving[q] \/ leaving'[q] = position[q]
      BY <1>12 DEF Leave, MarkDead, Unplace, TypeOK
    <3> QED
      BY <3>1, <3>2, CellFacts DEF WallInv
  <2>3. UNCHANGED <<pc, walk>>
    BY <1>12 DEF Leave, MarkDead, Unplace, loops
  <2> QED
    BY <2>1, <2>2, <2>3, KeepsWallInv DEF WallInv
<1>13. ASSUME NEW p \in Players, EraseCell(p)
       PROVE  WallInv' /\ WallsFall
  <2>1. KeepsWalls
    BY <1>0, <1>13 DEF EraseCell, KeepsWalls, WallInv, TypeOK
  <2>2. UNCHANGED <<pc, walk, position, leaving, bombs>>
    BY <1>13 DEF EraseCell, loops
  <2> QED
    BY <2>1, <2>2, KeepsWallInv DEF WallInv
<1> QED
  BY <1>2, <1>3, <1>4, <1>5, <1>6, <1>7, <1>8, <1>9, <1>10, <1>11, <1>12, <1>13
  DEF Next, Updater, Pass, ExplodeBombs, KillPlayer

(* Walls never appear, move or vanish except into rubble, racing or not.   *)
THEOREM WallsStayOrFall == Spec => WallsOnlyFall
<1>1. Init => TypeOK /\ ControlInv /\ WallInv
  BY InitType, InitWalls
<1>2. TypeOK /\ ControlInv /\ WallInv /\ [Next]_vars => (TypeOK /\ ControlInv /\ WallInv)'
  BY NextType, NextWalls
<1>3. TypeOK /\ ControlInv /\ WallInv /\ [Next]_vars => [WallsFall]_vars
  BY NextWalls
<1> QED
  BY <1>1, <1>2, <1>3, PTL DEF Spec, WallsOnlyFall

=============================================================================
