---------------------------- MODULE FieldProofs ----------------------------
(***************************************************************************)
(* The field of every match, as long as no kill_player without the mutex   *)
(* met a step of the updater: positions and grid agree, every bomb shown   *)
(* is listed, and a blast kills who is next to the bomb and nobody out of  *)
(* its reach.                                                              *)
(*                                                                         *)
(* And Match implements Contest, with races: nobody comes back to life,    *)
(* and the announced result is true at the moment it is announced,         *)
(* although should_finish_match read the statuses one by one while players *)
(* left.                                                                   *)
(***************************************************************************)
EXTENDS MatchProofs

-----------------------------------------------------------------------------
(* The types of what the field is made of, and the codes it tells apart.   *)
LEMMA FieldTypes ==
  ASSUME TypeOK
  PROVE  /\ grid \in [Positions -> CellCodes]
         /\ exploded \in [Positions -> {EMPTY_CELL, EXPLODED_BY_BOMB}]
         /\ position \in [Players -> Positions]
         /\ leaving \in [Players -> Positions]
         /\ tcp \in [Players -> {"open", "erase", "mark", "unplace", "closed"}]
         /\ bombs \in Seq(BombEntries)
         /\ walk \in Positions \X Positions
BY DEF TypeOK

LEMMA Codes ==
  /\ EMPTY_CELL # BOMB /\ EXPLODED_BY_BOMB # BOMB /\ DESTRUCTIBLE_WALL # BOMB
  /\ EMPTY_CELL # DESTRUCTIBLE_WALL
  /\ \A p \in Players :
       ENCODE_PLAYER(p) \notin Walkable \cup {EMPTY_CELL, EXPLODED_BY_BOMB, BOMB, DESTRUCTIBLE_WALL}
  /\ \A p, q \in Players : ENCODE_PLAYER(p) = ENCODE_PLAYER(q) => p = q
  /\ BOMB \notin Walkable
<1>1. EMPTY_CELL # BOMB /\ EXPLODED_BY_BOMB # BOMB /\ DESTRUCTIBLE_WALL # BOMB
      /\ EMPTY_CELL # DESTRUCTIBLE_WALL
  BY DEF EMPTY_CELL, BOMB, EXPLODED_BY_BOMB, DESTRUCTIBLE_WALL
<1> QED
  BY <1>1, CodeFacts DEF Walkable

-----------------------------------------------------------------------------
(* A step that ends without a race began without one; if it is a step of   *)
(* the updater on the field no kill_player was under way, and if it begins *)
(* a kill_player the updater was in the middle of nothing.                 *)
WorksOnField ==
  \/ BeginMove \/ MovePlayer \/ PlaceBomb \/ ListBomb
  \/ BreakWall \/ KillPlayers \/ EndBlast

LEMMA RaceIsSeen ==
  ASSUME [Next]_vars, ~raced'
  PROVE  /\ ~raced
         /\ WorksOnField => ~KillUnderWay
         /\ (\E p \in Players : Leave(p)) => pc \notin {"walk", "list"}
<1>1. WorksOnField => ~KillUnderWay /\ ~raced
  BY DEF WorksOnField, BeginMove, MovePlayer, PlaceBomb, ListBomb, BreakWall, KillPlayers,
     EndBlast, WritesField
<1>2. (\E p \in Players : Leave(p)) => pc \notin {"walk", "list"} /\ ~raced
  BY DEF Leave, KillBegins
<1>3. ASSUME BeginPass \/ StayInPlace \/ KeepBomb \/ EndPass \/ FinishTest \/ FinishMatch \/ Freed
               \/ UNCHANGED vars
      PROVE  UNCHANGED raced
  BY <1>3 DEF BeginPass, StayInPlace, KeepBomb, EndPass, FinishTest, CountPlayer, Decide,
     FinishMatch, Freed, vars
<1>4. ASSUME CountDown \/ Fizzle \/ Ignite \/ BlastNothing \/ EndBombs \/ Receiver
      PROVE  UNCHANGED raced
  BY <1>4 DEF CountDown, Fizzle, Ignite, BlastNothing, EndBombs, Receiver, ReceiveAction,
     BufferAction
<1>5. ASSUME NEW p \in Players, KillPlayer(p)
      PROVE  UNCHANGED raced
  BY <1>5 DEF KillPlayer, EraseCell, MarkDead, Unplace
<1>6. \/ WorksOnField
      \/ \E p \in Players : Leave(p)
      \/ UNCHANGED raced
  BY <1>3, <1>4, <1>5 DEF Next, Updater, Pass, ExplodeBombs, WorksOnField
<1> QED
  BY <1>1, <1>2, <1>6

-----------------------------------------------------------------------------
(* A match starts calm; a kill_player that has begun in the lobby has      *)
(* emptied its cell before initialize_grid did.                            *)
LEMMA InitField ==
  Init => Calm /\ BlastInv
<1> SUFFICES ASSUME NEW walls \in SUBSET (Interior \ Pillars), NEW left \in SUBSET Players,
                    NEW byte \in CellCodes, NEW late \in SUBSET left,
                    Start(walls, left, late, byte)
             PROVE  Calm /\ BlastInv
  BY MatchAssumption DEF Init
<1>1. pc = "round" /\ bombs = <<>>
  BY DEF Start
<1>2. ASSUME NEW p \in Players
      PROVE  /\ leaving[p] = InitialPosition(p)
             /\ position[p] = IF p \in left \ late THEN Off ELSE InitialPosition(p)
             /\ tcp[p] = IF p \in late THEN "unplace" ELSE IF p \in left THEN "closed" ELSE "open"
  BY DEF Start
<1>3. \A c \in Positions : grid[c] = InitialCell(c, walls, left, byte)
  BY DEF Start
<1>4. \A p \in Players : InitialPosition(p) \in Cells /\ InitialPosition(p) \in Positions
  BY InitialPositionFacts, CellFacts
<1>5. NoKillBetween
  BY <1>1, <1>2 DEF NoKillBetween
<1>6. EachIsShown
  <2> SUFFICES ASSUME NEW p \in Players, OnField(p)
               PROVE  IF Departing(p) THEN grid[position[p]] = EMPTY_CELL ELSE Shows(p)
    BY DEF EachIsShown
  <2>1. position[p] = InitialPosition(p) /\ (p \notin left \/ p \in late)
    BY <1>2, CellFacts DEF OnField
  <2>2. CASE p \in late
    BY <1>2, <1>3, <1>4, <2>1, <2>2, InitialCellFacts DEF Departing
  <2>3. CASE p \notin left
    BY <1>2, <1>3, <1>4, <2>1, <2>3, InitialCellFacts DEF Departing, Shows
  <2> QED
    BY <2>1, <2>2, <2>3
<1>7. ShownIsThere
  <2> SUFFICES ASSUME NEW p \in Players, NEW c \in Cells, grid[c] = ENCODE_PLAYER(p)
               PROVE  position[p] = c
    BY DEF ShownIsThere
  <2>1. p \notin left /\ c = InitialPosition(p)
    BY <1>3, CellFacts, InitialCellFacts
  <2> QED
    BY <1>2, <2>1
<1>8. OneOnACell
  BY <1>2, InitialPositionFacts, CellFacts DEF OneOnACell, OnField
<1>9. BombsListed
  BY <1>3, CellFacts, InitialCellFacts DEF BombsListed
<1> QED
  BY <1>1, <1>5, <1>6, <1>7, <1>8, <1>9 DEF Calm, BlastSwept, BlastInv

-----------------------------------------------------------------------------
(* The steps that leave the field as it is and begin or end nothing on it. *)
LEMMA CalmElsewhere ==
  ASSUME Calm,
         UNCHANGED <<grid, position, tcp, leaving, bombs>>,
         pc' # "walk" \/ (pc = "walk" /\ UNCHANGED <<walk, cursor>>),
         pc' # "list" \/ (pc = "list" /\ UNCHANGED cursor),
         pc # "list" \/ pc' = "list",
         pc' # "blast" \/ (pc = "blast" /\ UNCHANGED <<blast, cursor>>)
  PROVE  Calm'
<1>1. NoKillBetween'
  BY DEF Calm, NoKillBetween, KillUnderWay
<1>2. EachIsShown' /\ ShownIsThere' /\ OneOnACell'
  BY DEF Calm, EachIsShown, ShownIsThere, OneOnACell, OnField, Departing, Shows
<1>3. BlastSwept'
  BY DEF Calm, BlastSwept, OnField, Departing
<1>4. BombsListed'
  BY DEF Calm, BombsListed
<1> QED
  BY <1>1, <1>2, <1>3, <1>4 DEF Calm

(* kill_player without the mutex, when it meets nobody.                    *)
LEMMA CalmLeave ==
  ASSUME TypeOK, Calm, NEW p \in Players, Leave(p), pc \notin {"walk", "list"}
  PROVE  Calm'
<1>1. /\ UNCHANGED <<grid, position, bombs, pc, walk, cursor, blast>>
      /\ leaving' = [leaving EXCEPT ![p] = position[p]]
      /\ tcp[p] = "open" /\ tcp' = [tcp EXCEPT ![p] = "erase"]
  BY DEF Leave, board, loops
<1>2. NoKillBetween'
  BY <1>1, FieldTypes DEF Calm, NoKillBetween
<1>3. \A q \in Players : Departing(q)' <=> Departing(q)
  BY <1>1, FieldTypes DEF Departing
<1>4. EachIsShown' /\ ShownIsThere' /\ OneOnACell'
  BY <1>1, <1>3 DEF Calm, EachIsShown, ShownIsThere, OneOnACell, OnField, Shows
<1>5. BlastSwept'
  BY <1>1, <1>3 DEF Calm, BlastSwept, OnField
<1>6. BombsListed'
  BY <1>1 DEF Calm, BombsListed
<1> QED
  BY <1>2, <1>4, <1>5, <1>6 DEF Calm

LEMMA CalmErase ==
  ASSUME TypeOK, Calm, NEW p \in Players, EraseCell(p)
  PROVE  Calm'
<1>1. /\ UNCHANGED <<position, leaving, bombs, pc, walk, cursor, blast>>
      /\ grid' = [grid EXCEPT ![leaving[p]] = EMPTY_CELL]
      /\ tcp[p] = "erase" /\ tcp' = [tcp EXCEPT ![p] = "mark"]
  BY DEF EraseCell, loops
<1>2. KillUnderWay /\ pc \notin {"walk", "list"} /\ position[p] = leaving[p]
  BY <1>1 DEF KillUnderWay, Calm, NoKillBetween
<1>3. /\ \A c \in Positions : grid'[c] = IF c = position[p] THEN EMPTY_CELL ELSE grid[c]
      /\ position[p] \in Positions
  BY <1>1, <1>2, FieldTypes
<1>4. NoKillBetween'
  BY <1>1, <1>2, FieldTypes DEF Calm, NoKillBetween
<1>5. /\ Departing(p)'
      /\ \A q \in Players : q # p => (Departing(q)' <=> Departing(q))
      /\ \A q \in Players : Departing(q) => Departing(q)'
  BY <1>1, FieldTypes DEF Departing
<1>6. EachIsShown'
  <2> SUFFICES ASSUME NEW q \in Players, OnField(q)
               PROVE  IF Departing(q)' THEN grid'[position[q]] = EMPTY_CELL
                      ELSE grid'[position[q]] \in {ENCODE_PLAYER(q), BOMB}
    BY <1>1 DEF EachIsShown, OnField, Shows
  <2>1. position[q] \in Positions
    BY FieldTypes
  <2>2. CASE q = p
    BY <1>3, <1>5, <2>2
  <2>3. CASE q # p
    <3>1. position[q] # position[p]
      BY <2>3 DEF Calm, OneOnACell
    <3> QED
      BY <1>3, <1>5, <2>1, <2>3, <3>1 DEF Calm, EachIsShown, Shows
  <2> QED
    BY <2>2, <2>3
<1>7. ShownIsThere' /\ OneOnACell'
  BY <1>1, <1>3, CellFacts, Codes DEF Calm, ShownIsThere, OneOnACell, OnField
<1>8. BlastSwept'
  BY <1>1, <1>5 DEF Calm, BlastSwept, OnField
<1>9. BombsListed'
  BY <1>1, <1>3, CellFacts, Codes DEF Calm, BombsListed
<1> QED
  BY <1>4, <1>6, <1>7, <1>8, <1>9 DEF Calm

LEMMA CalmMarkAndUnplace ==
  ASSUME TypeOK, Calm, NEW p \in Players, MarkDead(p) \/ Unplace(p)
  PROVE  Calm'
<1>1. /\ UNCHANGED <<grid, leaving, bombs, pc, walk, cursor, blast>>
      /\ tcp[p] \in {"mark", "unplace"}
  BY DEF MarkDead, Unplace, loops
<1>2. KillUnderWay /\ pc \notin {"walk", "list"} /\ Departing(p)
  BY <1>1 DEF KillUnderWay, Calm, NoKillBetween, Departing
<1>3. CASE MarkDead(p)
  <2>1. UNCHANGED position /\ tcp' = [tcp EXCEPT ![p] = "unplace"]
    BY <1>3 DEF MarkDead
  <2>2. \A q \in Players : Departing(q)' <=> Departing(q)
    BY <1>1, <2>1, FieldTypes DEF Departing
  <2>3. NoKillBetween'
    BY <1>1, <1>2, <2>1, FieldTypes DEF Calm, NoKillBetween
  <2>4. EachIsShown' /\ ShownIsThere' /\ OneOnACell'
    BY <1>1, <2>1, <2>2 DEF Calm, EachIsShown, ShownIsThere, OneOnACell, OnField, Shows
  <2>5. BlastSwept' /\ BombsListed'
    BY <1>1, <2>1, <2>2 DEF Calm, BlastSwept, BombsListed, OnField
  <2> QED
    BY <2>3, <2>4, <2>5 DEF Calm
<1>4. CASE Unplace(p)
  <2>1. /\ position' = [position EXCEPT ![p] = Off]
        /\ tcp' = [tcp EXCEPT ![p] = "closed"]
    BY <1>4 DEF Unplace
  <2>2. /\ \A q \in Players : q # p => (Departing(q)' <=> Departing(q)) /\ position'[q] = position[q]
        /\ position'[p] = Off /\ ~OnField(p)'
    BY <2>1, FieldTypes, CellFacts DEF Departing, OnField
  <2>3. NoKillBetween'
    BY <1>1, <1>2, <2>1, FieldTypes DEF Calm, NoKillBetween
  <2>4. EachIsShown'
    BY <1>1, <2>2 DEF Calm, EachIsShown, OnField, Shows
  <2>5. ShownIsThere'
    <3> SUFFICES ASSUME NEW q \in Players, NEW c \in Cells, grid[c] = ENCODE_PLAYER(q)
                 PROVE  position'[q] = c
      BY <1>1 DEF ShownIsThere
    <3>1. position[q] = c
      BY DEF Calm, ShownIsThere
    <3>2. q # p
      BY <1>2, <3>1, Codes DEF Calm, EachIsShown, OnField
    <3> QED
      BY <2>2, <3>1, <3>2
  <2>6. OneOnACell'
    BY <2>2, CellFacts DEF Calm, OneOnACell, OnField
  <2>7. BlastSwept'
    BY <1>1, <2>2 DEF Calm, BlastSwept, OnField
  <2>8. BombsListed'
    BY <1>1, <1>2 DEF Calm, BombsListed
  <2> QED
    BY <2>3, <2>4, <2>5, <2>6, <2>7, <2>8 DEF Calm
<1> QED
  BY <1>3, <1>4

-----------------------------------------------------------------------------
(* move_player, with no kill_player under way.                             *)
LEMMA CalmBeginMove ==
  ASSUME TypeOK, ControlInv, Calm, BeginMove, ~KillUnderWay
  PROVE  Calm'
<1>1. /\ UNCHANGED <<grid, position, tcp, leaving, bombs, cursor, blast>>
      /\ pc = "move" /\ pc' = "walk" /\ MayMove(cursor)
      /\ walk' = <<position[cursor], Target(position[cursor], movement[cursor])>>
  BY DEF BeginMove, board, leave
<1>2. walk'[1] = position[cursor] /\ grid[walk'[2]] \in Walkable
  BY <1>1 DEF MayMove
<1>3. NoKillBetween'
  BY <1>1, <1>2 DEF Calm, NoKillBetween, KillUnderWay
<1>4. EachIsShown' /\ ShownIsThere' /\ OneOnACell' /\ BombsListed' /\ BlastSwept'
  BY <1>1 DEF Calm, EachIsShown, ShownIsThere, OneOnACell, OnField, Departing, Shows,
     BombsListed, BlastSwept
<1> QED
  BY <1>3, <1>4 DEF Calm

LEMMA CalmMovePlayer ==
  ASSUME TypeOK, ControlInv, Calm, MovePlayer, ~KillUnderWay
  PROVE  Calm'
<1> DEFINE from == walk[1]
           to   == walk[2]
           code == ENCODE_PLAYER(cursor)
           left == LeftBehind(walk[1])
<1>1. /\ UNCHANGED <<tcp, leaving, bombs, cursor>>
      /\ pc = "walk" /\ pc' = "drop" /\ cursor \in Players
      /\ from = position[cursor] /\ from \in Positions /\ to \in Cells /\ to \in Positions
      /\ grid[to] \in Walkable
  BY CellFacts DEF MovePlayer, leave, ControlInv, TypeOK, Calm, NoKillBetween
<1>2. /\ grid' = [grid EXCEPT ![from] = left, ![to] = code]
      /\ position' = [position EXCEPT ![cursor] = to]
  BY DEF MovePlayer
<1>3. left = IF grid[from] = BOMB THEN BOMB ELSE exploded[from]
  BY DEF LeftBehind
<1>4. left \in {EMPTY_CELL, EXPLODED_BY_BOMB, BOMB} /\ (left = BOMB => grid[from] = BOMB)
  BY <1>1, <1>3, FieldTypes, Codes
<1> HIDE DEF from, to, code, left
<1>5. \A q \in Players : ~Departing(q) /\ ~Departing(q)' /\ tcp'[q] \notin {"erase", "mark", "unplace"}
  BY <1>1 DEF KillUnderWay, Departing
<1>6. \A q \in Players : OnField(q) => Shows(q) /\ position[q] # to
  BY <1>1, <1>5, Codes DEF Calm, EachIsShown, Shows
<1>7. from # to
  BY <1>1, <1>6 DEF OnField
<1>8. \A c \in Positions : grid'[c] = IF c = to THEN code ELSE IF c = from THEN left ELSE grid[c]
  BY <1>1, <1>2, <1>7, FieldTypes
<1>9. \A q \in Players : position'[q] = IF q = cursor THEN to ELSE position[q]
  BY <1>1, <1>2, FieldTypes
<1>10. NoKillBetween'
  BY <1>1, <1>5 DEF NoKillBetween
<1>11. EachIsShown'
  <2> SUFFICES ASSUME NEW q \in Players, position'[q] \in Cells
               PROVE  grid'[position'[q]] \in {ENCODE_PLAYER(q), BOMB}
    BY <1>5 DEF EachIsShown, OnField, Shows
  <2>1. CASE q = cursor
    BY <1>1, <1>8, <1>9, <2>1 DEF code
  <2>2. CASE q # cursor
    <3>1. position'[q] = position[q] /\ OnField(q) /\ position[q] \in Positions
      BY <1>9, <2>2, CellFacts DEF OnField
    <3>2. position[q] # from /\ position[q] # to
      BY <1>1, <1>6, <2>2, <3>1 DEF Calm, OneOnACell
    <3> QED
      BY <1>6, <1>8, <3>1, <3>2 DEF Shows
  <2> QED
    BY <2>1, <2>2
<1>12. ShownIsThere'
  <2> SUFFICES ASSUME NEW q \in Players, NEW c \in Cells, grid'[c] = ENCODE_PLAYER(q)
               PROVE  position'[q] = c
    BY DEF ShownIsThere
  <2>1. CASE c = to
    BY <1>1, <1>8, <1>9, <2>1, Codes DEF code
  <2>2. CASE c = from
    BY <1>1, <1>4, <1>7, <1>8, <2>2, Codes
  <2>3. CASE c # to /\ c # from
    <3>1. position[q] = c
      BY <1>8, <2>3, CellFacts DEF Calm, ShownIsThere
    <3> QED
      BY <1>1, <1>9, <2>3, <3>1
  <2> QED
    BY <2>1, <2>2, <2>3
<1>13. OneOnACell'
  BY <1>1, <1>6, <1>9 DEF Calm, OneOnACell, OnField
<1>14. BlastSwept'
  BY <1>1 DEF BlastSwept
<1>15. BombsListed'
  <2> SUFFICES ASSUME NEW c \in Cells, grid'[c] = BOMB
               PROVE  \E i \in DOMAIN bombs : bombs[i].cell = c
    BY <1>1 DEF BombsListed
  <2>1. grid[c] = BOMB
    BY <1>1, <1>4, <1>8, CellFacts, Codes DEF code
  <2> QED
    BY <1>1, <2>1 DEF Calm, BombsListed
<1> QED
  BY <1>10, <1>11, <1>12, <1>13, <1>14, <1>15 DEF Calm

(* drop_bomb.                                                              *)
LEMMA CalmPlaceBomb ==
  ASSUME TypeOK, ControlInv, Calm, PlaceBomb, ~KillUnderWay
  PROVE  Calm'
<1>1. /\ UNCHANGED <<position, tcp, leaving, bombs, cursor>>
      /\ pc = "drop" /\ pc' = "list" /\ cursor \in Players
      /\ grid' = [grid EXCEPT ![position[cursor]] = BOMB]
  BY DEF PlaceBomb, ControlInv, loops, leave
<1>2. \A q \in Players : ~Departing(q) /\ ~Departing(q)'
  BY <1>1 DEF KillUnderWay, Departing
<1>3. \A c \in Positions : grid'[c] = IF c = position[cursor] THEN BOMB ELSE grid[c]
  BY <1>1, FieldTypes
<1>4. NoKillBetween'
  BY <1>1 DEF Calm, NoKillBetween, KillUnderWay
<1>5. EachIsShown'
  BY <1>1, <1>2, <1>3, CellFacts DEF Calm, EachIsShown, OnField, Shows
<1>6. ShownIsThere' /\ OneOnACell'
  BY <1>1, <1>3, CellFacts, Codes DEF Calm, ShownIsThere, OneOnACell, OnField
<1>7. BlastSwept'
  BY <1>1 DEF BlastSwept
<1>8. BombsListed'
  BY <1>1, <1>3, CellFacts DEF Calm, BombsListed
<1> QED
  BY <1>4, <1>5, <1>6, <1>7, <1>8 DEF Calm

LEMMA CalmListBomb ==
  ASSUME TypeOK, ControlInv, Calm, ListBomb, ~KillUnderWay
  PROVE  Calm'
<1> DEFINE bomb == [cell |-> AsBytes(position[cursor]), player |-> cursor,
                    seconds |-> BOMB_TIME_TO_EXPLODE_SECONDS]
<1>1. /\ UNCHANGED <<grid, position, tcp, leaving>>
      /\ pc = "list" /\ pc' = "move" /\ cursor \in Players
      /\ bombs' = Append(bombs, bomb)
  BY DEF ListBomb, ControlInv, leave
<1>2. NoKillBetween'
  BY <1>1 DEF Calm, NoKillBetween
<1>3. EachIsShown' /\ ShownIsThere' /\ OneOnACell'
  BY <1>1 DEF Calm, EachIsShown, ShownIsThere, OneOnACell, OnField, Departing, Shows
<1>4. BlastSwept'
  BY <1>1 DEF BlastSwept
<1>5. bomb.cell = AsBytes(position[cursor])
  OBVIOUS
<1> HIDE DEF bomb
<1>6. /\ \A i \in DOMAIN bombs : i \in DOMAIN bombs' /\ bombs'[i] = bombs[i]
      /\ \E i \in DOMAIN bombs' : bombs'[i] = bomb
  BY <1>1, FieldTypes
<1>7. BombsListed'
  <2> SUFFICES ASSUME NEW c \in Cells, grid[c] = BOMB
               PROVE  \E i \in DOMAIN bombs' : bombs'[i].cell = c
    BY <1>1 DEF BombsListed
  <2>1. CASE \E i \in DOMAIN bombs : bombs[i].cell = c
    BY <1>6, <2>1
  <2>2. CASE position[cursor] = c
    BY <1>5, <1>6, <2>2, AsBytesFacts
  <2> QED
    BY <2>1, <2>2 DEF Calm, BombsListed
<1> QED
  BY <1>2, <1>3, <1>4, <1>7 DEF Calm

-----------------------------------------------------------------------------
(* explode_bombs before and after a blast.                                 *)
LEMMA CalmCountDown ==
  ASSUME Calm, CountDown \/ Ignite
  PROVE  Calm'
<1>1. /\ UNCHANGED <<grid, position, tcp, leaving>>
      /\ pc = "bombs" /\ (pc' = "bombs" \/ (pc' = "blast" /\ blast' = 1))
  BY DEF CountDown, Ignite, leave
<1>2. PICK n : bombs' = [bombs EXCEPT ![cursor].seconds = n]
  BY DEF CountDown, Ignite
<1>3. DOMAIN bombs' = DOMAIN bombs /\ \A i \in DOMAIN bombs : bombs'[i].cell = bombs[i].cell
  BY <1>2, BombCells
<1>4. NoKillBetween'
  BY <1>1 DEF Calm, NoKillBetween
<1>5. EachIsShown' /\ ShownIsThere' /\ OneOnACell'
  BY <1>1 DEF Calm, EachIsShown, ShownIsThere, OneOnACell, OnField, Departing, Shows
<1>6. \A k \in Near : ~(k < 1)
  BY DEF Near, Nearest
<1>7. BlastSwept'
  BY <1>1, <1>6 DEF BlastSwept
<1>8. BombsListed'
  BY <1>1, <1>3 DEF Calm, BombsListed
<1> QED
  BY <1>4, <1>5, <1>7, <1>8 DEF Calm

LEMMA CalmFizzle ==
  ASSUME TypeOK, Calm, Fizzle
  PROVE  Calm'
<1>1. /\ UNCHANGED <<grid, position, tcp, leaving>>
      /\ pc = "bombs" /\ pc' = "bombs" /\ cursor \in DOMAIN bombs
      /\ bombs' = RemoveAt(bombs, cursor)
      /\ ~Shown(bombs[cursor])
  BY DEF Fizzle, leave
<1>2. NoKillBetween' /\ BlastSwept'
  BY <1>1 DEF Calm, NoKillBetween, BlastSwept
<1>3. EachIsShown' /\ ShownIsThere' /\ OneOnACell'
  BY <1>1 DEF Calm, EachIsShown, ShownIsThere, OneOnACell, OnField, Departing, Shows
<1>4. \A j \in DOMAIN bombs : j # cursor => \E k \in DOMAIN bombs' : bombs'[k] = bombs[j]
  BY <1>1, FieldTypes, RemovedFrom
<1>5. BombsListed'
  BY <1>1, <1>4 DEF Calm, BombsListed, Shown
<1> QED
  BY <1>2, <1>3, <1>5 DEF Calm

(* The end of a blast, which has left nobody on the cell of the bomb.      *)
LEMMA CalmEndBlast ==
  ASSUME TypeOK, ControlInv, Calm, EndBlast, ~KillUnderWay
  PROVE  Calm'
<1> DEFINE c0 == bombs[cursor].cell
<1>1. /\ UNCHANGED <<position, tcp, leaving>>
      /\ pc = "blast" /\ blast = ReachEnd /\ pc' = "bombs" /\ cursor \in DOMAIN bombs
      /\ c0 \in Cells /\ c0 \in Positions
      /\ grid' = [grid EXCEPT ![c0] = exploded[c0]]
      /\ bombs' = RemoveAt(bombs, cursor)
  BY CellFacts DEF EndBlast, ControlInv, leave
<1>2. Reached(c0, 1) = c0
  <2>1. c0[1] \in Int /\ c0[2] \in Int /\ c0 = <<c0[1], c0[2]>>
    BY <1>1, BoardAssumption DEF Cells
  <2> QED
    BY <2>1, ReachFacts DEF Reached
<1> HIDE DEF c0
<1>3. exploded[c0] \in {EMPTY_CELL, EXPLODED_BY_BOMB}
  BY <1>1, FieldTypes
<1>4. \A c \in Positions : grid'[c] = IF c = c0 THEN exploded[c0] ELSE grid[c]
  BY <1>1, FieldTypes
<1>5. \A q \in Players : ~Departing(q) /\ ~Departing(q)'
  BY <1>1 DEF KillUnderWay, Departing
<1>6. \A q \in Players : OnField(q) => position[q] # c0
  <2>1. 1 \in Near /\ 1 < blast
    BY <1>1 DEF Near, ReachEnd
  <2> QED
    BY <1>1, <1>2, <1>5, <2>1 DEF Calm, BlastSwept, c0
<1>7. NoKillBetween' /\ BlastSwept'
  BY <1>1 DEF Calm, NoKillBetween, BlastSwept
<1>8. EachIsShown'
  BY <1>1, <1>4, <1>5, <1>6, CellFacts DEF Calm, EachIsShown, OnField, Shows
<1>9. ShownIsThere' /\ OneOnACell'
  BY <1>1, <1>3, <1>4, CellFacts, Codes DEF Calm, ShownIsThere, OneOnACell, OnField
<1>10. \A j \in DOMAIN bombs : j # cursor => \E k \in DOMAIN bombs' : bombs'[k] = bombs[j]
  BY <1>1, FieldTypes, RemovedFrom
<1>11. BombsListed'
  <2> SUFFICES ASSUME NEW c \in Cells, grid'[c] = BOMB
               PROVE  \E k \in DOMAIN bombs' : bombs'[k].cell = c
    BY <1>1 DEF BombsListed
  <2>1. c # c0 /\ grid[c] = BOMB
    BY <1>3, <1>4, CellFacts, Codes
  <2>2. PICK i \in DOMAIN bombs : bombs[i].cell = c
    BY <1>1, <2>1 DEF Calm, BombsListed
  <2>3. i # cursor
    BY <2>1, <2>2 DEF c0
  <2> QED
    BY <1>10, <2>2, <2>3
<1> QED
  BY <1>7, <1>8, <1>9, <1>11 DEF Calm

-----------------------------------------------------------------------------
(* A blast, cell by cell.                                                  *)
VisitCell == BreakWall \/ KillPlayers \/ BlastNothing

(* The loop goes on to the next cell, or skips the second one of a         *)
(* direction.                                                              *)
LEMMA NextInReachSkips ==
  ASSUME blast \in DOMAIN Reach
  PROVE  /\ blast \in Nat
         /\ NextInReach \in {blast + 1, blast + 2}
         /\ NextInReach = blast + 2 => blast \in Nearest
         /\ NextInReach = blast + 1 /\ blast \in Nearest =>
              BlastCell \in Cells /\ grid[BlastCell] \notin Walls
         /\ \A k \in Near : k < NextInReach => k < blast \/ k = blast
         /\ NextInReach - 1 \in Nearest => NextInReach = blast + 1
<1>1. blast \in 1..13
  BY ReachFacts
<1>2. /\ NextInReach \in {blast + 1, blast + 2}
      /\ NextInReach = blast + 2 => blast \in Nearest
      /\ NextInReach = blast + 1 /\ blast \in Nearest =>
           BlastCell \in Cells /\ grid[BlastCell] \notin Walls
  <2>1. blast + 1 # blast + 2
    BY <1>1
  <2> QED
    BY <2>1 DEF NextInReach
<1>3. \A k \in Near : k < NextInReach => k < blast \/ k = blast
  BY <1>1, <1>2 DEF Near, Nearest
<1>4. NextInReach - 1 \in Nearest => NextInReach = blast + 1
  BY <1>1, <1>2 DEF Nearest
<1> QED
  BY <1>1, <1>2, <1>3, <1>4

LEMMA SweptGrows ==
  ASSUME Calm, pc = "blast", blast \in DOMAIN Reach, blast' = NextInReach,
         UNCHANGED <<bombs, cursor, tcp>>,
         \A p \in Players : OnField(p)' => position'[p] = position[p] /\ OnField(p),
         \A p \in Players : OnField(p)' /\ ~Departing(p)' => position'[p] # BlastCell
  PROVE  BlastSwept'
<1> SUFFICES ASSUME NEW p \in Players, NEW k \in Near, k < blast', OnField(p)', ~Departing(p)'
             PROVE  position'[p] # Reached(bombs[cursor].cell, k)
  BY DEF BlastSwept
<1>1. ~Departing(p) /\ OnField(p) /\ position'[p] = position[p]
  BY DEF Departing
<1>2. k < blast \/ k = blast
  BY NextInReachSkips
<1>3. CASE k < blast
  BY <1>1, <1>3 DEF Calm, BlastSwept
<1>4. CASE k = blast
  BY <1>4 DEF BlastCell
<1> QED
  BY <1>2, <1>3, <1>4

(* Whom a blast kills on a cell is there, and whoever is there is killed.  *)
LEMMA PlayersAtCell ==
  ASSUME Calm, NEW c \in Cells
  PROVE  /\ \A p \in PlayersAt(c) : p \in Players /\ position[p] = c
         /\ \A p \in Players : position[p] = c /\ ~Departing(p) => p \in PlayersAt(c)
BY DEF Calm, ShownIsThere, EachIsShown, OnField, Shows, PlayersAt

LEMMA CalmBreakWall ==
  ASSUME TypeOK, Calm, BreakWall, ~KillUnderWay
  PROVE  Calm'
<1>1. /\ UNCHANGED <<position, tcp, leaving, bombs, cursor, pc>>
      /\ pc = "blast" /\ blast \in DOMAIN Reach /\ blast' = NextInReach
      /\ BlastCell \in Cells /\ grid[BlastCell] = DESTRUCTIBLE_WALL
      /\ grid' = [grid EXCEPT ![BlastCell] = EXPLODED_BY_BOMB]
  BY DEF BreakWall, leave
<1>2. \A q \in Players : ~Departing(q) /\ ~Departing(q)'
  BY <1>1 DEF KillUnderWay, Departing
<1>3. \A c \in Positions : grid'[c] = IF c = BlastCell THEN EXPLODED_BY_BOMB ELSE grid[c]
  BY <1>1, FieldTypes
<1>4. \A q \in Players : OnField(q) => position[q] # BlastCell
  BY <1>1, <1>2, Codes DEF Calm, EachIsShown, Shows
<1>5. NoKillBetween'
  BY <1>1 DEF Calm, NoKillBetween
<1>6. EachIsShown'
  BY <1>1, <1>2, <1>3, <1>4, CellFacts DEF Calm, EachIsShown, OnField, Shows
<1>7. ShownIsThere' /\ OneOnACell'
  BY <1>1, <1>3, CellFacts, Codes DEF Calm, ShownIsThere, OneOnACell, OnField
<1>8. BlastSwept'
  BY <1>1, <1>4, SweptGrows DEF OnField
<1>9. BombsListed'
  BY <1>1, <1>3, CellFacts, Codes DEF Calm, BombsListed
<1> QED
  BY <1>5, <1>6, <1>7, <1>8, <1>9 DEF Calm

LEMMA CalmKillPlayers ==
  ASSUME TypeOK, Calm, KillPlayers, ~KillUnderWay
  PROVE  Calm'
<1> DEFINE victims == PlayersAt(BlastCell)
<1>1. /\ UNCHANGED <<tcp, leaving, bombs, cursor, pc>>
      /\ pc = "blast" /\ blast \in DOMAIN Reach /\ blast' = NextInReach
      /\ BlastCell \in Cells
      /\ grid' = [c \in Positions |-> IF \E p \in victims : position[p] = c
                                      THEN EMPTY_CELL ELSE grid[c]]
      /\ position' = [p \in Players |-> IF p \in victims THEN Off ELSE position[p]]
  BY DEF KillPlayers, leave
<1>2. \A q \in Players : ~Departing(q) /\ ~Departing(q)'
  BY <1>1 DEF KillUnderWay, Departing
<1>3. /\ \A p \in victims : p \in Players /\ position[p] = BlastCell
      /\ \A p \in Players : position[p] = BlastCell => p \in victims
  BY <1>1, <1>2, PlayersAtCell
<1> HIDE DEF victims
<1>4. \A c \in Positions : grid'[c] = grid[c] \/ (c = BlastCell /\ grid'[c] = EMPTY_CELL)
  BY <1>1, <1>3
<1>5. \A q \in Players : position'[q] = position[q] \/ (q \in victims /\ position'[q] = Off)
  BY <1>1
<1>6. \A q \in Players : OnField(q)' => q \notin victims /\ position'[q] = position[q] /\ OnField(q)
                                        /\ position[q] # BlastCell
  BY <1>1, <1>3, CellFacts DEF OnField
<1>7. NoKillBetween'
  BY <1>1 DEF KillUnderWay, NoKillBetween
<1>8. EachIsShown'
  BY <1>2, <1>4, <1>6, CellFacts DEF Calm, EachIsShown, OnField, Shows
<1>9. ShownIsThere'
  <2> SUFFICES ASSUME NEW q \in Players, NEW c \in Cells, grid'[c] = ENCODE_PLAYER(q)
               PROVE  position'[q] = c
    BY DEF ShownIsThere
  <2>1. grid[c] = ENCODE_PLAYER(q)
    BY <1>4, CellFacts, Codes
  <2>2. position[q] = c
    BY <2>1 DEF Calm, ShownIsThere
  <2>3. q \notin victims
    BY <1>1, <2>2, CellFacts, Codes
  <2> QED
    BY <1>5, <2>2, <2>3
<1>10. OneOnACell'
  BY <1>6 DEF Calm, OneOnACell, OnField
<1>11. BlastSwept'
  BY <1>1, <1>6, SweptGrows
<1>12. BombsListed'
  BY <1>1, <1>4, CellFacts, Codes DEF Calm, BombsListed
<1> QED
  BY <1>7, <1>8, <1>9, <1>10, <1>11, <1>12 DEF Calm

LEMMA CalmBlastNothing ==
  ASSUME TypeOK, Calm, BlastNothing
  PROVE  Calm'
<1>1. /\ UNCHANGED <<grid, position, tcp, leaving, bombs, cursor, pc>>
      /\ pc = "blast" /\ blast \in DOMAIN Reach /\ blast' = NextInReach
      /\ BlastCell \in Cells => PlayersAt(BlastCell) = {}
  BY DEF BlastNothing, board, leave
<1>2. NoKillBetween'
  BY <1>1 DEF Calm, NoKillBetween
<1>3. EachIsShown' /\ ShownIsThere' /\ OneOnACell' /\ BombsListed'
  BY <1>1 DEF Calm, EachIsShown, ShownIsThere, OneOnACell, OnField, Departing, Shows, BombsListed
<1>4. \A p \in Players : OnField(p) /\ ~Departing(p) => position[p] # BlastCell
  BY <1>1, PlayersAtCell DEF OnField
<1>5. BlastSwept'
  BY <1>1, <1>4, SweptGrows DEF OnField, Departing
<1> QED
  BY <1>2, <1>3, <1>5 DEF Calm

-----------------------------------------------------------------------------
(* Every step that ends without a race keeps the field calm.               *)
LEMMA NextField ==
  ASSUME TypeOK, ControlInv, FieldInv, [Next]_vars
  PROVE  FieldInv'
<1> SUFFICES ASSUME ~raced'
             PROVE  Calm'
  BY DEF FieldInv
<1>0. Calm
  BY RaceIsSeen DEF FieldInv
<1>1. CASE UNCHANGED vars \/ Freed
  BY <1>0, <1>1, CalmElsewhere DEF Freed, vars, board, loops, leave
<1>2. CASE Receiver
  BY <1>0, <1>2, CalmElsewhere DEF Receiver, ReceiveAction, BufferAction, board, loops, leave
<1>3. CASE BeginPass \/ StayInPlace \/ KeepBomb \/ EndPass
  BY <1>0, <1>3, CalmElsewhere DEF BeginPass, StayInPlace, KeepBomb, EndPass, board, loops, leave
<1>4. CASE FinishTest \/ FinishMatch \/ EndBombs
  BY <1>0, <1>4, CalmElsewhere
  DEF FinishTest, CountPlayer, Decide, FinishMatch, EndBombs, board, loops, leave
<1>5. CASE WorksOnField
  BY <1>0, <1>5, RaceIsSeen, CalmBeginMove, CalmMovePlayer, CalmPlaceBomb, CalmListBomb,
     CalmBreakWall, CalmKillPlayers, CalmEndBlast DEF WorksOnField
<1>6. CASE CountDown \/ Ignite \/ Fizzle \/ BlastNothing
  BY <1>0, <1>6, CalmCountDown, CalmFizzle, CalmBlastNothing
<1>7. ASSUME NEW p \in Players, Leave(p) \/ KillPlayer(p)
      PROVE  Calm'
  <2>1. Leave(p) => pc \notin {"walk", "list"}
    BY RaceIsSeen
  <2> QED
    BY <1>0, <1>7, <2>1, CalmLeave, CalmErase, CalmMarkAndUnplace DEF KillPlayer
<1> QED
  BY <1>1, <1>2, <1>3, <1>4, <1>5, <1>6, <1>7
  DEF Next, Updater, Pass, ExplodeBombs, WorksOnField

(* Walls stop a blast for good: none is built behind its back.             *)
LEMMA NextBlast ==
  ASSUME TypeOK, ControlInv, WallInv, BlastInv, [Next]_vars
  PROVE  BlastInv'
<1> SUFFICES ASSUME pc' = "blast", blast' - 1 \in Nearest
             PROVE  LET c == Reached(bombs'[cursor'].cell, blast' - 1)
                    IN c \in Cells /\ grid'[c] \notin Walls
  BY DEF BlastInv
<1>1. \A c \in Cells : grid[c] \notin Walls => grid'[c] \notin Walls
  BY NextWalls DEF WallsFall
<1>2. ASSUME pc = "blast", UNCHANGED <<bombs, cursor, blast>>
      PROVE  LET c == Reached(bombs'[cursor'].cell, blast' - 1)
             IN c \in Cells /\ grid'[c] \notin Walls
  BY <1>1, <1>2 DEF BlastInv
<1>3. CASE VisitCell
  <2>1. /\ UNCHANGED <<bombs, cursor>>
        /\ blast \in DOMAIN Reach /\ blast' = NextInReach
    BY <1>3 DEF VisitCell, BreakWall, KillPlayers, BlastNothing, board
  <2>2. blast' = blast + 1 /\ blast \in Nat
    BY <2>1, NextInReachSkips
  <2>3. blast' - 1 = blast
    BY <2>2
  <2>4. BlastCell \in Cells /\ grid[BlastCell] \notin Walls
    BY <2>1, <2>2, <2>3, NextInReachSkips
  <2> QED
    BY <1>1, <2>1, <2>3, <2>4 DEF BlastCell
<1>4. CASE Ignite
  BY <1>4 DEF Ignite, Nearest
<1>5. CASE UNCHANGED vars \/ Freed \/ Receiver
  BY <1>2, <1>5 DEF Freed, Receiver, ReceiveAction, BufferAction, vars, board, loops
<1>6. CASE Pass \/ FinishTest \/ FinishMatch
  BY <1>6 DEF Pass, BeginPass, BeginMove, StayInPlace, MovePlayer, PlaceBomb, ListBomb, KeepBomb,
     EndPass, FinishTest, CountPlayer, Decide, FinishMatch
<1>7. CASE CountDown \/ Fizzle \/ EndBlast \/ EndBombs
  BY <1>7 DEF CountDown, Fizzle, EndBlast, EndBombs
<1>8. ASSUME NEW p \in Players, Leave(p) \/ KillPlayer(p)
      PROVE  LET c == Reached(bombs'[cursor'].cell, blast' - 1)
             IN c \in Cells /\ grid'[c] \notin Walls
  BY <1>2, <1>8 DEF Leave, KillPlayer, EraseCell, MarkDead, Unplace, board, loops
<1> QED
  BY <1>3, <1>4, <1>5, <1>6, <1>7, <1>8 DEF Next, Updater, ExplodeBombs, VisitCell

-----------------------------------------------------------------------------
(* All parts of the invariant, for every step.                             *)
FieldAlways == TypeOK /\ ControlInv /\ WallInv /\ FieldInv /\ BlastInv

LEMMA FieldIsInvariant == Spec => []FieldAlways
<1>1. Init => FieldAlways
  BY InitType, InitWalls, InitField DEF FieldAlways, FieldInv
<1>2. FieldAlways /\ [Next]_vars => FieldAlways'
  BY NextType, NextWalls, NextField, NextBlast DEF FieldAlways
<1> QED
  BY <1>1, <1>2, PTL DEF Spec

(* Grid and positions agree: the updater's steps, whatever they do under   *)
(* bombs and in blasts, and every kill_player that meets none of them keep *)
(* players_current_position and the grid in step.                          *)
THEOREM GridAndPositionsAgree == Spec => []PositionsMatchGrid
<1>1. FieldAlways => PositionsMatchGrid
  <2> SUFFICES ASSUME Calm
               PROVE  /\ \A p \in Players :
                           OnField(p) => \/ Shows(p)
                                         \/ Departing(p) /\ grid[position[p]] = EMPTY_CELL
                      /\ \A p \in Players, c \in Cells : grid[c] = ENCODE_PLAYER(p) => position[p] = c
                      /\ \A p, q \in Players : OnField(p) /\ position[p] = position[q] => p = q
    BY DEF FieldAlways, FieldInv, PositionsMatchGrid
  <2> QED
    BY DEF Calm, EachIsShown, ShownIsThere, OneOnACell
<1> QED
  BY <1>1, FieldIsInvariant, PTL

(* Every bomb on the field is in the list, and so explodes: neither the    *)
(* end of another blast nor a death on a bomb's cell leaves one behind.    *)
THEOREM BombsShownAreListed == Spec => []NoDudOnField
<1>1. FieldAlways => NoDudOnField
  BY DEF FieldAlways, FieldInv, Calm, BombsListed, NoDudOnField
<1> QED
  BY <1>1, FieldIsInvariant, PTL

-----------------------------------------------------------------------------
(* Geometry of a blast.                                                    *)
LEMMA NextToBomb ==
  ASSUME NEW c \in Cells, NEW b \in Cells, Distance(c, b) <= 1
  PROVE  \E k \in Near : k < ReachEnd /\ c = Reached(b, k)
<1> DEFINE i == c[1] - b[1]
           j == c[2] - b[2]
<1>1. c = <<b[1] + i, b[2] + j>> /\ i \in Int /\ j \in Int
  BY BoardAssumption DEF Cells
<1>2. i \in -1..1 /\ j \in -1..1
  BY <1>1 DEF Distance
<1>3. ASSUME NEW k \in Near, Reach[k] = <<i, j>>
      PROVE  k < ReachEnd /\ c = Reached(b, k)
  BY <1>1, <1>3 DEF Reached, Near, Nearest, ReachEnd
<1>4. /\ {1, 2, 4, 6, 8, 10, 11, 12, 13} \subseteq Near
      /\ Reach[1] = <<0, 0>>
      /\ Reach[2] = <<-1, 0>> /\ Reach[4] = <<1, 0>>
      /\ Reach[6] = <<0, -1>> /\ Reach[8] = <<0, 1>>
      /\ Reach[10] = <<-1, -1>> /\ Reach[11] = <<-1, 1>>
      /\ Reach[12] = <<1, -1>> /\ Reach[13] = <<1, 1>>
  BY DEF Near, Nearest, Reach
<1> HIDE DEF i, j
<1>5. \E k \in Near : Reach[k] = <<i, j>>
  <2>1. (i = -1 \/ i = 0 \/ i = 1) /\ (j = -1 \/ j = 0 \/ j = 1)
    BY <1>2
  <2> QED
    BY <1>4, <2>1
<1> QED
  BY <1>3, <1>5

(* Nobody next to a bomb is alive on the field when its blast ends.        *)
THEOREM BlastKillsWhoIsNear == Spec => []NobodySurvivesNextToBlast
<1>1. ASSUME FieldAlways
      PROVE  NobodySurvivesNextToBlast
  <2> SUFFICES ASSUME ~raced, pc = "blast", blast = ReachEnd,
                      NEW p \in Players, OnField(p), ~Departing(p)
               PROVE  Distance(position[p], bombs[cursor].cell) > 1
    BY DEF NobodySurvivesNextToBlast
  <2> DEFINE b == bombs[cursor].cell
  <2>1. Calm /\ b \in Cells
    BY <1>1 DEF FieldAlways, FieldInv, ControlInv
  <2>2. \A k \in Near : k < ReachEnd => position[p] # Reached(b, k)
    BY <2>1 DEF Calm, BlastSwept
  <2>3. position[p] \in Cells
    BY DEF OnField
  <2> HIDE DEF b
  <2>4. ~(Distance(position[p], b) <= 1)
    BY <2>1, <2>2, <2>3, NextToBomb
  <2>5. Distance(position[p], b) \in Int
    BY <2>1, <2>3, BoardAssumption DEF Cells, Distance
  <2> QED
    BY <2>4, <2>5 DEF b
<1> QED
  BY <1>1, FieldIsInvariant, PTL

(* No cell a blast visits is sheltered from it.                            *)
LEMMA VisitedIsOpen ==
  ASSUME NEW b \in Cells, NEW k \in DOMAIN Reach, Reached(b, k) \in Cells,
         k - 1 \in Nearest => grid[Reached(b, k - 1)] \notin Walls
  PROVE  ~Sheltered(Reached(b, k), b)
<1> DEFINE i == Reach[k][1]
           j == Reach[k][2]
           c == Reached(b, k)
<1>1. b[1] \in Nat /\ b[2] \in Nat
  BY BoardAssumption DEF Cells
<1>2. k \in 1..13 /\ i \in -2..2 /\ j \in -2..2
  BY ReachFacts
<1>3. c[1] = b[1] + i /\ c[2] = b[2] + j
  BY DEF Reached
<1> HIDE DEF c, i, j
<1>4. Distance(c, b) <= 2 /\ Distance(c, b) \in Int
  BY <1>1, <1>2, <1>3 DEF Distance
<1>5. Distance(c, b) = 2 => i \in {-2, 2} \/ j \in {-2, 2}
  BY <1>1, <1>2, <1>3 DEF Distance
<1>6. ASSUME i \in {-2, 2} \/ j \in {-2, 2}
      PROVE  \E m, n \in Int :
               /\ k \in {3, 5, 7, 9} /\ (i = 0 \/ j = 0) /\ Reach[k - 1] = <<m, n>>
               /\ m + m = i /\ n + n = j
  <2>1. \/ k = 3 /\ i = -2 /\ j = 0
        \/ k = 5 /\ i = 2 /\ j = 0
        \/ k = 7 /\ i = 0 /\ j = -2
        \/ k = 9 /\ i = 0 /\ j = 2
    BY <1>2, <1>6 DEF Reach, i, j
  <2>2. /\ Reach[2] = <<-1, 0>> /\ Reach[4] = <<1, 0>>
        /\ Reach[6] = <<0, -1>> /\ Reach[8] = <<0, 1>>
    BY DEF Reach
  <2>3. CASE k = 3
    <3> WITNESS -1 \in Int, 0 \in Int
    <3> QED
      BY <2>1, <2>2, <2>3
  <2>4. CASE k = 5
    <3> WITNESS 1 \in Int, 0 \in Int
    <3> QED
      BY <2>1, <2>2, <2>4
  <2>5. CASE k = 7
    <3> WITNESS 0 \in Int, -1 \in Int
    <3> QED
      BY <2>1, <2>2, <2>5
  <2>6. CASE k = 9
    <3> WITNESS 0 \in Int, 1 \in Int
    <3> QED
      BY <2>1, <2>2, <2>6
  <2> QED
    BY <2>1, <2>3, <2>4, <2>5, <2>6
<1>7. CASE Distance(c, b) = 2
  <2>1. PICK m \in Int, n \in Int :
          /\ k \in {3, 5, 7, 9} /\ (i = 0 \/ j = 0) /\ Reach[k - 1] = <<m, n>>
          /\ m + m = i /\ n + n = j
    BY <1>5, <1>6, <1>7
  <2>2. c[1] = b[1] \/ c[2] = b[2]
    BY <1>1, <1>3, <2>1
  <2>3. Reached(b, k - 1) = <<b[1] + m, b[2] + n>>
    BY <2>1 DEF Reached
  <2>4. (c[1] + b[1]) \div 2 = b[1] + m /\ (c[2] + b[2]) \div 2 = b[2] + n
    <3>1. \A x \in Int : (x + x) \div 2 = x
      OBVIOUS
    <3>2. /\ c[1] + b[1] = (b[1] + m) + (b[1] + m) /\ b[1] + m \in Int
          /\ c[2] + b[2] = (b[2] + n) + (b[2] + n) /\ b[2] + n \in Int
      BY <1>1, <1>3, <2>1
    <3> QED
      BY <3>1, <3>2
  <2>5. grid[<<(c[1] + b[1]) \div 2, (c[2] + b[2]) \div 2>>] \notin Walls
    <3>1. k - 1 \in Nearest
      BY <2>1 DEF Nearest
    <3> QED
      BY <2>3, <2>4, <3>1
  <2> QED
    BY <1>4, <2>2, <2>5 DEF Sheltered, c
<1>8. CASE Distance(c, b) # 2
  BY <1>4, <1>8 DEF Sheltered, c
<1> QED
  BY <1>7, <1>8

(* A blast harms nobody beyond two cells, off its lines or behind a wall.  *)
THEOREM BlastReach == Spec => BlastsStayInReach
<1>1. ASSUME FieldAlways, [Next]_vars, pc = "blast", ~raced', NEW p \in Players,
             OnField(p), Sheltered(position[p], bombs[cursor].cell)
      PROVE  position'[p] = position[p] \/ tcp[p] = "unplace"
  <2>1. Calm /\ TypeOK /\ bombs[cursor].cell \in Cells
    BY <1>1, RaceIsSeen DEF FieldAlways, FieldInv, ControlInv
  <2>2. CASE KillPlayers
    <3>1. /\ blast \in DOMAIN Reach /\ BlastCell \in Cells
          /\ position' = [q \in Players |-> IF q \in PlayersAt(BlastCell) THEN Off ELSE position[q]]
      BY <2>2 DEF KillPlayers
    <3>2. blast - 1 \in Nearest => grid[Reached(bombs[cursor].cell, blast - 1)] \notin Walls
      BY <1>1 DEF FieldAlways, BlastInv
    <3>3. ~Sheltered(BlastCell, bombs[cursor].cell)
      BY <2>1, <3>1, <3>2, VisitedIsOpen DEF BlastCell
    <3>4. p \notin PlayersAt(BlastCell)
      BY <1>1, <2>1, <3>1, <3>3, PlayersAtCell
    <3> QED
      BY <3>1, <3>4
  <2>3. ASSUME NEW q \in Players, Unplace(q)
        PROVE  position'[p] = position[p] \/ tcp[p] = "unplace"
    BY <2>1, <2>3, FieldTypes DEF Unplace
  <2>4. UNCHANGED position \/ KillPlayers \/ \E q \in Players : Unplace(q)
    <3>1. CASE ExplodeBombs
      BY <3>1 DEF ExplodeBombs, CountDown, Fizzle, Ignite, BreakWall, BlastNothing, EndBlast,
         EndBombs, board
    <3>2. CASE Receiver \/ Freed \/ UNCHANGED vars
      BY <3>2 DEF Receiver, ReceiveAction, BufferAction, Freed, vars, board
    <3>3. CASE Pass \/ FinishTest \/ FinishMatch
      BY <1>1, <3>3 DEF Pass, BeginPass, BeginMove, StayInPlace, MovePlayer, PlaceBomb, ListBomb,
         KeepBomb, EndPass, FinishTest, CountPlayer, Decide, FinishMatch
    <3>4. ASSUME NEW q \in Players, Leave(q) \/ KillPlayer(q)
          PROVE  UNCHANGED position \/ Unplace(q)
      BY <3>4 DEF Leave, KillPlayer, EraseCell, MarkDead, board
    <3> QED
      BY <1>1, <3>1, <3>2, <3>3, <3>4 DEF Next, Updater
  <2> QED
    BY <2>2, <2>3, <2>4
<1> DEFINE Harmless ==
      pc = "blast" /\ ~raced' =>
        \A p \in Players :
          OnField(p) /\ Sheltered(position[p], bombs[cursor].cell)
            => position'[p] = position[p] \/ tcp[p] = "unplace"
<1>2. FieldAlways /\ [Next]_vars => [Harmless]_vars
  BY <1>1
<1> QED
  BY <1>2, FieldIsInvariant, PTL DEF Spec, BlastsStayInReach

-----------------------------------------------------------------------------
(* What Contest calls the living and the outcome.                          *)
Living == {p \in Players : status[p] = READY_TO_PLAY}

Outcome == IF Playing THEN NO_WINNER_YET ELSE result

-----------------------------------------------------------------------------
(* A match starts with somebody alive and nothing announced.               *)
LEMMA InitContest ==
  Init => CountInv /\ Referee!Init
<1> SUFFICES ASSUME NEW walls \in SUBSET (Interior \ Pillars), NEW left \in SUBSET Leavers,
                    NEW byte \in HeapBytes, left # Players, NEW late \in SUBSET left,
                    Start(walls, left, late, byte)
             PROVE  CountInv /\ Referee!Init
  BY DEF Init
<1>1. pc = "round" /\ Playing
  BY DEF Start, Playing
<1>2. Living # {}
  <2>1. PICK p \in Players : p \notin left
    BY MatchAssumption
  <2>2. status[p] = READY_TO_PLAY
    BY <2>1 DEF Start
  <2> QED
    BY <2>2 DEF Living
<1>3. Referee!Init
  BY <1>1, <1>2 DEF Referee!Init, Living
<1> QED
  BY <1>1, <1>3 DEF CountInv

(* Statuses change only to DEAD, in a blast or in kill_player.             *)
LEMMA LivingShrinks ==
  ASSUME TypeOK, [Next]_vars
  PROVE  \A p \in Players : status'[p] = READY_TO_PLAY => status[p] = READY_TO_PLAY
<1>1. CASE UNCHANGED status
  BY <1>1
<1>2. CASE KillPlayers
  BY <1>2 DEF KillPlayers, READY_TO_PLAY, DEAD
<1>3. ASSUME NEW p \in Players, MarkDead(p)
      PROVE  \A q \in Players : status'[q] = READY_TO_PLAY => status[q] = READY_TO_PLAY
  BY <1>3 DEF MarkDead, TypeOK, READY_TO_PLAY, DEAD
<1>4. UNCHANGED status \/ KillPlayers \/ \E p \in Players : MarkDead(p)
  <2>1. CASE Pass
    BY <2>1 DEF Pass, BeginPass, BeginMove, StayInPlace, MovePlayer, PlaceBomb, ListBomb, KeepBomb,
       EndPass, board
  <2>2. CASE FinishTest \/ FinishMatch \/ Freed \/ UNCHANGED vars
    BY <2>2 DEF FinishTest, CountPlayer, Decide, FinishMatch, Freed, vars, board
  <2>3. CASE ExplodeBombs
    BY <2>3 DEF ExplodeBombs, CountDown, Fizzle, Ignite, BreakWall, BlastNothing, EndBlast,
       EndBombs, board
  <2>4. CASE Receiver
    BY <2>4 DEF Receiver, ReceiveAction, BufferAction, board
  <2>5. ASSUME NEW p \in Players, Leave(p) \/ KillPlayer(p)
        PROVE  UNCHANGED status \/ MarkDead(p)
    BY <2>5 DEF Leave, KillPlayer, EraseCell, Unplace, board
  <2> QED
    BY <2>1, <2>2, <2>3, <2>4, <2>5 DEF Next, Updater
<1> QED
  BY <1>1, <1>2, <1>3, <1>4

(* What every step but those of should_finish_match and the start of its   *)
(* loop leaves alone.                                                      *)
Uncounted ==
  /\ pc' = "count" => pc = "count" /\ UNCHANGED <<cursor, alive>>
  /\ Playing' <=> Playing
  /\ ~Playing => UNCHANGED <<alive, result>>

LEMMA MostStepsUncounted ==
  ASSUME [Next]_vars
  PROVE  Uncounted \/ CountPlayer \/ Decide \/ EndPass
<1> USE DEF Uncounted, Playing
<1>1. CASE Pass
  BY <1>1 DEF Pass, BeginPass, BeginMove, StayInPlace, MovePlayer, PlaceBomb, ListBomb, KeepBomb
<1>2. CASE FinishTest \/ FinishMatch \/ Freed \/ UNCHANGED vars
  BY <1>2 DEF FinishTest, FinishMatch, Freed, vars, loops
<1>3. CASE ExplodeBombs
  BY <1>3 DEF ExplodeBombs, CountDown, Fizzle, Ignite, BreakWall, KillPlayers, BlastNothing,
     EndBlast, EndBombs, loops
<1>4. CASE Receiver
  BY <1>4 DEF Receiver, ReceiveAction, BufferAction, loops
<1>5. ASSUME NEW p \in Players, Leave(p) \/ KillPlayer(p)
      PROVE  Uncounted
  BY <1>5 DEF Leave, KillPlayer, EraseCell, MarkDead, Unplace, loops
<1> QED
  BY <1>1, <1>2, <1>3, <1>4, <1>5 DEF Next, Updater

(* Deaths without an announcement are a step of Contest, or none.          *)
LEMMA OnlyDeaths ==
  ASSUME TypeOK, [Next]_vars, Outcome' = Outcome
  PROVE  [Referee!Next]_(Referee!vars)
<1>1. Living' \subseteq Living
  BY LivingShrinks DEF Living
<1>2. \E casualties \in SUBSET Living : Living' = Living \ casualties
  <2> WITNESS Living \ Living' \in SUBSET Living
  <2> QED
    BY <1>1
<1> QED
  BY <1>2 DEF Referee!Next, Referee!Die, Living, Outcome

(* One step keeps the invariant of the count and is a step of Contest.     *)
LEMMA NextContest ==
  ASSUME TypeOK, ControlInv, CountInv, [Next]_vars
  PROVE  CountInv' /\ [Referee!Next]_(Referee!vars)
<1>0. \A p \in Players : status'[p] = READY_TO_PLAY => status[p] = READY_TO_PLAY
  BY LivingShrinks
<1>1. CASE Uncounted
  <2>1. CountInv'
    BY <1>0, <1>1 DEF Uncounted, CountInv
  <2>2. Outcome' = Outcome
    BY <1>1 DEF Uncounted, Outcome
  <2> QED
    BY <2>1, <2>2, OnlyDeaths
<1>2. CASE EndPass
  <2>1. /\ pc = "move" /\ pc' \in {"round", "count"} /\ cursor' = 0
        /\ Playing /\ Playing'
    BY <1>2 DEF EndPass, Playing
  <2>2. \A p \in Players : ~(p < 0)
    BY DEF Players
  <2> QED
    BY <2>1, <2>2, OnlyDeaths DEF CountInv, Outcome
<1>3. CASE CountPlayer
  <2>1. /\ pc = "count" /\ pc' = "count" /\ cursor \in Players /\ cursor' = cursor + 1
        /\ UNCHANGED status
        /\ alive' = IF status[cursor] = READY_TO_PLAY THEN alive \cup {cursor} ELSE alive
        /\ Playing /\ Playing'
    BY <1>3 DEF CountPlayer, Playing, board
  <2>2. \A p \in Players : p < cursor + 1 => p < cursor \/ p = cursor
    BY <2>1 DEF Players
  <2>3. CountInv'
    BY <2>1, <2>2 DEF CountInv
  <2>4. Outcome' = Outcome
    BY <2>1 DEF Outcome
  <2> QED
    BY <2>3, <2>4, OnlyDeaths
<1>4. CASE Decide
  <2>1. /\ pc = "count" /\ cursor = MaxPlayers /\ result' = FinishResult(alive)
        /\ pc' = IF result' = NO_WINNER_YET THEN "bombs" ELSE "finish"
        /\ UNCHANGED <<status, alive>>
        /\ Playing
    BY <1>4 DEF Decide, Playing, board
  <2>2. Living \subseteq alive /\ alive \subseteq Players
    <3>1. \A p \in Players : p < cursor
      BY <2>1, BoardAssumption DEF Players
    <3> QED
      BY <2>1, <3>1 DEF Living, CountInv, TypeOK
  <2>3. CountInv'
    <3>1. \A p \in Players : status'[p] = READY_TO_PLAY => p \in alive'
      BY <2>1, <2>2 DEF Living
    <3>2. pc' # "count" /\ (~Playing' => result' # NO_WINNER_YET)
      BY <2>1 DEF Playing
    <3> QED
      BY <2>1, <3>1, <3>2 DEF CountInv
  <2>4. CASE result' = NO_WINNER_YET
    <3>1. Outcome' = Outcome
      BY <2>1, <2>4 DEF Outcome, Playing
    <3> QED
      BY <2>3, <3>1, OnlyDeaths
  <2>5. CASE result' # NO_WINNER_YET
    <3>1. Outcome = NO_WINNER_YET /\ Outcome' = result' /\ Living' = Living
      BY <2>1, <2>5 DEF Outcome, Playing, Living
    <3>2. CASE result' = ALL_PLAYERS_ARE_DEAD
      <4>1. Living = {}
        BY <2>1, <2>2, <3>2, FinishResultFacts
      <4> QED
        BY <2>3, <3>1, <3>2, <4>1 DEF Referee!Next, Referee!Announce, Living, Outcome
    <3>3. CASE result' \in Players
      <4>1. \A p \in Living : [q \in Players |-> Side(q)][p] = result'
        BY <2>1, <2>2, <3>3, FinishResultFacts
      <4>2. result' \in {[q \in Players |-> Side(q)][p] : p \in Players}
        BY <2>1, <2>2, <3>3, FinishResultFacts
      <4>3. Referee!Unopposed(result') /\ result' \in Referee!Sides
        BY <4>1, <4>2 DEF Referee!Unopposed, Referee!Sides, Living
      <4> QED
        BY <2>3, <3>1, <4>3 DEF Referee!Next, Referee!Announce, Living, Outcome
    <3>4. result' \in Players \/ result' = ALL_PLAYERS_ARE_DEAD
      BY <2>1, <2>2, <2>5, FinishResultFacts
    <3> QED
      BY <3>2, <3>3, <3>4
  <2> QED
    BY <2>4, <2>5
<1> QED
  BY <1>1, <1>2, <1>3, <1>4, MostStepsUncounted

(* Every match keeps the promise of Contest to the players: kill_player    *)
(* only kills, and what finish_match announces is true when               *)
(* should_finish_match returns it.                                         *)
THEOREM MatchKeepsPromise == Spec => KeepsPromise
<1>1. Init => TypeOK /\ ControlInv /\ CountInv /\ Referee!Init
  BY InitType, InitContest
<1>2. TypeOK /\ ControlInv /\ CountInv /\ [Next]_vars => (TypeOK /\ ControlInv /\ CountInv)'
  BY NextType, NextContest
<1>3. TypeOK /\ ControlInv /\ CountInv /\ [Next]_vars => [Referee!Next]_(Referee!vars)
  BY NextContest
<1> QED
  BY <1>1, <1>2, <1>3, PTL DEF Spec, KeepsPromise, Referee!Spec

(* All of the inductive invariant, in every match.                         *)
THEOREM InvariantHolds == Spec => []Inductive
<1>1. Init => FieldAlways /\ CountInv
  BY InitType, InitWalls, InitField, InitContest DEF FieldAlways, FieldInv
<1>2. FieldAlways /\ CountInv /\ [Next]_vars => (FieldAlways /\ CountInv)'
  BY NextType, NextWalls, NextField, NextBlast, NextContest DEF FieldAlways
<1>3. FieldAlways /\ CountInv => Inductive
  BY DEF FieldAlways, Inductive
<1> QED
  BY <1>1, <1>2, <1>3, PTL DEF Spec

=============================================================================
