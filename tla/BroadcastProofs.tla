-------------------------- MODULE BroadcastProofs --------------------------
(***************************************************************************)
(* Whatever the network does to the packets and whoever leaves, a client's *)
(* board never shows what a cell has never been; and over a network that   *)
(* keeps packets and their order, it shows the grid once all are read: for *)
(* every match on a field as large as the one of serveur.c, or smaller.    *)
(***************************************************************************)
EXTENDS Broadcast, FieldProofs, FiniteSetTheorems

-----------------------------------------------------------------------------
(* Packets of the two kinds, and where the client keeps them.              *)
Packets ==
  [kind : {"partial"}, updates : Seq(UpdateEntries)]
    \cup [kind : {"full"}, cells : [Indexes -> CellCodes]]

BoardTypes ==
  /\ air \in Seq(Packets)
  /\ running \in BOOLEAN /\ init \in BOOLEAN
  /\ cells \in [Indexes -> CellCodes]
  /\ seen \in [Cells -> SUBSET CellCodes]

(* An update tells what its cell has been, or is about no cell: the        *)
(* position -1 a dead player walks from.                                   *)
Real(update) ==
  IF update.cell \in Cells THEN update.status \in seen[update.cell]
  ELSE update.cell = AsBytes(Off)

(* So does an array, about all cells.                                      *)
Faithful(array) == \A c \in Cells : array[Index(c[1], c[2])] \in seen[c]

RealPacket(packet) ==
  IF packet.kind = "full" THEN Faithful(packet.cells)
  ELSE \A i \in DOMAIN packet.updates : Real(packet.updates[i])

(* The history is up to date; and a bomb dropped in drop_bomb has been on  *)
(* the field by the time the update about it is written, unless its player *)
(* was killed meanwhile.                                                   *)
SeenInv ==
  /\ \A c \in Cells : grid[c] \in seen[c]
  /\ pc = "walk" => walk[1] # walk[2]
  /\ pc = "list" /\ position[cursor] \in Cells => BOMB \in seen[position[cursor]]

(* What is about to be sent, what is under way, what is shown.             *)
PendingInv ==
  /\ \A i \in DOMAIN movementUpdates : Real(movementUpdates[i])
  /\ \A i \in DOMAIN bombUpdates : Real(bombUpdates[i])

AirInv == \A i \in DOMAIN air : RealPacket(air[i])

ShownInv == init => Faithful(cells)

BoardInv == BoardTypes /\ SeenInv /\ PendingInv /\ AirInv /\ ShownInv

-----------------------------------------------------------------------------
(* Row and column are what division of an entry's number gives back.       *)
LEMMA Quotient ==
  ASSUME NEW h \in Nat, 1 <= h, NEW a \in Nat, a <= h - 1, NEW b \in Nat, b <= h - 1,
         NEW q \in Int, NEW r \in Int, 0 <= r, r <= h - 1, (a * h) + b = (q * h) + r
  PROVE  a = q /\ b = r
<1>1. \A x \in Int : 1 <= x => h <= x * h
  BY SMT
<1>2. a * h \in Int /\ q * h \in Int /\ (a - q) * h = (a * h) - (q * h)
        /\ (q - a) * h = (q * h) - (a * h)
  BY SMT
<1>3. ~(1 <= a - q)
  <2> SUFFICES ASSUME 1 <= a - q PROVE FALSE
    OBVIOUS
  <2>1. h <= (a - q) * h
    BY <1>1, a - q \in Int
  <2> QED BY <1>2, <2>1
<1>4. ~(1 <= q - a)
  <2> SUFFICES ASSUME 1 <= q - a PROVE FALSE
    OBVIOUS
  <2>1. h <= (q - a) * h
    BY <1>1, q - a \in Int
  <2> QED BY <1>2, <2>1
<1>5. a = q
  BY <1>3, <1>4
<1> QED BY <1>2, <1>5

LEMMA Entry ==
  ASSUME NEW h \in Nat, 1 <= h, NEW a \in 0..(h - 1), NEW b \in 0..(h - 1)
  PROVE  /\ (a * h) + b \in 0..((h * h) - 1)
         /\ ((a * h) + b) \div h = a
         /\ ((a * h) + b) % h = b
<1>1. a \in Nat /\ b \in Nat /\ a <= h - 1 /\ b <= h - 1
  OBVIOUS
<1>2. 0 <= a * h /\ a * h \in Int
  BY <1>1, SMT
<1>3. a * h <= (h * h) - h /\ h * h \in Int
  <2>1. 0 <= ((h - 1) - a) * h
    BY <1>1, SMT
  <2>2. ((h - 1) - a) * h = ((h * h) - h) - (a * h) /\ h * h \in Int
    BY <1>1, SMT
  <2> QED BY <1>2, <2>1, <2>2
<1> DEFINE n == (a * h) + b
<1>4. n \in Nat /\ n <= (h * h) - 1
  BY <1>1, <1>2, <1>3
<1> HIDE DEF n
<1>5. n \div h \in Int /\ n % h \in Int /\ 0 <= n % h /\ n % h <= h - 1
        /\ n = ((n \div h) * h) + (n % h)
  BY <1>4, SMT
<1>6. a = n \div h /\ b = n % h
  BY <1>1, <1>5, Quotient DEF n
<1> QED BY <1>3, <1>4, <1>6 DEF n

LEMMA RowAndColumn ==
  ASSUME NEW h \in Nat, 1 <= h, NEW n \in 0..((h * h) - 1)
  PROVE  n \div h \in 0..(h - 1) /\ n % h \in 0..(h - 1)
<1>1. n \in Nat /\ n < h * h /\ h * h \in Int
  BY SMT
<1>2. n \div h \in Int /\ n % h \in 0..(h - 1) /\ n = ((n \div h) * h) + (n % h) /\ 0 <= n \div h
  BY <1>1, SMT
<1> DEFINE q == n \div h
<1>3. ~(h <= q)
  <2> SUFFICES ASSUME h <= q PROVE FALSE
    OBVIOUS
  <2> HIDE DEF q
  <2>1. q \in Int /\ 0 <= (q - h) * h /\ (q - h) * h = (q * h) - (h * h) /\ q * h \in Int
    <3>1. q \in Int
      BY <1>2 DEF q
    <3> QED BY <3>1, SMT
  <2>2. n = (q * h) + (n % h) /\ 0 <= n % h
    BY <1>2 DEF q
  <2>3. n % h \in Int
    BY <1>2
  <2> QED BY <1>1, <2>1, <2>2, <2>3
<1> QED BY <1>2, <1>3

(* The client's array has one entry for each cell ...                      *)
LEMMA IndexFacts ==
  /\ \A c \in Cells : Index(c[1], c[2]) \in Indexes
  /\ \A c, d \in Cells : Index(c[1], c[2]) = Index(d[1], d[2]) => c = d
  /\ \A c \in Cells : <<Index(c[1], c[2]) \div Width, Index(c[1], c[2]) % Width>> = c
  /\ \A i \in Indexes : <<i \div Width, i % Width>> \in Cells
<1> DEFINE h == Height
<1>1. h \in Nat /\ 1 <= h /\ Width = h /\ Height = h
  BY BoardAssumption, BroadcastAssumption
<1> HIDE DEF h
<1>2. \A c \in Cells : c = <<c[1], c[2]>> /\ c[1] \in 0..(h - 1) /\ c[2] \in 0..(h - 1)
  BY <1>1, CellFacts
<1>3. \A c \in Cells : Index(c[1], c[2]) = (c[1] * h) + c[2]
  BY <1>1 DEF Index
<1>4. Indexes = 0..((h * h) - 1)
  BY <1>1 DEF Indexes
<1>5. \A c \in Cells : Index(c[1], c[2]) \in Indexes
  BY <1>1, <1>2, <1>3, <1>4, Entry
<1>6. \A c \in Cells : <<Index(c[1], c[2]) \div Width, Index(c[1], c[2]) % Width>> = c
  <2> TAKE c \in Cells
  <2>1. ((c[1] * h) + c[2]) \div h = c[1] /\ ((c[1] * h) + c[2]) % h = c[2]
    BY <1>1, <1>2, Entry
  <2> QED BY <1>1, <1>2, <1>3, <2>1, Zenon
<1>7. \A c, d \in Cells : Index(c[1], c[2]) = Index(d[1], d[2]) => c = d
  BY <1>6, Zenon
<1>8. \A i \in Indexes : <<i \div Width, i % Width>> \in Cells
  BY <1>1, <1>4, RowAndColumn DEF Cells
<1> QED BY <1>5, <1>6, <1>7, <1>8

(* ... and none for the position -1, on a field of at most 15 by 15.       *)
LEMMA OffTheBoard ==
  ASSUME Height <= 15
  PROVE  Index(AsBytes(Off)[1], AsBytes(Off)[2]) \notin Indexes
<1>1. (-1) % 256 = 255
  <2>1. \A x, q, r \in Int : x = -1 /\ 0 <= r /\ r <= 255 /\ x = (256 * q) + r => r = 255
    BY SMT
  <2>2. \A x \in Int : /\ x \div 256 \in Int /\ x % 256 \in Int
                       /\ 0 <= x % 256 /\ x % 256 <= 255 /\ x = (256 * (x \div 256)) + (x % 256)
    BY SMT
  <2>3. -1 \in Int
    OBVIOUS
  <2> QED BY <2>1, <2>2, <2>3, Zenon
<1>2. AsBytes(Off) = <<0, 255>>
  <2>1. AsBytes(Off) = <<0, (-1) % 256>>
    BY DEF AsBytes, Off
  <2> QED BY <1>1, <2>1, Zenon
<1>3. Height \in Int /\ 3 <= Height /\ Height <= 15 /\ Width = Height
  BY BoardAssumption, BroadcastAssumption
<1>4. Height * Width <= 225 /\ Height * Width \in Int
  <2>1. Height * Height <= 15 * Height
    BY <1>3, SMT
  <2> QED BY <1>3, <2>1, SMT
<1>5. Index(0, 255) = 255
  BY <1>3 DEF Index
<1> QED BY <1>2, <1>4, <1>5 DEF Indexes

(* One of the updates that hit an entry is the last: otherwise the numbers *)
(* up to some hit would map one to one to those of them that are not 1.    *)
LEMMA LastHit ==
  ASSUME NEW n \in Nat, NEW hits \in SUBSET (1..n), hits # {}
  PROVE  LET last == CHOOSE k \in hits : \A j \in hits : j <= k
         IN last \in hits /\ \A j \in hits : j <= last
<1> SUFFICES ASSUME \A k \in hits : \E j \in hits : ~(j <= k)
             PROVE  FALSE
  OBVIOUS
<1> DEFINE below == {k \in 1..n : \E j \in hits : k <= j}
           next  == [k \in below |-> k + 1]
<1>1. 1 \in below /\ below \subseteq 1..n
  <2>1. PICK j \in hits : TRUE
    OBVIOUS
  <2>2. j \in 1..n /\ 1 \in 1..n /\ 1 <= j
    OBVIOUS
  <2> QED BY <2>2
<1>2. \A k \in below : k + 1 \in below \ {1}
  <2> TAKE k \in below
  <2>1. PICK j \in hits : k <= j
    OBVIOUS
  <2>2. PICK i \in hits : ~(i <= j)
    OBVIOUS
  <2>3. k + 1 <= i /\ k + 1 \in 1..n
    BY <2>1, <2>2
  <2> QED BY <2>3
<1>3. next \in [below -> below \ {1}]
  BY <1>2
<1>4. IsFiniteSet(below) /\ IsFiniteSet(below \ {1}) /\ Cardinality(below \ {1}) = Cardinality(below) - 1
        /\ Cardinality(below) \in Nat
  <2>1. 1 \in Int /\ n \in Int
    OBVIOUS
  <2>2. IsFiniteSet(1..n)
    BY <2>1, FS_Interval, Zenon
  <2>3. IsFiniteSet(below)
    BY <1>1, <2>2, FS_Subset, Zenon
  <2> QED BY <1>1, <2>3, FS_RemoveElement, FS_CardinalityType, Zenon
<1>5. PICK x, y \in below : x # y /\ next[x] = next[y]
  <2>1. Cardinality(below \ {1}) < Cardinality(below)
    BY <1>4
  <2>2. \A S, T : \A f \in [S -> T] :
          IsFiniteSet(S) /\ IsFiniteSet(T) /\ Cardinality(T) < Cardinality(S) =>
            \E x, y \in S : x # y /\ f[x] = f[y]
    BY FS_PigeonHole, Zenon
  <2> HIDE DEF below, next
  <2> QED BY <1>3, <1>4, <2>1, <2>2, Zenon
<1> QED BY <1>5

-----------------------------------------------------------------------------
(* The match.  The history only grows, so that what was true stays so.     *)
Remembers == seen' = [c \in Cells |-> seen[c] \cup {grid'[c]}]

LEMMA HistoryGrows ==
  ASSUME TypeOK', BoardTypes, Remembers
  PROVE  /\ seen' \in [Cells -> SUBSET CellCodes]
         /\ \A c \in Cells : grid'[c] \in seen'[c] /\ seen[c] \subseteq seen'[c]
         /\ \A u : Real(u) => Real(u)'
         /\ \A b : Faithful(b) => Faithful(b)'
         /\ \A k : RealPacket(k) => RealPacket(k)'
<1>1. seen' \in [Cells -> SUBSET CellCodes]
  <2>1. \A c \in Cells : grid'[c] \in CellCodes
    BY CellFacts DEF TypeOK
  <2> QED BY <2>1 DEF Remembers, BoardTypes
<1>2. \A c \in Cells : grid'[c] \in seen'[c] /\ seen[c] \subseteq seen'[c]
  BY DEF Remembers
<1>3. \A u : Real(u) => Real(u)'
  BY <1>2 DEF Real
<1>4. \A b : Faithful(b) => Faithful(b)'
  BY <1>2 DEF Faithful
<1>5. \A k : RealPacket(k) => RealPacket(k)'
  BY <1>3, <1>4 DEF RealPacket
<1> QED BY <1>1, <1>2, <1>3, <1>4, <1>5

(* A step that leaves the updates alone, and walk and the place of the     *)
(* bomb being dropped while they are in use.                               *)
LEMMA UpdatesKept ==
  ASSUME TypeOK, TypeOK', BoardTypes, SeenInv, PendingInv, Remembers,
         UNCHANGED updates,
         pc' = "walk" => pc = "walk" /\ walk' = walk,
         pc' = "list" => /\ pc = "list" /\ cursor' = cursor
                         /\ position'[cursor] \in {position[cursor], Off}
  PROVE  SeenInv' /\ PendingInv'
<1>1. PendingInv'
  BY HistoryGrows DEF PendingInv, updates
<1>2. \A c \in Cells : grid'[c] \in seen'[c]
  BY HistoryGrows
<1>3. pc' = "walk" => walk'[1] # walk'[2]
  BY DEF SeenInv
<1>4. pc' = "list" /\ position'[cursor'] \in Cells => BOMB \in seen'[position'[cursor']]
  BY HistoryGrows, CellFacts DEF SeenInv
<1> QED BY <1>1, <1>2, <1>3, <1>4 DEF SeenInv

(* A movement leads somewhere else, also from position -1.                 *)
LEMMA TargetElsewhere ==
  ASSUME NEW c \in Positions, NEW a \in Movements
  PROVE  Target(c, a) # c
<1>1. c = <<c[1], c[2]>> /\ c[1] \in Int /\ c[2] \in Int
  BY CellFacts DEF Positions, Off
<1>2. Width \in Int /\ 3 <= Width
  BY BoardAssumption
<1>3. /\ Target(c, MOVE_NORTH) = <<c[1] - 1, c[2]>>
      /\ Target(c, MOVE_EAST) = <<c[1], c[2] + 1>>
      /\ Target(c, MOVE_SOUTH) = IF c = Off THEN <<0, Width - 1>> ELSE <<c[1] + 1, c[2]>>
      /\ Target(c, MOVE_WEST) = <<c[1], c[2] - 1>>
  BY DEF Target, MOVE_NORTH, MOVE_EAST, MOVE_SOUTH, MOVE_WEST
<1>4. \A x, y \in Int : x - 1 # x /\ y + 1 # y /\ x + 1 # x /\ y - 1 # y
  OBVIOUS
<1>5. CASE a = MOVE_NORTH
  BY <1>1, <1>3, <1>4, <1>5
<1>6. CASE a = MOVE_EAST
  BY <1>1, <1>3, <1>4, <1>6
<1>7. CASE a = MOVE_SOUTH
  <2>1. c = Off => <<0, Width - 1>> # c
    BY <1>2 DEF Off
  <2> QED BY <1>1, <1>3, <1>4, <1>7, <2>1
<1>8. CASE a = MOVE_WEST
  BY <1>1, <1>3, <1>4, <1>8
<1> QED BY <1>5, <1>6, <1>7, <1>8 DEF Movements

RealNext(update) ==
  IF update.cell \in Cells THEN update.status \in seen'[update.cell]
  ELSE update.cell = AsBytes(Off)

(* What an update says of a cell is what the step has made of it.          *)
LEMMA NewUpdate ==
  ASSUME NEW c \in Positions, NEW code, c \in Cells => code \in seen'[c]
  PROVE  RealNext(Update(c, code))
<1>1. CASE c \in Cells
  BY <1>1, AsBytesFacts DEF RealNext, Update
<1>2. CASE c \notin Cells
  <2>1. c = Off
    BY <1>2 DEF Positions
  <2> QED BY <2>1, AsBytesFacts DEF RealNext, Update
<1> QED BY <1>1, <1>2

(* Appending keeps what was there.                                         *)
LEMMA Appended ==
  ASSUME NEW S, NEW s \in Seq(S), NEW e
  PROVE  \A i \in DOMAIN Append(s, e) :
           Append(s, e)[i] = e \/ (i \in DOMAIN s /\ Append(s, e)[i] = s[i])
OBVIOUS

LEMMA AppendedTwo ==
  ASSUME NEW S, NEW s \in Seq(S), NEW d \in S, NEW e \in S
  PROVE  \A i \in DOMAIN (s \o <<d, e>>) :
           \/ (s \o <<d, e>>)[i] \in {d, e}
           \/ i \in DOMAIN s /\ (s \o <<d, e>>)[i] = s[i]
<1>1. <<d, e>> \in Seq(S) /\ Len(<<d, e>>) = 2 /\ Len(s) \in Nat
  BY LenProperties
<1>2. /\ Len(s \o <<d, e>>) = Len(s) + 2
      /\ \A i \in 1..(Len(s) + 2) :
           (s \o <<d, e>>)[i] = IF i <= Len(s) THEN s[i] ELSE <<d, e>>[i - Len(s)]
  BY <1>1, ConcatProperties
<1>3. DOMAIN (s \o <<d, e>>) = 1..(Len(s) + 2) /\ DOMAIN s = 1..Len(s)
  BY <1>1, <1>2, LenProperties, ConcatProperties
<1> QED BY <1>1, <1>2, <1>3

(* One step of the match.                                                  *)
LEMMA UpdatesStep ==
  ASSUME TypeOK, ControlInv, TypeOK', BoardTypes, SeenInv, PendingInv, Remembers, [Next]_vars
  PROVE  SeenInv' /\ PendingInv'
<1>1. CASE UNCHANGED vars
  BY <1>1, UpdatesKept DEF vars, updates, loops, board
<1>2. CASE BeginMove
  <2>1. position[cursor] \in Positions /\ movement[cursor] \in Movements
    BY <1>2 DEF BeginMove, MayMove, TypeOK, NotPending
  <2>2. walk'[1] # walk'[2] /\ pc' = "walk" /\ UNCHANGED <<board, updates>>
    BY <1>2, <2>1, TargetElsewhere DEF BeginMove
  <2>3. PendingInv'
    BY <2>2, HistoryGrows DEF PendingInv, updates
  <2> QED BY <2>2, <2>3, HistoryGrows DEF SeenInv
<1>3. CASE MovePlayer
  <2> DEFINE from == walk[1]
             to == walk[2]
             added == <<Update(from, LeftBehind(from)), Update(to, ENCODE_PLAYER(cursor))>>
  <2>1. /\ from \in Positions /\ to \in Cells /\ from # to /\ cursor \in Players
        /\ grid' = [grid EXCEPT ![from] = LeftBehind(from), ![to] = ENCODE_PLAYER(cursor)]
        /\ movementUpdates' = movementUpdates \o added
        /\ bombUpdates' = bombUpdates /\ pc' = "drop"
    BY <1>3 DEF MovePlayer, TypeOK, ControlInv, SeenInv
  <2>2. \A a, b : grid' = [grid EXCEPT ![from] = a, ![to] = b] => grid'[from] = a /\ grid'[to] = b
    BY <2>1, CellFacts DEF TypeOK
  <2>3. ASSUME NEW a, NEW b, a = LeftBehind(from), b = ENCODE_PLAYER(cursor)
        PROVE  SeenInv' /\ PendingInv'
    <3>1. grid'[from] = a /\ grid'[to] = b
      BY <2>1, <2>2, <2>3
    <3>2. \A c \in Positions : \A code :
            (c \in Cells => code \in seen'[c]) => RealNext(Update(c, code))
      BY NewUpdate
    <3>3. RealNext(Update(from, a)) /\ RealNext(Update(to, b))
      BY <2>1, <3>1, <3>2, HistoryGrows, CellFacts
    <3>4. movementUpdates' = movementUpdates \o <<Update(from, a), Update(to, b)>>
      BY <2>1, <2>3
    <3>5. \A i \in DOMAIN movementUpdates' :
            \/ movementUpdates'[i] \in {Update(from, a), Update(to, b)}
            \/ i \in DOMAIN movementUpdates /\ movementUpdates'[i] = movementUpdates[i]
      <4>1. LeftBehind(from) \in CellCodes /\ ENCODE_PLAYER(cursor) \in CellCodes
        BY <2>1, CodeFacts DEF TypeOK, LeftBehind
      <4>2. Update(from, a) \in UpdateEntries /\ Update(to, b) \in UpdateEntries
        BY <2>1, <2>3, <4>1, UpdateType, CellFacts
      <4> QED BY <3>4, <4>2, AppendedTwo DEF TypeOK
    <3>6. \A i \in DOMAIN movementUpdates' : RealNext(movementUpdates'[i])
      <4>1. \A i \in DOMAIN movementUpdates : RealNext(movementUpdates[i])
        BY HistoryGrows DEF PendingInv, Real, RealNext
      <4> QED BY <3>3, <3>5, <4>1
    <3> QED BY <2>1, <3>6, HistoryGrows DEF SeenInv, PendingInv, Real, RealNext
  <2> QED BY <2>3
<1>4. CASE PlaceBomb
  <2>1. /\ pc' = "list" /\ cursor' = cursor /\ position' = position
        /\ cursor \in Players /\ position[cursor] \in Positions
        /\ grid' = [grid EXCEPT ![position[cursor]] = BOMB] /\ UNCHANGED updates
    BY <1>4 DEF PlaceBomb, TypeOK, ControlInv, loops
  <2>2. grid'[position'[cursor']] = BOMB
    BY <2>1 DEF TypeOK
  <2>3. PendingInv'
    BY <2>1, HistoryGrows DEF PendingInv, updates
  <2> QED BY <2>1, <2>2, <2>3, HistoryGrows DEF SeenInv
<1>5. CASE ListBomb
  <2> DEFINE u == Update(position[cursor], BOMB)
  <2>1. /\ pc' = "move" /\ cursor \in Players /\ position[cursor] \in Positions
        /\ bombUpdates' = Append(bombUpdates, u)
        /\ movementUpdates' = movementUpdates
        /\ position[cursor] \in Cells => BOMB \in seen'[position[cursor]]
    BY <1>5, HistoryGrows DEF ListBomb, TypeOK, ControlInv, SeenInv
  <2>2. RealNext(u)
    BY <2>1, NewUpdate
  <2> HIDE DEF u
  <2>3. \A i \in DOMAIN bombUpdates' :
          bombUpdates'[i] = u \/ (i \in DOMAIN bombUpdates /\ bombUpdates'[i] = bombUpdates[i])
    BY <2>1, Appended DEF TypeOK
  <2>4. /\ \A i \in DOMAIN bombUpdates : RealNext(bombUpdates[i])
        /\ \A i \in DOMAIN movementUpdates : RealNext(movementUpdates[i])
    BY HistoryGrows DEF PendingInv, Real, RealNext
  <2>5. \A i \in DOMAIN bombUpdates' : RealNext(bombUpdates'[i])
    BY <2>2, <2>3, <2>4
  <2> QED BY <2>1, <2>4, <2>5, HistoryGrows DEF SeenInv, PendingInv, Real, RealNext
<1>6. CASE EndPass
  <2>1. pc' \in {"round", "count"} /\ movementUpdates' = <<>> /\ bombUpdates' = <<>>
    BY <1>6 DEF EndPass
  <2> QED BY <2>1, HistoryGrows DEF SeenInv, PendingInv
<1>7. CASE BeginPass \/ StayInPlace \/ KeepBomb \/ FinishTest \/ FinishMatch
  <2>1. UNCHANGED updates /\ pc' \notin {"walk", "list"}
    BY <1>7 DEF BeginPass, StayInPlace, KeepBomb, FinishTest, CountPlayer, Decide, FinishMatch
  <2> QED BY <2>1, UpdatesKept
<1>8. CASE ExplodeBombs
  <2>1. UNCHANGED updates /\ pc' \notin {"walk", "list"}
    BY <1>8 DEF ExplodeBombs, CountDown, Fizzle, Ignite, BreakWall, KillPlayers, BlastNothing,
       EndBlast, EndBombs
  <2> QED BY <2>1, UpdatesKept
<1>9. CASE Receiver
  <2>1. UNCHANGED <<updates, pc, loops, board>>
    BY <1>9 DEF Receiver, ReceiveAction, BufferAction
  <2> QED BY <2>1, UpdatesKept DEF loops, board
<1>10. CASE \E p \in Players : Leave(p) \/ KillPlayer(p)
  <2>1. PICK p \in Players : Leave(p) \/ KillPlayer(p)
    BY <1>10
  <2>2. /\ UNCHANGED <<updates, pc, loops>>
        /\ position' = position \/ position' = [position EXCEPT ![p] = Off]
    BY <2>1 DEF Leave, KillPlayer, EraseCell, MarkDead, Unplace, board
  <2>3. pc = "list" => position'[cursor] \in {position[cursor], Off}
    BY <2>2 DEF TypeOK, ControlInv
  <2> QED BY <2>2, <2>3, UpdatesKept DEF loops
<1> QED
  BY <1>1, <1>2, <1>3, <1>4, <1>5, <1>6, <1>7, <1>8, <1>9, <1>10 DEF Next, Updater, Pass, Freed

-----------------------------------------------------------------------------
(* The packets.  A step that leaves what they speak of alone.              *)
LEMMA PacketsKept ==
  ASSUME UNCHANGED seen
  PROVE  /\ \A b : Faithful(b) => Faithful(b)'
         /\ \A k : RealPacket(k) => RealPacket(k)'
BY DEF RealPacket, Faithful, Real

LEMMA TransmitKeeps ==
  ASSUME BoardTypes, AirInv, NEW packet \in Packets, RealPacket(packet), Transmit(packet)
  PROVE  air' \in Seq(Packets) /\ \A i \in DOMAIN air' : RealPacket(air'[i])
<1>1. CASE running
  <2>1. air' = Append(air, packet) /\ air \in Seq(Packets)
    BY <1>1 DEF Transmit, BoardTypes
  <2>2. \A i \in DOMAIN air' : air'[i] = packet \/ (i \in DOMAIN air /\ air'[i] = air[i])
    BY <2>1, Appended
  <2>3. air' \in Seq(Packets)
    BY <2>1
  <2> QED BY <2>2, <2>3 DEF AirInv
<1>2. CASE ~running
  BY <1>2 DEF Transmit, BoardTypes, AirInv
<1> QED BY <1>1, <1>2

(* The updates of a pass, as sent by process_partial_updates.              *)
LEMMA PartialIsReal ==
  ASSUME TypeOK, PendingInv
  PROVE  LET packet == [kind |-> "partial", updates |-> Updates]
         IN packet \in Packets /\ RealPacket(packet)
<1> DEFINE packet == [kind |-> "partial", updates |-> Updates]
<1>1. /\ movementUpdates \in Seq(UpdateEntries) /\ bombUpdates \in Seq(UpdateEntries)
      /\ Updates = movementUpdates \o bombUpdates
  BY DEF TypeOK, Updates
<1>2. Updates \in Seq(UpdateEntries)
  BY <1>1
<1>3. packet \in Packets
  BY <1>2 DEF Packets
<1>4. \A i \in DOMAIN Updates : \/ \E j \in DOMAIN movementUpdates : Updates[i] = movementUpdates[j]
                                \/ \E j \in DOMAIN bombUpdates : Updates[i] = bombUpdates[j]
  <2>1. /\ Len(Updates) = Len(movementUpdates) + Len(bombUpdates)
        /\ \A i \in 1..(Len(movementUpdates) + Len(bombUpdates)) :
             Updates[i] = IF i <= Len(movementUpdates) THEN movementUpdates[i]
                          ELSE bombUpdates[i - Len(movementUpdates)]
    BY <1>1, ConcatProperties
  <2>2. /\ Len(movementUpdates) \in Nat /\ Len(bombUpdates) \in Nat
        /\ DOMAIN movementUpdates = 1..Len(movementUpdates)
        /\ DOMAIN bombUpdates = 1..Len(bombUpdates)
        /\ DOMAIN Updates = 1..Len(Updates)
    BY <1>1, <1>2, LenProperties
  <2> QED BY <2>1, <2>2
<1>5. \A i \in DOMAIN Updates : Real(Updates[i])
  BY <1>4 DEF PendingInv
<1>6. packet.kind = "partial" /\ packet.updates = Updates
  OBVIOUS
<1>7. RealPacket(packet)
  <2> HIDE DEF packet
  <2> QED BY <1>5, <1>6 DEF RealPacket
<1> QED BY <1>3, <1>7

(* The grid, as sent by send_full_grid_to_all_players.                     *)
LEMMA FullShows ==
  ASSUME TypeOK
  PROVE  /\ FullGrid \in [Indexes -> CellCodes]
         /\ \A c \in Cells : FullGrid[Index(c[1], c[2])] = grid[c]
<1>1. FullGrid \in [Indexes -> CellCodes]
  BY IndexFacts, CellFacts DEF FullGrid, TypeOK
<1>2. \A c \in Cells : FullGrid[Index(c[1], c[2])] = grid[c]
  <2> TAKE c \in Cells
  <2>1. Index(c[1], c[2]) \in Indexes
    BY IndexFacts
  <2>2. FullGrid[Index(c[1], c[2])]
          = grid[<<Index(c[1], c[2]) \div Width, Index(c[1], c[2]) % Width>>]
    BY <2>1 DEF FullGrid
  <2> QED BY <2>2, IndexFacts, Zenon
<1> QED BY <1>1, <1>2

LEMMA FullIsReal ==
  ASSUME TypeOK, SeenInv
  PROVE  LET packet == [kind |-> "full", cells |-> FullGrid]
         IN packet \in Packets /\ RealPacket(packet)
<1> DEFINE packet == [kind |-> "full", cells |-> FullGrid]
<1>1. packet.kind = "full" /\ packet.cells = FullGrid /\ packet \in Packets
  BY FullShows DEF Packets
<1>2. Faithful(FullGrid)
  BY FullShows DEF Faithful, SeenInv
<1>3. RealPacket(packet)
  <2> HIDE DEF packet
  <2> QED BY <1>1, <1>2 DEF RealPacket
<1> QED BY <1>1, <1>3

(* What the network does to packets makes no others.                       *)
LEMMA NetworkKeeps ==
  ASSUME BoardTypes, AirInv, NEW i \in DOMAIN air, Lose(i) \/ Repeat(i) \/ Overtake(i)
  PROVE  air' \in Seq(Packets) /\ \A j \in DOMAIN air' : RealPacket(air'[j])
<1>0. /\ air \in Seq(Packets) /\ DOMAIN air = 1..Len(air) /\ Len(air) \in Nat
      /\ \A j \in DOMAIN air : air[j] \in Packets
  BY LenProperties, ElementOfSeq DEF BoardTypes
<1>1. CASE Lose(i)
  <2>1. /\ air' \in Seq(Packets)
        /\ \A k \in DOMAIN air' : \E j \in DOMAIN air : air'[k] = air[j]
    BY <1>0, <1>1, RemovedFrom DEF Lose
  <2> QED BY <2>1 DEF AirInv
<1>2. CASE Repeat(i)
  <2>1. air' = Append(air, air[i])
    BY <1>2 DEF Repeat
  <2>2. \A j \in DOMAIN air' : air'[j] = air[i] \/ (j \in DOMAIN air /\ air'[j] = air[j])
    BY <1>0, <2>1, Appended
  <2>3. air' \in Seq(Packets)
    BY <1>0, <2>1
  <2> QED BY <2>2, <2>3 DEF AirInv
<1>3. CASE Overtake(i)
  <2>1. i + 1 \in DOMAIN air /\ air' = [air EXCEPT ![i] = air[i + 1], ![i + 1] = air[i]]
    BY <1>3 DEF Overtake
  <2>2. /\ DOMAIN air' = DOMAIN air
        /\ \A j \in DOMAIN air : air'[j] \in {air[i], air[i + 1], air[j]}
    BY <2>1
  <2>3. air' \in Seq(Packets)
    <3>1. air' \in [1..Len(air) -> Packets]
      BY <1>0, <2>1
    <3> QED BY <1>0, <3>1, SeqDef
  <2> QED BY <2>1, <2>2, <2>3 DEF AirInv
<1> QED BY <1>1, <1>2, <1>3

(* A board redrawn by real updates shows what it did or what they tell.    *)
LEMMA RedrawnIsReal ==
  ASSUME Height <= 15, BoardTypes, Faithful(cells),
         NEW update \in Seq(UpdateEntries), \A k \in DOMAIN update : Real(update[k])
  PROVE  Redrawn(update) \in [Indexes -> CellCodes] /\ Faithful(Redrawn(update))
<1> DEFINE Hits(i) == {k \in DOMAIN update : Index(update[k].cell[1], update[k].cell[2]) = i}
           Latest(i) == CHOOSE k \in Hits(i) : \A j \in Hits(i) : j <= k
<1>0. /\ DOMAIN update = 1..Len(update) /\ Len(update) \in Nat
      /\ \A k \in DOMAIN update : update[k] \in UpdateEntries
  BY LenProperties, ElementOfSeq
<1>1. \A i : Hits(i) # {} => Latest(i) \in Hits(i)
  <2> TAKE i
  <2>1. Hits(i) \in SUBSET (1..Len(update))
    BY <1>0
  <2> HIDE DEF Hits
  <2> QED BY <1>0, <2>1, LastHit
<1>2. /\ Redrawn(update) = [i \in Indexes |-> Redrawn(update)[i]]
      /\ \A i \in Indexes : Redrawn(update)[i] =
           IF Hits(i) = {} THEN cells[i] ELSE update[Latest(i)].status
  BY DEF Redrawn
<1>3. \A i : \A k \in Hits(i) : k \in DOMAIN update /\ Index(update[k].cell[1], update[k].cell[2]) = i
  OBVIOUS
<1> HIDE DEF Hits, Latest
<1>4. \A i \in Indexes : Redrawn(update)[i] \in CellCodes
  <2> TAKE i \in Indexes
  <2>1. CASE Hits(i) = {}
    BY <1>2, <2>1 DEF BoardTypes
  <2>2. CASE Hits(i) # {}
    <3>1. Latest(i) \in DOMAIN update
      BY <1>1, <1>3, <2>2
    <3> QED BY <1>0, <1>2, <2>2, <3>1 DEF UpdateEntries
  <2> QED BY <2>1, <2>2
<1>5. \A c \in Cells : Redrawn(update)[Index(c[1], c[2])] \in seen[c]
  <2> TAKE c \in Cells
  <2> DEFINE i == Index(c[1], c[2])
  <2>1. i \in Indexes
    BY IndexFacts
  <2>2. CASE Hits(i) = {}
    BY <1>2, <2>1, <2>2 DEF Faithful
  <2>3. CASE Hits(i) # {}
    <3> DEFINE k == Latest(i)
    <3>1. k \in DOMAIN update /\ Index(update[k].cell[1], update[k].cell[2]) = i
      BY <1>1, <1>3, <2>3
    <3>2. Redrawn(update)[i] = update[k].status
      BY <1>2, <2>1, <2>3
    <3> HIDE DEF k
    <3>3. Real(update[k])
      BY <3>1
    <3>4. update[k].cell \in Cells
      <4>1. update[k].cell # AsBytes(Off)
        BY <2>1, <3>1, OffTheBoard
      <4> QED BY <3>3, <4>1 DEF Real
    <3>5. update[k].cell = c
      BY <3>1, <3>4, IndexFacts
    <3> QED BY <3>2, <3>3, <3>4, <3>5 DEF Real
  <2> QED BY <2>2, <2>3
<1>6. Redrawn(update) \in [Indexes -> CellCodes]
  BY <1>2, <1>4
<1> QED BY <1>5, <1>6 DEF Faithful

-----------------------------------------------------------------------------
LEMMA InitBoard ==
  BroadcastInit => BoardInv
<1> SUFFICES ASSUME BroadcastInit PROVE BoardInv
  OBVIOUS
<1>1. TypeOK
  BY InitType DEF BroadcastInit
<1>2. pc = "round" /\ movementUpdates = <<>> /\ bombUpdates = <<>>
  BY DEF BroadcastInit, Init, Start
<1>3. /\ air = <<>> /\ init = FALSE /\ running = TRUE
      /\ cells = [i \in Indexes |-> EMPTY_CELL] /\ seen = [c \in Cells |-> {grid[c]}]
  BY DEF BroadcastInit
<1>4. BoardTypes
  <2>1. \A c \in Cells : grid[c] \in CellCodes
    BY <1>1, CellFacts DEF TypeOK
  <2>2. air \in Seq(Packets)
    BY <1>3
  <2>3. cells \in [Indexes -> CellCodes]
    BY <1>3, CodeFacts
  <2>4. seen \in [Cells -> SUBSET CellCodes]
    BY <1>3, <2>1
  <2> QED BY <1>3, <2>2, <2>3, <2>4 DEF BoardTypes
<1> QED BY <1>2, <1>3, <1>4 DEF BoardInv, SeenInv, PendingInv, AirInv, ShownInv

(* Every step, the match's, the network's and the client's.                *)
LEMMA MatchStepBoard ==
  ASSUME TypeOK, ControlInv, BoardInv, MatchStep(Next)
  PROVE  TypeOK' /\ ControlInv' /\ BoardInv'
<1>1. /\ Next /\ Remembers /\ UNCHANGED <<running, init, cells>>
      /\ IF EndPass THEN SendPartial ELSE UNCHANGED air
  BY DEF MatchStep, Remembers, client
<1>2. TypeOK' /\ ControlInv'
  BY <1>1, NextType
<1>3. SeenInv' /\ PendingInv'
  BY <1>1, <1>2, UpdatesStep DEF BoardInv
<1>4. air' \in Seq(Packets) /\ \A i \in DOMAIN air' : RealPacket(air'[i])
  <2>1. CASE UNCHANGED air
    BY <2>1 DEF BoardInv, BoardTypes, AirInv
  <2>2. CASE Transmit([kind |-> "partial", updates |-> Updates])
    BY <2>2, PartialIsReal, TransmitKeeps DEF BoardInv
  <2> QED BY <1>1, <2>1, <2>2 DEF SendPartial
<1>5. BoardTypes'
  BY <1>1, <1>2, <1>4, HistoryGrows DEF BoardInv, BoardTypes
<1>6. AirInv'
  <2>1. \A k : RealPacket(k) => RealPacket(k)'
    BY <1>1, <1>2, HistoryGrows DEF BoardInv
  <2> QED BY <1>4, <2>1 DEF AirInv
<1>7. ShownInv'
  <2>1. \A b : Faithful(b) => Faithful(b)'
    BY <1>1, <1>2, HistoryGrows DEF BoardInv
  <2> QED BY <1>1, <2>1 DEF BoardInv, ShownInv
<1> QED BY <1>2, <1>3, <1>5, <1>6, <1>7 DEF BoardInv

LEMMA OtherStepsBoard ==
  ASSUME Height <= 15, TypeOK, ControlInv, BoardInv,
         \/ SendFull
         \/ \E i \in DOMAIN air : Lose(i) \/ Repeat(i) \/ Overtake(i)
         \/ Receive
  PROVE  TypeOK' /\ ControlInv' /\ BoardInv'
<1>1. UNCHANGED vars /\ UNCHANGED seen
  BY DEF SendFull, Lose, Repeat, Overtake, Fault, Receive, ReceiveFull, ReceivePartial, ReceiveEarly
<1>2. TypeOK' /\ ControlInv'
  BY <1>1, NextType
<1>3. SeenInv' /\ PendingInv'
  BY <1>1 DEF BoardInv, SeenInv, PendingInv, Real, vars, board, loops, updates
<1>4. (\A b : Faithful(b) => Faithful(b)') /\ (\A k : RealPacket(k) => RealPacket(k)')
  BY <1>1, PacketsKept
<1>5. ASSUME UNCHANGED client,
             air' \in Seq(Packets) /\ \A i \in DOMAIN air' : RealPacket(air'[i])
      PROVE  BoardInv'
  BY <1>1, <1>3, <1>4, <1>5 DEF BoardInv, BoardTypes, AirInv, ShownInv, client
<1>6. CASE SendFull
  <2>1. air' \in Seq(Packets) /\ \A i \in DOMAIN air' : RealPacket(air'[i])
    BY <1>6, FullIsReal, TransmitKeeps DEF SendFull, BoardInv
  <2>2. UNCHANGED client
    BY <1>6 DEF SendFull
  <2> QED BY <1>2, <1>5, <2>1, <2>2
<1>7. CASE \E i \in DOMAIN air : Lose(i) \/ Repeat(i) \/ Overtake(i)
  <2>1. air' \in Seq(Packets) /\ \A i \in DOMAIN air' : RealPacket(air'[i])
    BY <1>7, NetworkKeeps DEF BoardInv
  <2>2. UNCHANGED client
    BY <1>7 DEF Lose, Repeat, Overtake, Fault
  <2> QED BY <1>2, <1>5, <2>1, <2>2
<1>8. CASE Receive
  <2>1. air # <<>> /\ air \in Seq(Packets)
    BY <1>8 DEF Receive, ReceiveFull, ReceivePartial, ReceiveEarly, BoardInv, BoardTypes
  <2>2. /\ Head(air) \in Packets /\ RealPacket(Head(air))
        /\ Tail(air) \in Seq(Packets)
        /\ \A i \in DOMAIN Tail(air) : RealPacket(Tail(air)[i])
    <3>1. /\ 1 \in DOMAIN air /\ Head(air) = air[1] /\ Head(air) \in Packets
          /\ Tail(air) \in Seq(Packets)
          /\ \A i \in DOMAIN Tail(air) : i + 1 \in DOMAIN air /\ Tail(air)[i] = air[i + 1]
      BY <2>1, HeadTailProperties
    <3> QED BY <3>1 DEF BoardInv, AirInv
  <2>3. \/ air' = Tail(air) \/ air' = <<>>
    BY <1>8 DEF Receive, ReceiveFull, ReceivePartial, ReceiveEarly
  <2>4. air' \in Seq(Packets) /\ AirInv'
    <3>1. <<>> \in Seq(Packets) /\ DOMAIN <<>> = {}
      OBVIOUS
    <3>2. air' \in Seq(Packets) /\ \A i \in DOMAIN air' : RealPacket(air'[i])
      <4>1. CASE air' = <<>>
        BY <3>1, <4>1
      <4>2. CASE air' = Tail(air)
        BY <2>2, <4>2
      <4> QED BY <2>3, <4>1, <4>2
    <3> QED BY <1>4, <3>2 DEF AirInv
  <2>5. CASE ReceiveFull
    <3>1. Faithful(Head(air).cells) /\ Head(air).cells \in [Indexes -> CellCodes]
      BY <2>2, <2>5 DEF ReceiveFull, RealPacket, Packets
    <3>2. /\ cells' = Head(air).cells /\ init' = TRUE /\ running' = running
      BY <2>5 DEF ReceiveFull
    <3>3. BoardTypes' /\ ShownInv'
      BY <1>1, <1>4, <2>4, <3>1, <3>2 DEF BoardInv, BoardTypes, ShownInv
    <3> QED BY <1>2, <1>3, <2>4, <3>3 DEF BoardInv
  <2>6. CASE ReceivePartial
    <3>1. /\ Head(air).kind = "partial" /\ init /\ cells' = Redrawn(Head(air).updates)
          /\ init' = init /\ running' = running
      BY <2>6 DEF ReceivePartial
    <3>2. /\ Head(air).updates \in Seq(UpdateEntries)
          /\ \A k \in DOMAIN Head(air).updates : Real(Head(air).updates[k])
      BY <2>2, <3>1 DEF RealPacket, Packets
    <3>3. cells' \in [Indexes -> CellCodes] /\ Faithful(cells')
      BY <3>1, <3>2, RedrawnIsReal DEF BoardInv, ShownInv
    <3>4. BoardTypes' /\ ShownInv'
      BY <1>1, <1>4, <2>4, <3>1, <3>3 DEF BoardInv, BoardTypes, ShownInv
    <3> QED BY <1>2, <1>3, <2>4, <3>4 DEF BoardInv
  <2>7. CASE ReceiveEarly
    <3>1. running' = FALSE /\ UNCHANGED <<init, cells>>
      BY <2>7 DEF ReceiveEarly
    <3>2. BoardTypes' /\ ShownInv'
      BY <1>1, <1>4, <2>4, <3>1 DEF BoardInv, BoardTypes, ShownInv
    <3> QED BY <1>2, <1>3, <2>4, <3>2 DEF BoardInv
  <2> QED BY <1>8, <2>5, <2>6, <2>7 DEF Receive
<1> QED BY <1>6, <1>7, <1>8

LEMMA BoardStep ==
  ASSUME Height <= 15, TypeOK, ControlInv, BoardInv, [BroadcastNext]_broadcastVars
  PROVE  TypeOK' /\ ControlInv' /\ BoardInv'
<1>1. CASE UNCHANGED broadcastVars
  <2>1. TypeOK' /\ ControlInv'
    BY <1>1, NextType DEF broadcastVars
  <2>2. BoardInv'
    BY <1>1 DEF broadcastVars, client, vars, board, loops, updates, BoardInv, BoardTypes,
       SeenInv, PendingInv, AirInv, ShownInv, RealPacket, Faithful, Real
  <2> QED BY <2>1, <2>2
<1>2. CASE BroadcastNext
  BY <1>2, MatchStepBoard, OtherStepsBoard DEF BroadcastNext
<1> QED BY <1>1, <1>2

(* On a field of at most 15 by 15, where the position -1 of a dead player  *)
(* names no entry of the client's array, every cell of a board shows what  *)
(* that cell of the match is or has been, whatever packets are lost,       *)
(* repeated or overtaken, and whatever kill_player without the mutex does. *)
THEOREM BoardShowsWhatWas ==
  ASSUME Height <= 15
  PROVE  BroadcastSpec => []BoardIsReal
<1>1. BroadcastInit => TypeOK /\ ControlInv /\ BoardInv
  BY InitBoard, InitType DEF BroadcastInit
<1>2. TypeOK /\ ControlInv /\ BoardInv /\ [BroadcastNext]_broadcastVars
        => (TypeOK /\ ControlInv /\ BoardInv)'
  BY BoardStep
<1>3. BoardInv => BoardIsReal
  BY DEF BoardInv, ShownInv, Faithful, BoardIsReal, Drawn
<1> QED
  BY <1>1, <1>2, <1>3, PTL DEF BroadcastSpec

-----------------------------------------------------------------------------
(* What is proved of the steps of Match can be used here.                  *)
LEMMA StepIsMatch ==
  [BroadcastNext]_broadcastVars => [Next]_vars
<1> SUFFICES ASSUME [BroadcastNext]_broadcastVars PROVE [Next]_vars
  OBVIOUS
<1>1. CASE MatchStep(Next)
  BY <1>1 DEF MatchStep
<1>2. CASE SendFull \/ Receive \/ \E i \in DOMAIN air : Lose(i) \/ Repeat(i) \/ Overtake(i)
  BY <1>2 DEF SendFull, Lose, Repeat, Overtake, Fault, Receive, ReceiveFull, ReceivePartial,
     ReceiveEarly
<1>3. CASE UNCHANGED broadcastVars
  BY <1>3 DEF broadcastVars
<1> QED BY <1>1, <1>2, <1>3 DEF BroadcastNext

-----------------------------------------------------------------------------
(* The last word on a cell: what the board shows of it once everything     *)
(* that has been sent, and what this pass has still to send, has arrived.  *)
LastWord(us, c, v) ==
  \E k \in DOMAIN us :
    /\ us[k].cell = c /\ us[k].status = v
    /\ \A j \in DOMAIN us : k < j => us[j].cell # c

Silent(us, c) == \A k \in DOMAIN us : us[k].cell # c

Says(packet, c, v) ==
  IF packet.kind = "full" THEN packet.cells[Index(c[1], c[2])] = v
  ELSE LastWord(packet.updates, c, v)

Quiet(packet, c) == packet.kind = "partial" /\ Silent(packet.updates, c)

AirSays(c, v) ==
  \/ \E i \in DOMAIN air : /\ Says(air[i], c, v)
                           /\ \A j \in DOMAIN air : i < j => Quiet(air[j], c)
  \/ /\ \A j \in DOMAIN air : Quiet(air[j], c)
     /\ init /\ Drawn(c) = v

Word(c, v) ==
  \/ LastWord(bombUpdates, c, v)
  \/ Silent(bombUpdates, c) /\ LastWord(movementUpdates, c, v)
  \/ Silent(bombUpdates, c) /\ Silent(movementUpdates, c) /\ AirSays(c, v)

Gone == {p \in Players : tcp[p] # "open"}

Agrees(c, v) ==
  \/ v = grid[c]
  \/ grid[c] = EMPTY_CELL /\ \E p \in Gone : v \in {ENCODE_PLAYER(p), BOMB}
  \/ v = BOMB /\ Gone # {} /\ \E q \in Players : grid[c] = ENCODE_PLAYER(q)

(* The field is reported from the first full grid of a round until bombs   *)
(* explode in the next; the cell drop_bomb is at work on will be.          *)
Reporting == copies # MaxPlayers /\ pc \notin {"bombs", "blast"}

Unlisted(c) == pc = "list" /\ c = position[cursor]

WordsInv ==
  faults = 0 /\ running /\ ~raced /\ Reporting =>
    \A c \in Cells : \A v : Word(c, v) => Agrees(c, v) \/ Unlisted(c)

(* A bomb dropped in this pass is still there, unless somebody has closed  *)
(* his connection, and nobody whose turn is still to come stands on it.    *)
ToGo(q) ==
  \/ pc \in {"move", "walk"} /\ cursor <= q
  \/ pc \in {"drop", "list"} /\ cursor < q

NewBomb(u) ==
  /\ u.status = BOMB
  /\ u.cell \in Cells => grid[u.cell] = BOMB \/ Gone # {}
  /\ \A q \in Players : ToGo(q) => position[q] # u.cell

BombWordsInv ==
  ~raced => /\ pc = "list" => grid[position[cursor]] = BOMB
            /\ \A i \in DOMAIN bombUpdates : NewBomb(bombUpdates[i])

(* Updates are collected in a pass, full grids sent between rounds, and a  *)
(* client who has left his display has not seen a full grid.               *)
SendingInv ==
  /\ faults \in Nat
  /\ init => running
  /\ pc # "round" => copies = 0
  /\ pc \notin {"move", "walk", "drop", "list"} => movementUpdates = <<>> /\ bombUpdates = <<>>

-----------------------------------------------------------------------------
LEMMA WordsOfTwo ==
  ASSUME NEW S, NEW s \in Seq(S), NEW t \in Seq(S), NEW c
  PROVE  /\ Silent(s \o t, c) => Silent(s, c) /\ Silent(t, c)
         /\ \A v : LastWord(s \o t, c, v) =>
              LastWord(t, c, v) \/ (Silent(t, c) /\ LastWord(s, c, v))
<1> DEFINE n == Len(s)
           m == Len(t)
           st == s \o t
<1>1. /\ n \in Nat /\ m \in Nat /\ DOMAIN s = 1..n /\ DOMAIN t = 1..m /\ DOMAIN st = 1..(n + m)
      /\ \A i \in 1..(n + m) : st[i] = IF i <= n THEN s[i] ELSE t[i - n]
  <2>1. s \o t \in Seq(S) /\ Len(s \o t) = n + m
    BY ConcatProperties
  <2>2. DOMAIN st = 1..Len(st)
    BY <2>1, LenProperties
  <2> QED BY <2>1, <2>2, LenProperties, ConcatProperties
<1>2. \A i \in DOMAIN s : i \in DOMAIN st /\ st[i] = s[i]
  BY <1>1
<1>3. \A i \in DOMAIN t : i + n \in DOMAIN st /\ st[i + n] = t[i]
  <2> TAKE i \in DOMAIN t
  <2>1. i + n \in 1..(n + m) /\ ~(i + n <= n) /\ (i + n) - n = i
    BY <1>1
  <2> HIDE DEF n, m, st
  <2> QED BY <1>1, <2>1
<1> HIDE DEF st
<1>4. Silent(st, c) => Silent(s, c) /\ Silent(t, c)
  BY <1>2, <1>3 DEF Silent
<1>5. ASSUME NEW v, LastWord(st, c, v)
      PROVE  LastWord(t, c, v) \/ (Silent(t, c) /\ LastWord(s, c, v))
  <2>1. PICK k \in DOMAIN st : /\ st[k].cell = c /\ st[k].status = v
                               /\ \A j \in DOMAIN st : k < j => st[j].cell # c
    BY <1>5 DEF LastWord
  <2>2. CASE k <= n
    <3>1. k \in DOMAIN s /\ s[k] = st[k]
      BY <1>1, <2>2
    <3>2. \A j \in DOMAIN s : k < j => s[j].cell # c
      BY <1>2, <2>1
    <3>3. \A j \in DOMAIN t : t[j].cell # c
      <4> TAKE j \in DOMAIN t
      <4>1. k < j + n
        BY <1>1, <2>2
      <4> QED BY <1>3, <2>1, <4>1
    <3> QED BY <2>1, <3>1, <3>2, <3>3 DEF LastWord, Silent
  <2>3. CASE ~(k <= n)
    <3>1. k - n \in DOMAIN t /\ t[k - n] = st[k]
      BY <1>1, <2>3
    <3>2. \A j \in DOMAIN t : k - n < j => t[j].cell # c
      <4> TAKE j \in DOMAIN t
      <4>1. k - n < j => k < j + n
        BY <1>1, <2>1
      <4> QED BY <1>3, <2>1, <4>1
    <3> QED BY <2>1, <3>1, <3>2 DEF LastWord
  <2> QED BY <2>2, <2>3
<1> QED BY <1>4, <1>5 DEF st

LEMMA WordsOfOne ==
  ASSUME NEW e, NEW c
  PROVE  /\ Silent(<<e>>, c) => e.cell # c
         /\ \A v : LastWord(<<e>>, c, v) => e.cell = c /\ e.status = v
BY DEF Silent, LastWord

LEMMA WordsOfPair ==
  ASSUME NEW d, NEW e, NEW c
  PROVE  /\ Silent(<<d, e>>, c) => d.cell # c /\ e.cell # c
         /\ \A v : LastWord(<<d, e>>, c, v) =>
              IF e.cell = c THEN e.status = v ELSE d.cell = c /\ d.status = v
<1>1. DOMAIN <<d, e>> = {1, 2} /\ <<d, e>>[1] = d /\ <<d, e>>[2] = e
  OBVIOUS
<1>2. 1 < 2
  OBVIOUS
<1> DEFINE s == <<d, e>>
<1> HIDE DEF s
<1>3. /\ Silent(s, c) => d.cell # c /\ e.cell # c
      /\ \A v : LastWord(s, c, v) =>
              IF e.cell = c THEN e.status = v ELSE d.cell = c /\ d.status = v
  BY <1>1, <1>2 DEF Silent, LastWord, s
<1> QED BY <1>3 DEF s

(* Nothing is said where there are no updates.                             *)
LEMMA NoWords ==
  \A c, v : ~LastWord(<<>>, c, v) /\ Silent(<<>>, c)
BY DEF LastWord, Silent

(* A packet more.                                                          *)
LEMMA AirAppended ==
  ASSUME air \in Seq(Packets), NEW packet \in Packets, air' = Append(air, packet),
         UNCHANGED <<init, cells>>, NEW c, NEW v, AirSays(c, v)'
  PROVE  Says(packet, c, v) \/ (Quiet(packet, c) /\ AirSays(c, v))
<1> DEFINE n == Len(air)
<1>1. /\ n \in Nat /\ DOMAIN air = 1..n /\ DOMAIN air' = 1..(n + 1) /\ air'[n + 1] = packet
      /\ \A i \in DOMAIN air : i \in DOMAIN air' /\ air'[i] = air[i] /\ i < n + 1
  BY LenProperties
<1> HIDE DEF n
<1>2. CASE \E i \in DOMAIN air' : /\ Says(air'[i], c, v)
                                  /\ \A j \in DOMAIN air' : i < j => Quiet(air'[j], c)
  <2>1. PICK i \in DOMAIN air' : /\ Says(air'[i], c, v)
                                 /\ \A j \in DOMAIN air' : i < j => Quiet(air'[j], c)
    BY <1>2
  <2>2. CASE i = n + 1
    BY <1>1, <2>1, <2>2
  <2>3. CASE i # n + 1
    <3>1. i \in DOMAIN air
      BY <1>1, <2>3
    <3>2. n + 1 \in DOMAIN air' /\ i < n + 1
      BY <1>1, <3>1
    <3> QED BY <1>1, <2>1, <3>1, <3>2 DEF AirSays
  <2> QED BY <2>2, <2>3
<1>3. CASE (\A j \in DOMAIN air' : Quiet(air'[j], c)) /\ init /\ Drawn(c) = v
  <2>1. n + 1 \in DOMAIN air'
    BY <1>1
  <2> QED BY <1>1, <1>3, <2>1 DEF AirSays
<1> QED BY <1>2, <1>3 DEF AirSays, Drawn

(* A packet less, when the board says what it said.                        *)
LEMMA AirTaken ==
  ASSUME air \in Seq(Packets), air # <<>>, air' = Tail(air), NEW c, NEW v, AirSays(c, v)',
         init' /\ Drawn(c)' = v =>
           Says(Head(air), c, v) \/ (Quiet(Head(air), c) /\ init /\ Drawn(c) = v)
  PROVE  AirSays(c, v)
<1> DEFINE n == Len(air)
<1>1. /\ n \in Nat /\ 1 <= n /\ DOMAIN air = 1..n /\ DOMAIN air' = 1..(n - 1) /\ Head(air) = air[1]
      /\ \A i \in 1..(n - 1) : air'[i] = air[i + 1]
  BY LenProperties, HeadTailProperties, EmptySeq
<1> HIDE DEF n
<1>2. \A j \in 2..n : j - 1 \in DOMAIN air' /\ air'[j - 1] = air[j]
  BY <1>1
<1>3. CASE \E i \in DOMAIN air' : /\ Says(air'[i], c, v)
                                  /\ \A j \in DOMAIN air' : i < j => Quiet(air'[j], c)
  <2>1. PICK i \in DOMAIN air' : /\ Says(air'[i], c, v)
                                 /\ \A j \in DOMAIN air' : i < j => Quiet(air'[j], c)
    BY <1>3
  <2>2. i + 1 \in DOMAIN air /\ Says(air[i + 1], c, v)
    BY <1>1, <2>1
  <2>3. \A j \in DOMAIN air : i + 1 < j => Quiet(air[j], c)
    <3> TAKE j \in DOMAIN air
    <3>1. i + 1 < j => j \in 2..n /\ i < j - 1
      BY <1>1
    <3> QED BY <1>2, <2>1, <3>1
  <2> QED BY <2>2, <2>3 DEF AirSays
<1>4. CASE (\A j \in DOMAIN air' : Quiet(air'[j], c)) /\ init' /\ Drawn(c)' = v
  <2>1. 1 \in DOMAIN air /\ \A j \in DOMAIN air : j # 1 => j \in 2..n /\ 1 < j
    BY <1>1
  <2>2. \A j \in DOMAIN air : j # 1 => Quiet(air[j], c)
    BY <1>2, <1>4, <2>1
  <2>3. CASE Says(Head(air), c, v)
    <3>1. \A j \in DOMAIN air : 1 < j => Quiet(air[j], c)
      BY <1>1, <2>2
    <3> QED BY <1>1, <2>1, <2>3, <3>1 DEF AirSays
  <2>4. CASE Quiet(Head(air), c) /\ init /\ Drawn(c) = v
    BY <1>1, <2>2, <2>4 DEF AirSays
  <2> QED BY <1>4, <2>3, <2>4
<1> QED BY <1>3, <1>4 DEF AirSays

-----------------------------------------------------------------------------
(* Once a connection is closed it stays so.                                *)
LEMMA GoneGrows ==
  ASSUME TypeOK, [Next]_vars
  PROVE  Gone \subseteq Gone'
<1>1. CASE UNCHANGED tcp
  BY <1>1 DEF Gone
<1>2. ASSUME NEW p \in Players, Leave(p) \/ KillPlayer(p)
      PROVE  Gone \subseteq Gone'
  <2>1. \E a \in {"erase", "mark", "unplace", "closed"} : tcp' = [tcp EXCEPT ![p] = a]
    BY <1>2 DEF Leave, KillPlayer, EraseCell, MarkDead, Unplace
  <2> QED BY <2>1 DEF Gone, TypeOK
<1>3. CASE UNCHANGED vars \/ Freed \/ Receiver
  BY <1>1, <1>3 DEF vars, leave, Freed, Receiver, ReceiveAction, BufferAction
<1>4. CASE Pass
  BY <1>1, <1>4 DEF Pass, BeginPass, BeginMove, StayInPlace, MovePlayer, PlaceBomb, ListBomb,
     KeepBomb, EndPass, leave
<1>5. CASE FinishTest \/ FinishMatch \/ ExplodeBombs
  BY <1>1, <1>5 DEF FinishTest, CountPlayer, Decide, FinishMatch, ExplodeBombs, CountDown, Fizzle,
     Ignite, BreakWall, KillPlayers, BlastNothing, EndBlast, EndBombs, leave
<1> QED
  BY <1>2, <1>3, <1>4, <1>5 DEF Next, Updater

(* The phases of the updater and what it has to send in them.              *)
LEMMA SendingStep ==
  ASSUME TypeOK, SendingInv, [BroadcastNext]_broadcastVars
  PROVE  SendingInv'
<1>1. CASE UNCHANGED broadcastVars
  BY <1>1 DEF broadcastVars, client, vars, updates, SendingInv
<1>2. CASE MatchStep(Next)
  <2>1. /\ Next /\ UNCHANGED <<running, init, faults>>
        /\ BeginPass => copies = 0
        /\ copies' = IF EndBombs THEN MaxPlayers ELSE copies
    BY <1>2 DEF MatchStep, client
  <2>2. CASE EndBombs
    <3>1. pc = "bombs" /\ pc' = "round" /\ UNCHANGED updates
      BY <2>2 DEF EndBombs
    <3> QED BY <2>1, <3>1 DEF SendingInv, updates
  <2>3. CASE ~EndBombs
    <3>1. copies' = copies
      BY <2>1, <2>3
    <3>2. CASE BeginPass
      BY <2>1, <3>1, <3>2 DEF SendingInv, BeginPass
    <3>3. CASE BeginMove \/ StayInPlace \/ MovePlayer \/ PlaceBomb \/ ListBomb \/ KeepBomb
      <4>1. pc \in {"move", "walk", "drop"} \cup {"list"} /\ pc' \in {"move", "walk", "drop", "list"}
        BY <3>3 DEF BeginMove, StayInPlace, MovePlayer, PlaceBomb, ListBomb, KeepBomb
      <4> QED BY <2>1, <3>1, <4>1 DEF SendingInv
    <3>4. CASE EndPass
      <4>1. pc = "move" /\ movementUpdates' = <<>> /\ bombUpdates' = <<>>
        BY <3>4 DEF EndPass
      <4> QED BY <2>1, <3>1, <4>1 DEF SendingInv
    <3>5. CASE FinishTest \/ FinishMatch \/ ExplodeBombs
      <4>1. /\ pc \in {"count", "finish", "bombs", "blast"} /\ UNCHANGED updates
            /\ pc' \in {"count", "finish", "bombs", "blast", "done"}
        BY <2>3, <3>5 DEF FinishTest, CountPlayer, Decide, FinishMatch, ExplodeBombs, CountDown,
           Fizzle, Ignite, BreakWall, KillPlayers, BlastNothing, EndBlast
      <4> QED BY <2>1, <3>1, <4>1 DEF SendingInv, updates
    <3>6. CASE UNCHANGED <<pc, updates>>
      BY <2>1, <3>1, <3>6 DEF SendingInv, updates
    <3>7. CASE Receiver \/ Freed \/ \E p \in Players : Leave(p) \/ KillPlayer(p)
      BY <3>6, <3>7 DEF Receiver, ReceiveAction, BufferAction, Freed, vars, Leave, KillPlayer,
         EraseCell, MarkDead, Unplace
    <3> QED BY <2>1, <3>2, <3>3, <3>4, <3>5, <3>7 DEF Next, Updater, Pass
  <2> QED BY <2>2, <2>3
<1>3. CASE SendFull
  <2>1. copies > 0 /\ UNCHANGED vars /\ UNCHANGED <<client, faults>> /\ copies' = copies - 1
    BY <1>3 DEF SendFull
  <2>2. pc = "round"
    BY <2>1 DEF SendingInv
  <2> QED BY <2>1, <2>2 DEF SendingInv, vars, client, updates
<1>4. CASE \E i \in DOMAIN air : Lose(i) \/ Repeat(i) \/ Overtake(i)
  BY <1>4 DEF SendingInv, Lose, Repeat, Overtake, Fault, vars, client, updates
<1>5. CASE Receive
  <2>1. UNCHANGED <<vars, copies, faults>> /\ (init' => running')
    BY <1>5 DEF Receive, ReceiveFull, ReceivePartial, ReceiveEarly, SendingInv
  <2> QED BY <2>1 DEF SendingInv, vars, updates
<1> QED BY <1>1, <1>2, <1>3, <1>4, <1>5 DEF BroadcastNext

(* The bombs dropped in this pass.                                         *)
LEMMA BombWordsKept ==
  ASSUME TypeOK, TypeOK', BombWordsInv, ~raced, [Next]_vars, UNCHANGED <<grid, bombUpdates>>,
         \A q \in Players : ToGo(q)' => ToGo(q) /\ position'[q] \in {position[q], Off},
         pc' = "list" => pc = "list" /\ position'[cursor'] = position[cursor]
  PROVE  BombWordsInv'
<1>1. Gone \subseteq Gone'
  BY GoneGrows
<1>2. \A i \in DOMAIN bombUpdates : NewBomb(bombUpdates[i]) /\ bombUpdates[i] \in UpdateEntries
  BY DEF BombWordsInv, TypeOK
<1>3. \A u \in UpdateEntries : u.cell # Off
  BY DEF UpdateEntries, Off
<1>4. \A u \in UpdateEntries : NewBomb(u) => NewBomb(u)'
  BY <1>1, <1>3 DEF NewBomb
<1> QED BY <1>2, <1>4 DEF BombWordsInv

LEMMA BombWordsStep ==
  ASSUME TypeOK, ControlInv, FieldInv, TypeOK', SendingInv, BombWordsInv, [Next]_vars
  PROVE  BombWordsInv'
<1> SUFFICES ASSUME ~raced' PROVE BombWordsInv'
  BY DEF BombWordsInv
<1>0. ~raced /\ Calm /\ Gone \subseteq Gone'
  BY RaceIsSeen, GoneGrows DEF FieldInv
<1>a. \A q \in Players : q \in Int
  BY DEF Players
<1>b. \A i \in DOMAIN bombUpdates : NewBomb(bombUpdates[i]) /\ bombUpdates[i] \in UpdateEntries
  BY <1>0 DEF BombWordsInv, TypeOK
<1>1. CASE UNCHANGED vars \/ Freed \/ Receiver
  <2>1. UNCHANGED <<grid, bombUpdates, pc, position, cursor>>
    BY <1>1 DEF vars, Freed, Receiver, ReceiveAction, BufferAction, board, loops, updates
  <2> QED BY <1>0, <2>1, BombWordsKept DEF ToGo
<1>2. CASE BeginPass
  <2>1. bombUpdates = <<>> /\ bombUpdates' = <<>> /\ pc' = "move"
    BY <1>2 DEF BeginPass, SendingInv, updates
  <2> QED BY <2>1 DEF BombWordsInv
<1>3. CASE BeginMove \/ StayInPlace
  <2>1. /\ pc = "move" /\ pc' \in {"walk", "drop"} /\ cursor' = cursor /\ cursor \in Nat
        /\ UNCHANGED <<grid, bombUpdates, position>>
    BY <1>3 DEF BeginMove, StayInPlace, board, loops, updates, TypeOK
  <2>2. \A q \in Players : ToGo(q)' => ToGo(q)
    BY <1>a, <2>1 DEF ToGo
  <2> QED BY <1>0, <2>1, <2>2, BombWordsKept
<1>4. CASE KeepBomb
  <2>1. /\ pc = "drop" /\ pc' = "move" /\ cursor' = cursor + 1 /\ cursor \in Nat
        /\ UNCHANGED <<grid, bombUpdates, position>>
    BY <1>4 DEF KeepBomb, board, updates, TypeOK
  <2>2. \A q \in Players : ToGo(q)' => ToGo(q)
    BY <1>a, <2>1 DEF ToGo
  <2> QED BY <1>0, <2>1, <2>2, BombWordsKept
<1>5. CASE MovePlayer
  <2> DEFINE from == walk[1]
             to == walk[2]
  <2>1. /\ pc = "walk" /\ pc' = "drop" /\ cursor' = cursor /\ cursor \in Players
        /\ from = position[cursor] /\ grid[to] \in Walkable
        /\ from \in Positions /\ to \in Cells
        /\ \E a, b : grid' = [grid EXCEPT ![from] = a, ![to] = b]
        /\ position' = [position EXCEPT ![cursor] = to]
        /\ bombUpdates' = bombUpdates
    BY <1>0, <1>5 DEF MovePlayer, Calm, NoKillBetween, TypeOK, ControlInv
  <2>2. \A c \in Positions : c # from /\ c # to => grid'[c] = grid[c]
    BY <2>1 DEF TypeOK
  <2>3. \A q \in Players : ToGo(q)' => ToGo(q) /\ position'[q] = position[q]
    BY <1>a, <2>1 DEF ToGo, TypeOK
  <2>4. ToGo(cursor)
    BY <1>a, <2>1 DEF ToGo
  <2>5. ASSUME NEW u, NewBomb(u)
        PROVE  NewBomb(u)'
    <3>1. u.cell # from
      BY <2>1, <2>4, <2>5 DEF NewBomb
    <3>2. u.cell = to => grid[to] # BOMB
      BY <2>1, CodeFacts
    <3>3. u.cell \in Cells => grid'[u.cell] = BOMB \/ Gone' # {}
      BY <1>0, <2>2, <2>5, <3>1, <3>2, CellFacts DEF NewBomb
    <3> QED BY <2>3, <2>5, <3>3 DEF NewBomb
  <2> QED BY <1>b, <2>1, <2>5 DEF BombWordsInv
<1>6. CASE PlaceBomb
  <2>1. /\ pc = "drop" /\ pc' = "list" /\ UNCHANGED <<cursor, position, bombUpdates>>
        /\ cursor \in Players /\ position[cursor] \in Positions
        /\ grid' = [grid EXCEPT ![position[cursor]] = BOMB]
    BY <1>6 DEF PlaceBomb, TypeOK, ControlInv, loops, updates
  <2>2. /\ grid'[position[cursor]] = BOMB
        /\ \A c \in Positions : grid[c] = BOMB => grid'[c] = BOMB
    BY <2>1 DEF TypeOK
  <2>3. ASSUME NEW u, NewBomb(u)
        PROVE  NewBomb(u)'
    BY <1>0, <2>1, <2>2, <2>3, CellFacts DEF NewBomb, ToGo
  <2> QED BY <1>b, <2>1, <2>2, <2>3 DEF BombWordsInv
<1>7. ASSUME ListBomb, NEW u, u = Update(position[cursor], BOMB)
      PROVE  BombWordsInv'
  <2>1. /\ pc = "list" /\ pc' = "move" /\ cursor' = cursor + 1 /\ cursor \in Players
        /\ UNCHANGED <<grid, position>> /\ position[cursor] \in Positions
        /\ bombUpdates' = Append(bombUpdates, u)
    BY <1>7 DEF ListBomb, TypeOK, ControlInv
  <2>2. \A q \in Players : ToGo(q)' => ToGo(q) /\ q # cursor
    BY <1>a, <2>1 DEF ToGo
  <2>3. ASSUME NEW x, NewBomb(x)
        PROVE  NewBomb(x)'
    BY <1>0, <2>1, <2>2, <2>3 DEF NewBomb
  <2>4. NewBomb(u)'
    <3>1. u.status = BOMB /\ u.cell = AsBytes(position[cursor])
      BY <1>7 DEF Update
    <3>2. CASE position[cursor] \in Cells
      <4>1. u.cell = position[cursor] /\ grid'[u.cell] = BOMB
        BY <1>0, <2>1, <3>1, <3>2, AsBytesFacts DEF BombWordsInv
      <4>2. \A q \in Players : q # cursor => position[q] # position[cursor]
        BY <1>0, <2>1, <3>2 DEF Calm, OneOnACell, OnField
      <4> QED BY <2>1, <2>2, <3>1, <4>1, <4>2 DEF NewBomb
    <3>3. CASE position[cursor] = Off
      <4>1. u.cell \notin Cells /\ u.cell \notin Positions
        <5>1. AsBytes(Off) # Off
          <6>1. AsBytes(Off) \in (0..(Height - 1)) \X (0..255)
            BY AsBytesFacts, CellFacts
          <6> QED BY <6>1 DEF Off
        <5> QED BY <3>1, <3>3, <5>1, AsBytesFacts DEF Positions
      <4>2. \A q \in Players : position'[q] # u.cell
        BY <4>1 DEF TypeOK
      <4> QED BY <3>1, <4>1, <4>2 DEF NewBomb
    <3> QED BY <2>1, <3>2, <3>3 DEF Positions
  <2>5. \A i \in DOMAIN bombUpdates' :
          bombUpdates'[i] = u \/ (i \in DOMAIN bombUpdates /\ bombUpdates'[i] = bombUpdates[i])
    BY <2>1, Appended DEF TypeOK
  <2>6. \A x : NewBomb(x) => NewBomb(x)'
    BY <2>3
  <2>7. ASSUME NEW i \in DOMAIN bombUpdates'
        PROVE  \E x : x = bombUpdates'[i] /\ NewBomb(x)'
    <3>1. CASE bombUpdates'[i] = u
      BY <2>4, <3>1
    <3>2. CASE i \in DOMAIN bombUpdates /\ bombUpdates'[i] = bombUpdates[i]
      BY <1>b, <2>6, <3>2
    <3> QED BY <2>5, <3>1, <3>2
  <2> QED BY <2>1, <2>7 DEF BombWordsInv, NewBomb
<1>8. CASE EndPass
  BY <1>8 DEF EndPass, BombWordsInv
<1>9. CASE FinishTest \/ FinishMatch \/ ExplodeBombs
  <2>1. /\ bombUpdates = <<>> /\ bombUpdates' = <<>> /\ pc' # "list"
    BY <1>9 DEF FinishTest, CountPlayer, Decide, FinishMatch, ExplodeBombs, CountDown, Fizzle,
       Ignite, BreakWall, KillPlayers, BlastNothing, EndBlast, EndBombs, SendingInv, updates
  <2> QED BY <2>1 DEF BombWordsInv
<1>10. ASSUME NEW p \in Players, Leave(p) \/ MarkDead(p) \/ Unplace(p)
       PROVE  BombWordsInv'
  <2>1. /\ UNCHANGED <<grid, bombUpdates, pc, cursor>>
        /\ position' = position \/ (Unplace(p) /\ position' = [position EXCEPT ![p] = Off])
    BY <1>10 DEF Leave, MarkDead, Unplace, board, loops, updates
  <2>2. \A q \in Players : position'[q] \in {position[q], Off}
    BY <2>1 DEF TypeOK
  <2>3. pc = "list" => ~Unplace(p)
    BY <1>0 DEF Calm, NoKillBetween, KillUnderWay, Unplace
  <2> QED BY <1>0, <2>1, <2>2, <2>3, BombWordsKept DEF ToGo
<1>11. ASSUME NEW p \in Players, EraseCell(p)
       PROVE  BombWordsInv'
  <2>1. /\ tcp[p] = "erase" /\ tcp' = [tcp EXCEPT ![p] = "mark"]
        /\ UNCHANGED <<bombUpdates, pc, cursor, position>>
    BY <1>11 DEF EraseCell, loops, updates
  <2>2. p \in Gone' /\ pc # "list"
    BY <1>0, <2>1 DEF Gone, TypeOK, Calm, NoKillBetween, KillUnderWay
  <2>3. ASSUME NEW u, NewBomb(u)
        PROVE  NewBomb(u)'
    BY <2>1, <2>2, <2>3 DEF NewBomb, ToGo
  <2> QED BY <1>b, <2>1, <2>2, <2>3 DEF BombWordsInv
<1> QED
  BY <1>1, <1>2, <1>3, <1>4, <1>5, <1>6, <1>7, <1>8, <1>9, <1>10, <1>11
  DEF Next, Updater, Pass, KillPlayer

-----------------------------------------------------------------------------
(* While the grid and the updates stay, so do the last words.              *)
LEMMA WordsKept ==
  ASSUME UNCHANGED <<movementUpdates, bombUpdates, air, init, cells>>, NEW c, NEW v, Word(c, v)'
  PROVE  Word(c, v)
BY DEF Word, AirSays, Drawn

LEMMA AgreementKept ==
  ASSUME Gone \subseteq Gone', NEW c, grid'[c] = grid[c], NEW v, Agrees(c, v)
  PROVE  Agrees(c, v)'
BY DEF Agrees

LEMMA LastWordIsAnUpdate ==
  ASSUME NEW us, NEW c, NEW v, LastWord(us, c, v)
  PROVE  \E i \in DOMAIN us : us[i].cell = c /\ us[i].status = v
BY DEF LastWord

(* Only the end of the blasts lets reporting begin, and only with a grid.  *)
LEMMA ReportingContinues ==
  ASSUME TypeOK, MatchStep(Next), Reporting'
  PROVE  Reporting /\ ~EndBombs /\ ~ExplodeBombs
<1>1. Next /\ copies' = IF EndBombs THEN MaxPlayers ELSE copies
  BY DEF MatchStep
<1>2. ~EndBombs /\ copies' = copies /\ copies # MaxPlayers
  BY <1>1 DEF Reporting
<1>3. pc' \notin {"bombs", "blast"}
  BY DEF Reporting
<1>4. ExplodeBombs => FALSE
  BY <1>2, <1>3 DEF ExplodeBombs, CountDown, Fizzle, Ignite, BreakWall, KillPlayers,
     BlastNothing, EndBlast
<1>5. CASE pc \in {"bombs", "blast"}
  <2>1. Receiver \/ Freed \/ \E p \in Players : Leave(p) \/ KillPlayer(p)
    BY <1>1, <1>4, <1>5 DEF Next, Updater, Pass, BeginPass, BeginMove, StayInPlace, MovePlayer,
       PlaceBomb, ListBomb, KeepBomb, EndPass, FinishTest, CountPlayer, Decide, FinishMatch
  <2>2. UNCHANGED pc
    BY <2>1 DEF Receiver, ReceiveAction, BufferAction, Freed, vars, Leave, KillPlayer, EraseCell,
       MarkDead, Unplace
  <2> QED BY <1>3, <1>5, <2>2
<1> QED BY <1>2, <1>4, <1>5 DEF Reporting

(* A step of the match, for one cell and what is said of it.               *)
LEMMA WordsMove ==
  ASSUME TypeOK, ControlInv, Calm, SeenInv, BombWordsInv, ~raced, Gone \subseteq Gone',
         MovePlayer, UNCHANGED <<air, init, cells>>,
         NEW c \in Cells, NEW v, Word(c, v)',
         Word(c, v) => Agrees(c, v)
  PROVE  Agrees(c, v)'
<1> DEFINE from == walk[1]
           to == walk[2]
<1>1. /\ pc = "walk" /\ from \in Positions /\ to \in Cells /\ from # to /\ cursor \in Players
      /\ from = position[cursor] /\ grid[to] \in Walkable
      /\ bombUpdates' = bombUpdates
      /\ LeftBehind(from) \in CellCodes /\ ENCODE_PLAYER(cursor) \in CellCodes
  <2>1. /\ pc = "walk" /\ bombUpdates' = bombUpdates /\ walk \in Positions \X Positions
        /\ walk[2] \in Cells /\ walk[1] # walk[2] /\ cursor \in Players
    BY DEF MovePlayer, TypeOK, ControlInv, SeenInv
  <2>2. walk[1] = position[cursor] /\ grid[walk[2]] \in Walkable
    BY <2>1 DEF Calm, NoKillBetween
  <2>3. LeftBehind(from) \in CellCodes
    BY <2>1, CodeFacts DEF TypeOK, LeftBehind
  <2>4. ENCODE_PLAYER(cursor) \in CellCodes
    BY <2>1, CodeFacts
  <2> QED BY <2>1, <2>2, <2>3, <2>4
<1>2. PICK a, b : /\ a \in CellCodes /\ b = ENCODE_PLAYER(cursor) /\ b \in CellCodes
                  /\ grid' = [grid EXCEPT ![from] = a, ![to] = b]
                  /\ movementUpdates' = movementUpdates \o <<Update(from, a), Update(to, b)>>
  BY <1>1 DEF MovePlayer
<1>3. /\ grid'[from] = a /\ grid'[to] = b
      /\ \A d \in Cells : d # from /\ d # to => grid'[d] = grid[d]
  BY <1>1, <1>2, CellFacts DEF TypeOK
<1>4. /\ Update(to, b).cell = to /\ Update(to, b).status = b
      /\ Update(from, a).cell = AsBytes(from) /\ Update(from, a).status = a
      /\ AsBytes(from) = c <=> from = c
      /\ Update(from, a) \in UpdateEntries /\ Update(to, b) \in UpdateEntries
  <2>1. AsBytes(from) = c <=> from = c
    BY <1>1, AsBytesFacts DEF Positions
  <2>2. Update(to, b).cell = to
    BY <1>1, AsBytesFacts DEF Update
  <2>3. Update(from, a) \in UpdateEntries /\ Update(to, b) \in UpdateEntries
    BY <1>1, <1>2, UpdateType, CellFacts
  <2> QED BY <2>1, <2>2, <2>3 DEF Update
<1>5. ASSUME Word(c, v), c # from, c # to
      PROVE  Agrees(c, v)'
  BY <1>3, <1>5, AgreementKept
<1> DEFINE pair == <<Update(from, a), Update(to, b)>>
<1>6. /\ Silent(movementUpdates', c) => Silent(movementUpdates, c) /\ Silent(pair, c)
      /\ LastWord(movementUpdates', c, v) =>
           LastWord(pair, c, v) \/ (Silent(pair, c) /\ LastWord(movementUpdates, c, v))
  <2>1. pair \in Seq(UpdateEntries)
    BY <1>4
  <2>2. movementUpdates' = movementUpdates \o pair /\ movementUpdates \in Seq(UpdateEntries)
    BY <1>2 DEF TypeOK
  <2> HIDE DEF pair
  <2> QED BY <2>1, <2>2, WordsOfTwo
<1>7. /\ Silent(pair, c) => c # from /\ c # to
      /\ LastWord(pair, c, v) => v = grid'[c]
  <2>1. /\ Silent(pair, c) => Update(from, a).cell # c /\ Update(to, b).cell # c
        /\ LastWord(pair, c, v) =>
             IF Update(to, b).cell = c THEN Update(to, b).status = v
             ELSE Update(from, a).cell = c /\ Update(from, a).status = v
    BY WordsOfPair
  <2> HIDE DEF pair
  <2> QED BY <1>3, <1>4, <2>1
<1> HIDE DEF pair
<1>8. CASE LastWord(bombUpdates, c, v)
  <2>1. PICK i \in DOMAIN bombUpdates : bombUpdates[i].cell = c /\ bombUpdates[i].status = v
    BY <1>8, LastWordIsAnUpdate
  <2>2. NewBomb(bombUpdates[i])
    BY DEF BombWordsInv
  <2>3. ToGo(cursor)
    BY <1>1 DEF ToGo, Players
  <2>4. v = BOMB /\ c # from /\ (grid[c] = BOMB \/ Gone # {})
    BY <1>1, <2>1, <2>2, <2>3 DEF NewBomb
  <2>5. CASE c = to
    <3>1. Gone' # {} /\ grid'[c] = ENCODE_PLAYER(cursor)
      BY <1>1, <1>2, <1>3, <2>4, <2>5, CodeFacts
    <3> QED BY <1>1, <2>4, <3>1 DEF Agrees
  <2>6. CASE c # to
    BY <1>5, <1>8, <2>4, <2>6 DEF Word
  <2> QED BY <2>5, <2>6
<1>9. CASE Silent(bombUpdates, c) /\ LastWord(movementUpdates', c, v)
  <2>1. CASE LastWord(pair, c, v)
    BY <1>7, <2>1 DEF Agrees
  <2>2. CASE Silent(pair, c) /\ LastWord(movementUpdates, c, v)
    BY <1>5, <1>7, <1>9, <2>2 DEF Word
  <2> QED BY <1>6, <1>9, <2>1, <2>2
<1>10. CASE Silent(bombUpdates, c) /\ Silent(movementUpdates', c) /\ AirSays(c, v)'
  <2>1. AirSays(c, v)
    BY <1>10 DEF AirSays, Drawn
  <2> QED BY <1>5, <1>6, <1>7, <1>10, <2>1 DEF Word
<1> QED BY <1>1, <1>8, <1>9, <1>10 DEF Word

LEMMA WordsList ==
  ASSUME TypeOK, ControlInv, BombWordsInv, ~raced, Gone \subseteq Gone',
         ListBomb, UNCHANGED <<air, init, cells>>,
         NEW c \in Cells, NEW v, Word(c, v)',
         Word(c, v) => Agrees(c, v) \/ Unlisted(c)
  PROVE  Agrees(c, v)'
<1>1. PICK u : u = Update(position[cursor], BOMB)
  OBVIOUS
<1>2. /\ pc = "list" /\ cursor \in Players /\ position[cursor] \in Positions
      /\ UNCHANGED <<grid, movementUpdates>>
      /\ bombUpdates' = Append(bombUpdates, u)
      /\ u \in UpdateEntries
  <2>1. position[cursor] \in Positions
    BY DEF ListBomb, TypeOK, ControlInv
  <2>2. u \in UpdateEntries
    BY <1>1, <2>1, UpdateType, CodeFacts
  <2> QED BY <1>1, <2>1, <2>2 DEF ListBomb, ControlInv
<1>3. /\ u.status = BOMB
      /\ u.cell = c <=> position[cursor] = c
  BY <1>1, <1>2, AsBytesFacts DEF Update, Positions
<1>4. /\ Silent(bombUpdates', c) => Silent(bombUpdates, c) /\ u.cell # c
      /\ LastWord(bombUpdates', c, v) =>
           \/ u.cell = c /\ v = BOMB
           \/ u.cell # c /\ LastWord(bombUpdates, c, v)
  <2>1. bombUpdates' = bombUpdates \o <<u>> /\ bombUpdates \in Seq(UpdateEntries)
    BY <1>2 DEF TypeOK
  <2>2. <<u>> \in Seq(UpdateEntries)
    BY <1>2
  <2>3. /\ Silent(bombUpdates', c) => Silent(bombUpdates, c) /\ Silent(<<u>>, c)
        /\ LastWord(bombUpdates', c, v) =>
             LastWord(<<u>>, c, v) \/ (Silent(<<u>>, c) /\ LastWord(bombUpdates, c, v))
    BY <2>1, <2>2, WordsOfTwo
  <2> QED BY <1>3, <2>3, WordsOfOne
<1>5. ASSUME Word(c, v), u.cell # c
      PROVE  Agrees(c, v)'
  <2>1. Agrees(c, v)
    BY <1>3, <1>5 DEF Unlisted
  <2> QED BY <1>2, <2>1, AgreementKept
<1>6. CASE u.cell = c /\ v = BOMB
  BY <1>2, <1>3, <1>6 DEF BombWordsInv, Agrees
<1>7. CASE u.cell # c /\ LastWord(bombUpdates, c, v)
  BY <1>5, <1>7 DEF Word
<1>8. CASE Silent(bombUpdates', c) /\ LastWord(movementUpdates', c, v)
  BY <1>2, <1>4, <1>5, <1>8 DEF Word
<1>9. CASE Silent(bombUpdates', c) /\ Silent(movementUpdates', c) /\ AirSays(c, v)'
  <2>1. AirSays(c, v)
    BY <1>9 DEF AirSays, Drawn
  <2> QED BY <1>2, <1>4, <1>5, <1>9, <2>1 DEF Word
<1> QED BY <1>4, <1>6, <1>7, <1>8, <1>9 DEF Word

LEMMA WordsEndPass ==
  ASSUME TypeOK, BoardTypes, PendingInv, EndPass, SendPartial, running, UNCHANGED <<init, cells>>,
         NEW c \in Cells, NEW v, Word(c, v)'
  PROVE  Word(c, v)
<1>1. movementUpdates' = <<>> /\ bombUpdates' = <<>>
  BY DEF EndPass
<1>2. AirSays(c, v)'
  BY <1>1, NoWords DEF Word
<1>3. /\ Silent(Updates, c) => Silent(movementUpdates, c) /\ Silent(bombUpdates, c)
      /\ LastWord(Updates, c, v) =>
           LastWord(bombUpdates, c, v) \/ (Silent(bombUpdates, c) /\ LastWord(movementUpdates, c, v))
  BY WordsOfTwo DEF Updates, TypeOK
<1>4. CASE Updates = <<>>
  <2>1. UNCHANGED air
    BY <1>4 DEF SendPartial
  <2>2. AirSays(c, v)
    BY <1>2, <2>1 DEF AirSays, Drawn
  <2> QED BY <1>3, <1>4, <2>2, NoWords DEF Word
<1>5. CASE Updates # <<>>
  <2>1. PICK packet : packet = [kind |-> "partial", updates |-> Updates]
    OBVIOUS
  <2>2. packet \in Packets /\ packet.kind = "partial" /\ packet.updates = Updates
    BY <2>1, PartialIsReal
  <2>3. air' = Append(air, packet)
    BY <1>5, <2>1 DEF SendPartial, Transmit
  <2>4. Says(packet, c, v) \/ (Quiet(packet, c) /\ AirSays(c, v))
    BY <1>2, <2>2, <2>3, AirAppended DEF BoardTypes
  <2> QED BY <1>3, <2>2, <2>4 DEF Says, Quiet, Word
<1> QED BY <1>4, <1>5

LEMMA WordsErase ==
  ASSUME TypeOK, Calm, NEW p \in Players, EraseCell(p), Gone \subseteq Gone',
         NEW c \in Cells, NEW v, Agrees(c, v)
  PROVE  Agrees(c, v)'
<1>1. /\ tcp[p] = "erase" /\ tcp' = [tcp EXCEPT ![p] = "mark"]
      /\ grid' = [grid EXCEPT ![leaving[p]] = EMPTY_CELL]
  BY DEF EraseCell
<1>2. CASE c # leaving[p]
  <2>1. grid'[c] = grid[c]
    BY <1>1, <1>2 DEF TypeOK
  <2> QED BY <2>1, AgreementKept
<1>3. CASE c = leaving[p]
  <2>1. position[p] = c /\ OnField(p) /\ ~Departing(p)
    BY <1>1, <1>3 DEF Calm, NoKillBetween, OnField, Departing
  <2>2. grid[c] \in {ENCODE_PLAYER(p), BOMB}
    BY <2>1 DEF Calm, EachIsShown, Shows
  <2>3. v \in {ENCODE_PLAYER(p), BOMB}
    BY <2>2, CodeFacts DEF Agrees, EMPTY_CELL, BOMB
  <2>4. grid'[c] = EMPTY_CELL /\ p \in Gone'
    BY <1>1, <1>3, CellFacts DEF TypeOK, Gone
  <2> QED BY <2>3, <2>4 DEF Agrees
<1> QED BY <1>2, <1>3

LEMMA WordsMatchStep ==
  ASSUME TypeOK, ControlInv, FieldInv, BoardInv, SendingInv, BombWordsInv, WordsInv,
         MatchStep(Next)
  PROVE  WordsInv'
<1> SUFFICES ASSUME faults' = 0, running', ~raced', Reporting', NEW c \in Cells, NEW v, Word(c, v)'
             PROVE  Agrees(c, v)' \/ Unlisted(c)'
  BY DEF WordsInv
<1>1. /\ Next /\ UNCHANGED <<faults, running, init, cells>>
      /\ IF EndPass THEN SendPartial ELSE UNCHANGED air
  BY DEF MatchStep, client
<1>2. ~raced /\ Calm /\ Gone \subseteq Gone'
  BY <1>1, RaceIsSeen, GoneGrows DEF FieldInv
<1>3. Reporting /\ ~ExplodeBombs /\ ~EndBombs
  BY ReportingContinues
<1>4. Word(c, v) => Agrees(c, v) \/ Unlisted(c)
  BY <1>1, <1>2, <1>3 DEF WordsInv
<1>5. ASSUME UNCHANGED <<grid, movementUpdates, bombUpdates>>, ~EndPass, Unlisted(c) => Unlisted(c)'
      PROVE  Agrees(c, v)' \/ Unlisted(c)'
  <2>1. Word(c, v)
    BY <1>1, <1>5, WordsKept
  <2>2. Agrees(c, v) => Agrees(c, v)'
    BY <1>2, <1>5, AgreementKept
  <2> QED BY <1>4, <1>5, <2>1, <2>2
<1>6. CASE Receiver \/ Freed
  <2>1. UNCHANGED <<grid, movementUpdates, bombUpdates, pc, position, cursor>>
    BY <1>6 DEF Receiver, ReceiveAction, BufferAction, Freed, vars, board, loops, updates
  <2>2. ~EndPass
    BY <2>1 DEF EndPass
  <2> QED BY <1>5, <2>1, <2>2 DEF Unlisted
<1>7. CASE BeginPass \/ BeginMove \/ StayInPlace \/ KeepBomb \/ FinishTest \/ FinishMatch
  <2>1. UNCHANGED <<grid, movementUpdates, bombUpdates>> /\ pc # "list"
    BY <1>7 DEF BeginPass, BeginMove, StayInPlace, KeepBomb, FinishTest, CountPlayer, Decide,
       FinishMatch, board, updates
  <2>2. ~EndPass
    BY <1>7 DEF BeginPass, BeginMove, StayInPlace, KeepBomb, FinishTest, CountPlayer, Decide,
       FinishMatch, EndPass
  <2> QED BY <1>5, <2>1, <2>2 DEF Unlisted
<1>8. CASE MovePlayer
  <2>1. ~EndPass /\ pc # "list"
    BY <1>8 DEF MovePlayer, EndPass
  <2> QED BY <1>1, <1>2, <1>4, <1>8, <2>1, WordsMove DEF BoardInv, Unlisted
<1>9. CASE PlaceBomb
  <2>1. /\ pc = "drop" /\ pc' = "list" /\ UNCHANGED <<cursor, position, movementUpdates, bombUpdates>>
        /\ grid' = [grid EXCEPT ![position[cursor]] = BOMB]
    BY <1>9 DEF PlaceBomb, loops, updates
  <2>2. ~EndPass
    BY <2>1 DEF EndPass
  <2>3. Word(c, v)
    BY <1>1, <2>1, <2>2, WordsKept
  <2>4. CASE c = position[cursor]
    BY <2>1, <2>4 DEF Unlisted
  <2>5. CASE c # position[cursor]
    <3>1. grid'[c] = grid[c]
      BY <2>1, <2>5 DEF TypeOK
    <3>2. Agrees(c, v)
      BY <1>4, <2>1, <2>3 DEF Unlisted
    <3> QED BY <1>2, <3>1, <3>2, AgreementKept
  <2> QED BY <2>4, <2>5
<1>10. CASE ListBomb
  <2>1. ~EndPass
    BY <1>10 DEF ListBomb, EndPass
  <2> QED BY <1>1, <1>2, <1>4, <1>10, <2>1, WordsList
<1>11. CASE EndPass
  <2>1. Word(c, v)
    BY <1>1, <1>11, WordsEndPass DEF BoardInv
  <2>2. grid'[c] = grid[c] /\ pc # "list"
    BY <1>11 DEF EndPass, board
  <2>3. Agrees(c, v)
    BY <1>4, <2>1, <2>2 DEF Unlisted
  <2> QED BY <1>2, <2>2, <2>3, AgreementKept
<1>12. ASSUME NEW p \in Players, Leave(p) \/ MarkDead(p) \/ Unplace(p)
       PROVE  Agrees(c, v)' \/ Unlisted(c)'
  <2>1. /\ UNCHANGED <<grid, movementUpdates, bombUpdates, pc, cursor>>
        /\ UNCHANGED position \/ tcp[p] = "unplace"
    BY <1>12 DEF Leave, MarkDead, Unplace, board, loops, updates
  <2>2. pc = "list" => UNCHANGED position
    BY <1>2, <2>1 DEF Calm, NoKillBetween, KillUnderWay
  <2>3. ~EndPass
    BY <2>1 DEF EndPass
  <2> QED BY <1>5, <2>1, <2>2, <2>3 DEF Unlisted
<1>13. ASSUME NEW p \in Players, EraseCell(p)
       PROVE  Agrees(c, v)' \/ Unlisted(c)'
  <2>1. UNCHANGED <<movementUpdates, bombUpdates, pc, cursor, position>> /\ tcp[p] = "erase"
    BY <1>13 DEF EraseCell, loops, updates
  <2>2. pc # "list"
    BY <1>2, <2>1 DEF Calm, NoKillBetween, KillUnderWay
  <2>3. ~EndPass
    BY <2>1 DEF EndPass
  <2>4. Word(c, v)
    BY <1>1, <2>1, <2>3, WordsKept
  <2>5. Agrees(c, v)
    BY <1>4, <2>2, <2>4 DEF Unlisted
  <2> QED BY <1>2, <1>13, <2>5, WordsErase
<1> QED
  BY <1>1, <1>3, <1>6, <1>7, <1>8, <1>9, <1>10, <1>11, <1>12, <1>13
  DEF Next, Updater, Pass, KillPlayer

-----------------------------------------------------------------------------
(* A full grid says of each cell what it is.                               *)
LEMMA FullSays ==
  ASSUME TypeOK
  PROVE  LET packet == [kind |-> "full", cells |-> FullGrid]
         IN /\ packet \in Packets
            /\ \A c \in Cells : ~Quiet(packet, c) /\ \A v : Says(packet, c, v) => v = grid[c]
<1> DEFINE packet == [kind |-> "full", cells |-> FullGrid]
<1>1. packet.kind = "full" /\ packet.cells = FullGrid /\ packet \in Packets
  BY FullShows DEF Packets
<1> HIDE DEF packet
<1>2. \A c \in Cells : ~Quiet(packet, c) /\ \A v : Says(packet, c, v) => v = grid[c]
  BY <1>1, FullShows DEF Quiet, Says
<1> QED BY <1>1, <1>2 DEF packet

(* A redrawn board shows the last word of an update, where there is one.   *)
LEMMA RedrawnSays ==
  ASSUME Height <= 15, NEW update \in Seq(UpdateEntries),
         \A k \in DOMAIN update : Real(update[k]),
         NEW c \in Cells, NEW v, Redrawn(update)[Index(c[1], c[2])] = v
  PROVE  LastWord(update, c, v) \/ (Silent(update, c) /\ Drawn(c) = v)
<1> DEFINE i == Index(c[1], c[2])
           hits == {k \in DOMAIN update : Index(update[k].cell[1], update[k].cell[2]) = i}
           latest == CHOOSE k \in hits : \A j \in hits : j <= k
<1>0. DOMAIN update = 1..Len(update) /\ Len(update) \in Nat /\ i \in Indexes
  BY LenProperties, IndexFacts
<1>1. v = IF hits = {} THEN cells[i] ELSE update[latest].status
  BY <1>0 DEF Redrawn
<1>2. \A k \in DOMAIN update : k \in hits <=> update[k].cell = c
  <2> TAKE k \in DOMAIN update
  <2>1. update[k].cell \in Cells \/ update[k].cell = AsBytes(Off)
    BY DEF Real
  <2>2. ASSUME Index(update[k].cell[1], update[k].cell[2]) = i PROVE update[k].cell = c
    <3>1. update[k].cell # AsBytes(Off)
      BY <1>0, <2>2, OffTheBoard
    <3> QED BY <2>1, <2>2, <3>1, IndexFacts
  <2>3. k \in hits <=> Index(update[k].cell[1], update[k].cell[2]) = i
    OBVIOUS
  <2> QED BY <2>2, <2>3
<1>3. hits \subseteq DOMAIN update
  OBVIOUS
<1>4. CASE hits = {}
  <2>1. Silent(update, c)
    BY <1>2, <1>4 DEF Silent
  <2> QED BY <1>1, <1>4, <2>1 DEF Drawn
<1>5. CASE hits # {}
  <2>1. latest \in hits /\ \A j \in hits : j <= latest
    <3>1. hits \in SUBSET (1..Len(update))
      BY <1>0, <1>3
    <3> HIDE DEF hits
    <3> QED BY <1>0, <1>5, <3>1, LastHit
  <2> HIDE DEF hits, latest
  <2>2. latest \in DOMAIN update /\ update[latest].cell = c /\ update[latest].status = v
    BY <1>1, <1>2, <1>3, <1>5, <2>1
  <2>3. \A j \in DOMAIN update : latest < j => update[j].cell # c
    <3> TAKE j \in DOMAIN update
    <3>1. latest < j => ~(j <= latest)
      BY <1>0, <2>2
    <3> QED BY <1>2, <2>1, <3>1
  <2> QED BY <2>2, <2>3 DEF LastWord
<1> QED BY <1>4, <1>5

(* The other steps, of the updater, the network and the client.            *)
LEMMA WordsSendFull ==
  ASSUME TypeOK, BoardTypes, SendingInv, WordsInv, SendFull
  PROVE  WordsInv'
<1> SUFFICES ASSUME running', NEW c \in Cells, NEW v, Word(c, v)'
             PROVE  Agrees(c, v)'
  BY DEF WordsInv
<1>1. /\ UNCHANGED vars /\ UNCHANGED <<running, init, cells>>
      /\ Transmit([kind |-> "full", cells |-> FullGrid]) /\ copies > 0
  BY DEF SendFull, client
<1>2. pc = "round"
  BY <1>1 DEF SendFull, SendingInv
<1>3. movementUpdates' = <<>> /\ bombUpdates' = <<>> /\ grid' = grid
  BY <1>1, <1>2 DEF vars, updates, board, SendingInv
<1>4. AirSays(c, v)'
  BY <1>3, NoWords DEF Word
<1>5. PICK packet : packet = [kind |-> "full", cells |-> FullGrid]
  OBVIOUS
<1>6. packet \in Packets /\ ~Quiet(packet, c) /\ (Says(packet, c, v) => v = grid[c])
  BY <1>5, FullSays
<1>7. air' = Append(air, packet)
  BY <1>1, <1>5 DEF Transmit
<1>8. Says(packet, c, v) \/ (Quiet(packet, c) /\ AirSays(c, v))
  BY <1>1, <1>4, <1>6, <1>7, AirAppended DEF BoardTypes
<1> QED BY <1>3, <1>6, <1>8 DEF Agrees

LEMMA WordsReceive ==
  ASSUME Height <= 15, BoardInv, SendingInv, WordsInv, Receive
  PROVE  WordsInv'
<1> SUFFICES ASSUME faults' = 0, running', ~raced', Reporting', NEW c \in Cells, NEW v, Word(c, v)'
             PROVE  Agrees(c, v)' \/ Unlisted(c)'
  BY DEF WordsInv
<1>1. /\ UNCHANGED vars /\ UNCHANGED <<copies, faults>>
      /\ ReceiveFull \/ ReceivePartial
  BY DEF Receive, ReceiveFull, ReceivePartial, ReceiveEarly
<1>2. /\ UNCHANGED <<pc, grid, movementUpdates, bombUpdates, raced, tcp, position, cursor>>
      /\ UNCHANGED running
  BY <1>1 DEF vars, board, loops, updates, leave, ReceiveFull, ReceivePartial
<1>3. air \in Seq(Packets) /\ air # <<>> /\ air' = Tail(air)
  BY <1>1 DEF ReceiveFull, ReceivePartial, BoardInv, BoardTypes
<1>4. Head(air) \in Packets /\ RealPacket(Head(air))
  <2>1. 1 \in DOMAIN air /\ Head(air) = air[1] /\ Head(air) \in Packets
    BY <1>3, HeadTailProperties
  <2> QED BY <2>1 DEF BoardInv, AirInv
<1>5. init' /\ Drawn(c)' = v =>
        Says(Head(air), c, v) \/ (Quiet(Head(air), c) /\ init /\ Drawn(c) = v)
  <2>1. CASE ReceiveFull
    BY <2>1 DEF ReceiveFull, Drawn, Says
  <2>2. CASE ReceivePartial
    <3>1. /\ Head(air).kind = "partial" /\ init /\ cells' = Redrawn(Head(air).updates)
      BY <2>2 DEF ReceivePartial
    <3>2. /\ Head(air).updates \in Seq(UpdateEntries)
          /\ \A k \in DOMAIN Head(air).updates : Real(Head(air).updates[k])
      BY <1>4, <3>1 DEF RealPacket, Packets
    <3>3. Drawn(c)' = v => \/ LastWord(Head(air).updates, c, v)
                           \/ Silent(Head(air).updates, c) /\ Drawn(c) = v
      <4>1. Drawn(c)' = Redrawn(Head(air).updates)[Index(c[1], c[2])]
        BY <3>1 DEF Drawn
      <4> QED BY <3>2, <4>1, RedrawnSays
    <3> QED BY <3>1, <3>3 DEF Says, Quiet
  <2> QED BY <1>1, <2>1, <2>2
<1>6. AirSays(c, v)' => AirSays(c, v)
  BY <1>3, <1>5, AirTaken
<1>7. Word(c, v)
  BY <1>2, <1>6 DEF Word
<1>8. Agrees(c, v) \/ Unlisted(c)
  BY <1>1, <1>2, <1>7 DEF WordsInv, Reporting
<1> QED BY <1>2, <1>8 DEF Agrees, Gone, Unlisted

LEMMA WordsFault ==
  ASSUME NEW i, Lose(i) \/ Repeat(i) \/ Overtake(i), faults \in Nat
  PROVE  WordsInv'
<1>1. faults' = faults + 1
  BY DEF Lose, Repeat, Overtake, Fault
<1>2. faults' # 0
  BY <1>1
<1> QED BY <1>2 DEF WordsInv

-----------------------------------------------------------------------------
ReportInv == TypeOK /\ ControlInv /\ FieldInv /\ BoardInv /\ SendingInv /\ BombWordsInv /\ WordsInv

LEMMA InitReport == BroadcastInit => ReportInv
<1> SUFFICES ASSUME BroadcastInit PROVE ReportInv
  OBVIOUS
<1>1. Init /\ TypeOK /\ ControlInv /\ FieldInv /\ BoardInv
  <2>1. Init
    BY DEF BroadcastInit
  <2> QED BY <2>1, InitType, InitField, InitBoard DEF FieldInv
<1>2. /\ pc = "round" /\ movementUpdates = <<>> /\ bombUpdates = <<>>
      /\ faults = 0 /\ air = <<>> /\ init = FALSE /\ copies = 0
  BY DEF BroadcastInit, Init, Start
<1>3. SendingInv /\ BombWordsInv
  BY <1>2 DEF SendingInv, BombWordsInv
<1>4. \A c, v : ~Word(c, v)
  BY <1>2, NoWords DEF Word, AirSays
<1> QED BY <1>1, <1>3, <1>4 DEF ReportInv, WordsInv

LEMMA ReportStep ==
  ASSUME Height <= 15, ReportInv, [BroadcastNext]_broadcastVars
  PROVE  ReportInv'
<1>1. [Next]_vars
  BY StepIsMatch
<1>2. TypeOK' /\ ControlInv' /\ FieldInv'
  BY <1>1, NextType, NextField DEF ReportInv
<1>3. SendingInv' /\ BombWordsInv'
  BY <1>1, <1>2, SendingStep, BombWordsStep DEF ReportInv
<1>4. BoardInv'
  BY BoardStep DEF ReportInv

<1>5. WordsInv'
  <2>1. CASE MatchStep(Next)
    BY <2>1, WordsMatchStep DEF ReportInv
  <2>2. CASE SendFull
    BY <2>2, WordsSendFull DEF ReportInv, BoardInv
  <2>3. CASE \E i \in DOMAIN air : Lose(i) \/ Repeat(i) \/ Overtake(i)
    BY <2>3, WordsFault DEF ReportInv, SendingInv
  <2>4. CASE Receive
    BY <2>4, WordsReceive DEF ReportInv
  <2>5. CASE UNCHANGED broadcastVars
    <3>1. UNCHANGED <<grid, movementUpdates, bombUpdates, pc, cursor, position, tcp, raced, copies,
                      air, faults, running, init, cells>>
      BY <2>5 DEF broadcastVars, client, vars, board, loops, updates, leave
    <3>2. ASSUME NEW c, NEW v
          PROVE  /\ Word(c, v)' = Word(c, v) /\ Agrees(c, v)' = Agrees(c, v)
                 /\ Unlisted(c)' = Unlisted(c)
      BY <3>1 DEF Word, AirSays, Says, Quiet, LastWord, Silent, Drawn, Agrees, Gone, Unlisted
    <3> QED BY <3>1, <3>2 DEF ReportInv, WordsInv, Reporting
  <2> QED BY <2>1, <2>2, <2>3, <2>4, <2>5 DEF BroadcastNext
<1> QED BY <1>2, <1>3, <1>4, <1>5 DEF ReportInv

(* On a field of at most 15 by 15: over a network that keeps packets and   *)
(* their order, the packets of the passes and the full grids tell a client *)
(* who has read them all what the grid is, in each cell, but for the two   *)
(* cases of Unreported, which both need a player who has closed his        *)
(* connection.                                                             *)
THEOREM ReportsSuffice ==
  ASSUME Height <= 15
  PROVE  BroadcastSpec => []PartialsSuffice
<1>1. BroadcastInit => ReportInv
  BY InitReport
<1>2. ReportInv /\ [BroadcastNext]_broadcastVars => ReportInv'
  BY ReportStep
<1>3. ReportInv => PartialsSuffice
  <2> SUFFICES ASSUME ReportInv, faults = 0, air = <<>>, init, ~raced,
                      pc \in {"round", "count"}, copies = 0,
                      NEW c \in Cells
               PROVE  Drawn(c) = grid[c] \/ Unreported(c)
    BY DEF PartialsSuffice
  <2>1. Reporting /\ running /\ ~Unlisted(c)
    <3>1. MaxPlayers # 0
      BY BoardAssumption
    <3> QED BY <3>1 DEF ReportInv, SendingInv, Reporting, Unlisted
  <2>2. Word(c, Drawn(c))
    <3>1. movementUpdates = <<>> /\ bombUpdates = <<>>
      BY DEF ReportInv, SendingInv
    <3> QED BY <3>1, NoWords DEF Word, AirSays
  <2>3. Agrees(c, Drawn(c))
    BY <2>1, <2>2 DEF ReportInv, WordsInv
  <2> QED BY <2>3 DEF Agrees, Gone, Unreported
<1> QED
  BY <1>1, <1>2, <1>3, PTL DEF BroadcastSpec

=============================================================================
