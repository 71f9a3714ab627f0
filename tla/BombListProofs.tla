--------------------------- MODULE BombListProofs ---------------------------
(***************************************************************************)
(* Proofs about BombList, for any number of players, passes per round and  *)
(* seconds a bomb ticks, and for any addresses that malloc may return: the *)
(* list stays whole, only its head is ever unlinked, the bombs of a player *)
(* are bounded, and the list implements the queue.                         *)
(***************************************************************************)
EXTENDS BombList, FiniteSetTheorems, SequenceTheorems, TLAPS

(* Whether the walk has counted bomb n down already.                       *)
Done(n) ==
  \/ pc = "walk" /\ (current = NULL \/ Place(n) < Place(current))
  \/ pc = "check" /\ n = current

(* The rounds that bomb n had left before the walk.                        *)
Left(n) == bomb[n].seconds_counter + (IF Done(n) THEN 1 ELSE 0)

(* The bombs of player p with k rounds left.                               *)
Batch(p, k) == {n \in allocated : bomb[n].player = p /\ Left(n) = k}

(* Older bombs have fewer rounds left, and none of the list is due for     *)
(* longer than until the walk comes by.                                    *)
RoundsInv ==
  /\ \A n \in allocated : Left(n) \in 1..BOMB_TIME_TO_EXPLODE_SECONDS
  /\ \A n \in NodesOfList : bomb[n].seconds_counter >= 1
  /\ \A i, j \in DOMAIN order : i <= j => Left(order[i]) <= Left(order[j])

(* What is unlinked was the head.                                          *)
HeadInv == pc = "check" => bomb[current].next = Nth(1)

(* A player drops one bomb a pass at most, and there are Ticks passes      *)
(* between two walks.                                                      *)
Limit(p, k) ==
  IF pc = "pass" /\ k = BOMB_TIME_TO_EXPLODE_SECONDS
  THEN tick + (IF p < turn THEN 1 ELSE 0) ELSE Ticks

BatchInv ==
  /\ IsFiniteSet(allocated)
  /\ pc # "pass" => tick = 0 /\ turn = 0
  /\ \A p \in Players, k \in 1..BOMB_TIME_TO_EXPLODE_SECONDS :
       Cardinality(Batch(p, k)) <= Limit(p, k)

ListInv == TypeOK /\ LinksAgree /\ NothingDangles /\ RoundsInv /\ HeadInv

-----------------------------------------------------------------------------
(* The list as a sequence of nodes, each with its place.                   *)
LEMMA Places ==
  ASSUME TypeOK, LinksAgree
  PROVE  /\ Len(order) \in Nat /\ DOMAIN order = 1..Len(order)
         /\ \A i \in 1..Len(order) : order[i] \in Nodes /\ order[i] # NULL
         /\ \A i \in 1..Len(order) : Place(order[i]) = i
         /\ Place(NULL) = Len(order) + 1
         /\ \A i \in Int : Nth(i) = IF i \in 1..Len(order) THEN order[i] ELSE NULL
         /\ order = <<>> <=> Len(order) = 0
<1>1. Len(order) \in Nat /\ DOMAIN order = 1..Len(order)
  BY DEF TypeOK
<1>2. \A i \in 1..Len(order) : order[i] \in Nodes /\ order[i] # NULL
  BY <1>1, BombListAssumption DEF TypeOK
<1>3. ASSUME NEW i \in 1..Len(order)
      PROVE  Place(order[i]) = i
  <2>1. \E j \in DOMAIN order : order[j] = order[i]
    BY <1>1
  <2>2. \A j \in DOMAIN order : order[j] = order[i] => j = i
    BY <1>1 DEF LinksAgree
  <2> QED BY <1>2, <2>1, <2>2 DEF Place
<1>4. order = <<>> <=> Len(order) = 0
  BY <1>1, EmptySeq DEF TypeOK
<1> QED BY <1>1, <1>2, <1>3, <1>4 DEF Place, Nth

LEMMA NodesAreListed ==
  ASSUME TypeOK, LinksAgree, NEW n \in NodesOfList
  PROVE  /\ n \in Nodes /\ n # NULL
         /\ Place(n) \in 1..Len(order) /\ order[Place(n)] = n
<1>1. PICK i \in 1..Len(order) : n = order[i]
  BY Places DEF NodesOfList
<1> QED BY <1>1, Places

(* The nodes that are not of the list are those malloc may return.         *)
LEMMA Allocated ==
  ASSUME ListInv
  PROVE  /\ \A i \in 1..Len(order) : order[i] \in allocated
         /\ pc # "check" => \A n \in allocated : \E i \in 1..Len(order) : n = order[i]
  BY Places DEF ListInv, NothingDangles, NodesOfList

LEMMA LeftIsNat ==
  ASSUME TypeOK, NEW n \in Nodes
  PROVE  /\ bomb[n] \in BombType /\ bomb[n].seconds_counter \in 0..255
         /\ Left(n) \in Nat
         /\ Done(n) => Left(n) = bomb[n].seconds_counter + 1
         /\ ~Done(n) => Left(n) = bomb[n].seconds_counter
<1>1. bomb[n] \in BombType /\ bomb[n].seconds_counter \in 0..255
  BY DEF TypeOK, BombType
<1> QED BY <1>1 DEF Left

(* A bomb that is due when the walk comes to it is the oldest: one before  *)
(* it would have had no round left.                                        *)
LEMMA DueIsHead ==
  ASSUME ListInv, pc = "walk", current # NULL, Due(current)
  PROVE  /\ Len(order) >= 1 /\ current = order[1] /\ bombs_head = current
         /\ Left(current) = 1
<1> USE DEF ListInv
<1>1. PICK i \in 1..Len(order) : current = order[i]
  BY Places DEF NothingDangles, NodesOfList
<1>2. Left(current) = 1
  BY <1>1, Places DEF Left, Done, Due
<1>3. i = 1
  <2>1. ASSUME i # 1 PROVE FALSE
    <3>1. 1 \in 1..Len(order) /\ 1 <= i /\ 1 < i
      BY <1>1, <2>1, Places
    <3>2. Done(order[1])
      BY <1>1, <3>1, Places DEF Done
    <3>3. order[1] \in Nodes /\ order[1] \in NodesOfList
      BY <3>1, Places DEF NodesOfList
    <3>4. Left(order[1]) \in Nat /\ Left(order[1]) >= 2
      <4>1. bomb[order[1]].seconds_counter >= 1
        BY <3>3 DEF RoundsInv
      <4>2. bomb[order[1]].seconds_counter \in 0..255 /\ Left(order[1]) = bomb[order[1]].seconds_counter + 1
        BY <3>2, <3>3, LeftIsNat
      <4>3. \A x \in 0..255 : x >= 1 => x + 1 \in Nat /\ x + 1 >= 2
        OBVIOUS
      <4> QED BY <4>1, <4>2, <4>3, Zenon
    <3>5. Left(order[1]) <= Left(order[i])
      BY <1>1, <3>1, Places DEF RoundsInv
    <3> QED BY <1>1, <1>2, <3>4, <3>5
  <2> QED BY <2>1
<1>4. bombs_head = Nth(1)
  BY DEF LinksAgree
<1> QED BY <1>1, <1>2, <1>3, <1>4, Places

-----------------------------------------------------------------------------
(* Steps that leave the list and the links alone.                          *)
LEMMA ListKept ==
  ASSUME TypeOK, LinksAgree,
         UNCHANGED <<order, allocated, bombs_head, bombs_tail>>,
         bomb' \in [Nodes -> BombType],
         \A m \in Nodes : bomb'[m].next = bomb[m].next /\ bomb'[m].prev = bomb[m].prev,
         pc' # "clear" => pc # "clear"
  PROVE  LinksAgree' /\ NodesOfList' = NodesOfList /\ (\A i \in Int : Nth(i)' = Nth(i))
         /\ \A n : Place(n)' = Place(n)
<1>1. NodesOfList' = NodesOfList /\ (\A i \in Int : Nth(i)' = Nth(i)) /\ \A n : Place(n)' = Place(n)
  BY DEF NodesOfList, Nth, Place
<1>2. \A i \in DOMAIN order : i \in Int /\ i + 1 \in Int /\ i - 1 \in Int /\ order[i] \in Nodes
  BY Places
<1>3. 1 \in Int /\ Len(order) \in Int
  BY Places
<1> QED BY <1>1, <1>2, <1>3 DEF LinksAgree

LEMMA BombFields ==
  ASSUME NEW b \in BombType, NEW x \in 0..255
  PROVE  /\ [b EXCEPT !.seconds_counter = x] \in BombType
         /\ [b EXCEPT !.seconds_counter = x].seconds_counter = x
         /\ [b EXCEPT !.seconds_counter = x].player = b.player
         /\ [b EXCEPT !.seconds_counter = x].prev = b.prev
         /\ [b EXCEPT !.seconds_counter = x].next = b.next
BY DEF BombType

(* Bombs that have as many rounds left as before keep their order.         *)
LEMMA RoundsKept ==
  ASSUME RoundsInv, allocated' \subseteq allocated,
         \A n \in allocated' : Left(n)' = Left(n),
         \A n \in NodesOfList' : n \in allocated' /\ bomb'[n].seconds_counter >= 1,
         \A i, j \in DOMAIN order' : i <= j => Left(order'[i]) <= Left(order'[j])
  PROVE  RoundsInv'
<1>1. \A i \in DOMAIN order' : order'[i] \in NodesOfList'
  BY DEF NodesOfList
<1>2. ASSUME NEW i \in DOMAIN order', NEW j \in DOMAIN order', i <= j
      PROVE  Left(order[i])' <= Left(order[j])'
  <2>1. order'[i] \in allocated' /\ order'[j] \in allocated'
    BY <1>1
  <2>2. ASSUME NEW m \in allocated', NEW n \in allocated', Left(m) <= Left(n)
        PROVE  Left(m)' <= Left(n)'
    BY <2>2
  <2> QED BY <1>2, <2>1, <2>2
<1> QED BY <1>2 DEF RoundsInv

-----------------------------------------------------------------------------
(* The steps.  KeptBombs(n) is what a step leaves of a bomb: its player    *)
(* and the rounds it had left before the walk.                             *)
KeptBombs == \A n \in allocated \cap allocated' :
               bomb'[n].player = bomb[n].player /\ Left(n)' = Left(n)

LEMMA QuietStep ==
  ASSUME ListInv, NoBomb \/ EndPass
  PROVE  ListInv' /\ KeptBombs
<1> USE DEF ListInv
<1>1. UNCHANGED list /\ pc = "pass"
  BY DEF NoBomb, EndPass
<1>2. /\ pc' \in {"pass", "walk", "clear"}
      /\ pc' = "pass" => current' = current
      /\ pc' # "pass" => current' = bombs_head
  BY <1>1 DEF NoBomb, EndPass
<1>3. MaxPlayers \in Nat /\ Ticks \in Nat \ {0}
  BY BombListAssumption
<1>4. tick' \in 0..(Ticks - 1) /\ turn' \in 0..MaxPlayers
  <2>1. CASE NoBomb
    BY <2>1, <1>3 DEF NoBomb, TypeOK, Players
  <2>2. CASE EndPass
    BY <2>2, <1>3 DEF EndPass, TypeOK
  <2> QED BY <2>1, <2>2
<1>5. TypeOK'
  BY <1>1, <1>2, <1>4 DEF TypeOK, list
<1>6. /\ LinksAgree' /\ NodesOfList' = NodesOfList /\ (\A i \in Int : Nth(i)' = Nth(i))
      /\ \A n : Place(n)' = Place(n)
  BY <1>1, ListKept DEF list, TypeOK
<1>7. bombs_head = Nth(1) /\ allocated = NodesOfList
  BY <1>1 DEF LinksAgree, NothingDangles
<1>8. NothingDangles'
  BY <1>1, <1>2, <1>6, <1>7, Places DEF NothingDangles, list, NodesOfList
<1>9. \A n \in allocated : ~Done(n) /\ ~Done(n)'
  <2>1. ASSUME NEW n \in allocated PROVE ~Done(n)'
    <3>1. Len(order) >= 1 /\ Place(n) >= 1 /\ Place(n) \in Nat
      BY <1>7, NodesAreListed, Places
    <3>2. bombs_head = order[1] /\ bombs_head # NULL /\ Place(bombs_head) = 1
      BY <1>7, <3>1, Places
    <3>3. ~(Place(n) < Place(bombs_head))
      BY <3>1, <3>2
    <3> QED BY <1>2, <1>6, <3>2, <3>3 DEF Done
  <2> QED BY <1>1, <2>1 DEF Done
<1>10. \A n \in allocated : Left(n)' = Left(n)
  BY <1>1, <1>9 DEF Left, list
<1>11. RoundsInv'
  BY <1>1, <1>6, <1>7, <1>10, RoundsKept DEF RoundsInv, list
<1> QED BY <1>1, <1>2, <1>5, <1>6, <1>8, <1>10, <1>11 DEF HeadInv, KeptBombs, list

LEMMA CountDownStep ==
  ASSUME ListInv, CountDown
  PROVE  ListInv' /\ KeptBombs
<1> USE DEF ListInv
<1>1. /\ pc = "walk" /\ current # NULL /\ ~Due(current) /\ bomb' = Counted(current)
      /\ current' = bomb[current].next
      /\ UNCHANGED <<allocated, bombs_head, bombs_tail, order, pc, tick, turn>>
  BY DEF CountDown
<1>2. PICK i \in 1..Len(order) : current = order[i]
  BY <1>1, Places DEF NothingDangles, NodesOfList
<1> Len(order) \in Nat /\ i \in Nat /\ i <= Len(order) /\ 1 <= i
  BY Places
<1>3. current \in Nodes /\ current \in NodesOfList
  BY <1>2, Places DEF NodesOfList
<1>4. bomb[current].seconds_counter \in 2..255
  <2>1. bomb[current].seconds_counter \in 0..255
    BY <1>3, LeftIsNat
  <2>2. bomb[current].seconds_counter >= 1 /\ bomb[current].seconds_counter # 1
    BY <1>1, <1>3 DEF RoundsInv, Due
  <2> QED BY <2>1, <2>2
<1>5. /\ bomb' \in [Nodes -> BombType]
      /\ \A m \in Nodes : /\ bomb'[m].next = bomb[m].next /\ bomb'[m].prev = bomb[m].prev
                          /\ bomb'[m].player = bomb[m].player
                          /\ m # current => bomb'[m].seconds_counter = bomb[m].seconds_counter
      /\ bomb'[current].seconds_counter = bomb[current].seconds_counter - 1
  <2>1. \A x \in 2..255 : (x - 1) % 256 = x - 1 /\ x - 1 \in 0..255 /\ x - 1 >= 1
    OBVIOUS
  <2>2. bomb' = [bomb EXCEPT ![current].seconds_counter = bomb[current].seconds_counter - 1]
    BY <1>1, <1>3, <1>4, <2>1 DEF Counted, TypeOK
  <2>3. bomb[current].seconds_counter - 1 \in 0..255
    BY <1>4, <2>1
  <2>4. bomb' = [bomb EXCEPT ![current] =
                   [bomb[current] EXCEPT !.seconds_counter = bomb[current].seconds_counter - 1]]
    BY <2>2
  <2>5. [bomb[current] EXCEPT !.seconds_counter = bomb[current].seconds_counter - 1] \in BombType
    BY <1>3, <2>3, LeftIsNat, BombFields
  <2>6. bomb' \in [Nodes -> BombType]
    BY <1>3, <2>4, <2>5 DEF TypeOK
  <2>7. \A m \in Nodes : m # current => bomb'[m] = bomb[m]
    BY <1>3, <2>4 DEF TypeOK
  <2>8. /\ bomb'[current].next = bomb[current].next /\ bomb'[current].prev = bomb[current].prev
        /\ bomb'[current].player = bomb[current].player
        /\ bomb'[current].seconds_counter = bomb[current].seconds_counter - 1
    <3>1. bomb'[current] = [bomb[current] EXCEPT !.seconds_counter = bomb[current].seconds_counter - 1]
      BY <1>3, <2>4 DEF TypeOK
    <3>2. bomb[current] \in BombType
      BY <1>3, LeftIsNat
    <3> DEFINE x == bomb[current].seconds_counter - 1
    <3>3. x \in 0..255
      BY <2>3
    <3>4. bomb'[current] = [bomb[current] EXCEPT !.seconds_counter = x]
      BY <3>1
    <3>5. /\ [bomb[current] EXCEPT !.seconds_counter = x].seconds_counter = x
          /\ [bomb[current] EXCEPT !.seconds_counter = x].player = bomb[current].player
          /\ [bomb[current] EXCEPT !.seconds_counter = x].prev = bomb[current].prev
          /\ [bomb[current] EXCEPT !.seconds_counter = x].next = bomb[current].next
      <4> HIDE DEF x
      <4> QED BY <3>2, <3>3, BombFields, Zenon
    <3> HIDE DEF x
    <3>6. bomb'[current].seconds_counter = x
      BY <3>4, <3>5
    <3> QED BY <3>4, <3>5, <3>6 DEF x
  <2> QED BY <2>6, <2>7, <2>8
<1>6. /\ LinksAgree' /\ NodesOfList' = NodesOfList /\ (\A j \in Int : Nth(j)' = Nth(j))
      /\ \A n : Place(n)' = Place(n)
  BY <1>1, <1>5, ListKept
<1>7. current' = Nth(i + 1) /\ i + 1 \in Int
  BY <1>1, <1>2, Places DEF LinksAgree
<1>8. TypeOK'
  BY <1>1, <1>3, <1>5, <1>7 DEF TypeOK, BombType
<1>9. NothingDangles'
  BY <1>1, <1>6, <1>7, Places DEF NothingDangles, NodesOfList
<1>10. allocated = NodesOfList
  BY <1>1 DEF NothingDangles
<1>11. \A n \in NodesOfList : n # current => (Done(n)' <=> Done(n))
  <2>1. ASSUME NEW n \in NodesOfList, n # current
        PROVE  (current' = NULL \/ Place(n) < Place(current')) <=> Place(n) < Place(current)
    <3>1. Place(n) \in 1..Len(order) /\ Place(n) # i /\ Place(current) = i
      BY <1>2, <2>1, NodesAreListed, Places
    <3>2. CASE i = Len(order)
      BY <1>7, <3>1, <3>2, Places
    <3>3. CASE i # Len(order)
      <4>1. i + 1 \in 1..Len(order)
        BY <3>3
      <4>2. current' # NULL /\ Place(current') = i + 1
        BY <1>7, <4>1, Places
      <4> QED BY <3>1, <4>2, Places
    <3> QED BY <3>2, <3>3
  <2> QED BY <1>1, <1>6, <2>1 DEF Done
<1>12. ASSUME NEW n, n = current
       PROVE  ~Done(n) /\ Done(n)'
  <2>1. Place(n) = i
    BY <1>2, <1>12, Places
  <2>2. ~Done(n)
    BY <1>1, <1>12, <2>1 DEF Done
  <2>3. current' = NULL \/ Place(n) < Place(current')
    <3>1. CASE i = Len(order)
      BY <1>7, <3>1, Places
    <3>2. CASE i # Len(order)
      <4>1. i + 1 \in 1..Len(order)
        BY <3>2
      <4> QED BY <1>7, <2>1, <4>1, Places
    <3> QED BY <3>1, <3>2
  <2> QED BY <1>1, <1>6, <2>2, <2>3 DEF Done
<1>13. \A n \in NodesOfList : Left(n)' = Left(n)
  <2>1. ASSUME NEW n \in NodesOfList PROVE Left(n)' = Left(n)
    <3>1. n \in Nodes
      BY NodesAreListed
    <3>2. CASE n = current
      <4>1. bomb'[n].seconds_counter = bomb[n].seconds_counter - 1
        BY <1>5, <3>2
      <4>2. bomb[n].seconds_counter \in 2..255
        BY <1>4, <3>2
      <4>3. \A x \in 2..255 : (x - 1) + 1 = x + 0
        OBVIOUS
      <4> QED BY <1>12, <3>2, <4>1, <4>2, <4>3 DEF Left
    <3>3. CASE n # current
      BY <1>5, <1>11, <2>1, <3>1, <3>3 DEF Left
    <3> QED BY <3>2, <3>3
  <2> QED BY <2>1
<1>14. RoundsInv'
  <2>1. \A n \in NodesOfList : bomb'[n].seconds_counter >= 1
    <3>1. ASSUME NEW n \in NodesOfList PROVE bomb'[n].seconds_counter >= 1
      <4>1. n \in Nodes /\ bomb[n].seconds_counter >= 1
        BY NodesAreListed DEF RoundsInv
      <4>2. CASE n = current
        <5>1. bomb'[n].seconds_counter = bomb[n].seconds_counter - 1
          BY <1>5, <4>2
        <5>2. bomb[n].seconds_counter \in 2..255
          BY <1>4, <4>2
        <5>3. \A x \in 2..255 : x - 1 >= 1
          OBVIOUS
        <5> QED BY <5>1, <5>2, <5>3
      <4>3. CASE n # current
        BY <1>5, <4>1, <4>3
      <4> QED BY <4>2, <4>3
    <3> QED BY <3>1
  <2> QED BY <1>1, <1>6, <1>10, <1>13, <2>1, RoundsKept DEF RoundsInv
<1>15. KeptBombs
  BY <1>1, <1>5, <1>10, <1>13, NodesAreListed DEF KeptBombs
<1> QED BY <1>1, <1>6, <1>8, <1>9, <1>14, <1>15 DEF HeadInv

(* The list without its head.                                              *)
LEMMA WithoutHead ==
  ASSUME TypeOK, LinksAgree, Len(order) >= 1
  PROVE  /\ RemoveAt(order, 1) = Tail(order)
         /\ Tail(order) \in Seq(Nodes) /\ Len(Tail(order)) = Len(order) - 1
         /\ DOMAIN Tail(order) = 1..(Len(order) - 1)
         /\ \A i \in 1..(Len(order) - 1) : Tail(order)[i] = order[i + 1] /\ i + 1 \in 1..Len(order)
<1>1. order \in Seq(Nodes) /\ order # <<>>
  BY Places DEF TypeOK
<1>2. SubSeq(order, 1, 1 - 1) = <<>>
  BY SubSeqEmpty
<1>3. SubSeq(order, 2, Len(order)) = Tail(order) /\ Tail(order) \in Seq(Nodes)
  BY <1>1, TailIsSubSeq, HeadTailProperties
<1>4. RemoveAt(order, 1) = Tail(order)
  BY <1>2, <1>3, ConcatEmptySeq DEF RemoveAt
<1>5. Len(Tail(order)) = Len(order) - 1 /\ \A i \in 1..Len(Tail(order)) : Tail(order)[i] = order[i + 1]
  BY <1>1, HeadTailProperties
<1> QED BY <1>3, <1>4, <1>5, Places

LEMMA UnlinkStep ==
  ASSUME ListInv, Unlink
  PROVE  /\ ListInv' /\ KeptBombs
         /\ order' = Tail(order) /\ current = bombs_head /\ current = order[1]
         /\ \A i \in 1..(Len(order) - 1) :
              /\ bomb'[order[i + 1]].player = bomb[order[i + 1]].player
              /\ bomb'[order[i + 1]].seconds_counter = bomb[order[i + 1]].seconds_counter
<1> USE DEF ListInv
<1> DEFINE q == bomb[current].next
<1>1. /\ pc = "walk" /\ current # NULL /\ Due(current) /\ pc' = "check"
      /\ UNCHANGED <<allocated, current, tick, turn>>
  BY DEF Unlink
<1>2. Len(order) >= 1 /\ current = order[1] /\ bombs_head = current /\ Left(current) = 1
  BY <1>1, DueIsHead
<1> Len(order) \in Nat
  BY Places
<1>3. current \in Nodes /\ Place(current) = 1
  BY <1>2, Places
<1>4. bomb[current].prev = NULL /\ q = Nth(2)
  BY <1>1, <1>2, Places DEF LinksAgree
<1>5. order' = Tail(order)
  <2>1. (CHOOSE i \in DOMAIN order : order[i] = current) = 1
    BY <1>1, <1>3 DEF Place
  <2> QED BY <1>2, <2>1, WithoutHead DEF Unlink
<1>6. /\ bomb' = [m \in Nodes |-> IF m = current THEN Counted(m)[m]
                                  ELSE IF m = q THEN [bomb[m] EXCEPT !.prev = NULL]
                                  ELSE bomb[m]]
      /\ bombs_head' = q
      /\ bombs_tail' = TailWithout(current)
  BY <1>4, BombListAssumption DEF Unlink
<1>7. Counted(current)[current] = [bomb[current] EXCEPT !.seconds_counter = 0]
  <2>1. Counted(current)[current] =
          [bomb[current] EXCEPT !.seconds_counter = (bomb[current].seconds_counter - 1) % 256]
    BY <1>3 DEF Counted, TypeOK
  <2>2. bomb[current].seconds_counter = 1 /\ (1 - 1) % 256 = 0
    BY <1>1 DEF Due
  <2> QED BY <2>1, <2>2
<1>8. /\ bomb' \in [Nodes -> BombType]
      /\ \A m \in Nodes : /\ bomb'[m].next = bomb[m].next
                          /\ bomb'[m].player = bomb[m].player
                          /\ m # current => bomb'[m].seconds_counter = bomb[m].seconds_counter
                          /\ m # current /\ m # q => bomb'[m].prev = bomb[m].prev
                          /\ m = q /\ m # current => bomb'[m].prev = NULL
      /\ bomb'[current].seconds_counter = 0
  <2>1. ASSUME NEW m \in Nodes
        PROVE  /\ bomb'[m] \in BombType
               /\ bomb'[m].next = bomb[m].next
               /\ bomb'[m].player = bomb[m].player
               /\ m # current => bomb'[m].seconds_counter = bomb[m].seconds_counter
               /\ m # current /\ m # q => bomb'[m].prev = bomb[m].prev
               /\ m = q /\ m # current => bomb'[m].prev = NULL
               /\ m = current => bomb'[m].seconds_counter = 0
    <3>1. bomb[m] \in BombType
      BY DEF TypeOK
    <3>2. CASE m = current
      <4>1. bomb'[m] = [bomb[m] EXCEPT !.seconds_counter = 0] /\ 0 \in 0..255
        BY <1>6, <1>7, <3>2
      <4> QED BY <3>1, <3>2, <4>1 DEF BombType
    <3>3. CASE m # current /\ m = q
      <4>1. bomb'[m] = [bomb[m] EXCEPT !.prev = NULL]
        BY <1>6, <3>3
      <4> QED BY <3>1, <3>3, <4>1 DEF BombType
    <3>4. CASE m # current /\ m # q
      BY <1>6, <3>1, <3>4
    <3> QED BY <3>2, <3>3, <3>4
  <2> QED BY <1>3, <1>6, <2>1
<1>9. /\ Len(order') = Len(order) - 1 /\ order' \in Seq(Nodes) /\ DOMAIN order' = 1..(Len(order) - 1)
      /\ \A i \in 1..(Len(order) - 1) : order'[i] = order[i + 1] /\ i + 1 \in 1..Len(order)
  BY <1>2, <1>5, WithoutHead
<1>10. \A i, j \in 1..Len(order) : order[i] = order[j] => i = j
  BY Places
<1>11. \A i \in Int : Nth(i)' = IF i >= 1 THEN Nth(i + 1) ELSE NULL
  BY <1>9, Places DEF Nth
<1>12. LinksAgree'
  <2>1. \A i, j \in DOMAIN order' : order'[i] = order'[j] => i = j
    BY <1>9, <1>10
  <2>2. ASSUME NEW i \in 1..(Len(order) - 1)
        PROVE  /\ bomb'[order'[i]].next = Nth(i + 1)'
               /\ bomb'[order'[i]].prev = Nth(i - 1)'
    <3>1. i + 1 \in 1..Len(order) /\ order'[i] = order[i + 1] /\ order[i + 1] \in Nodes
      BY <1>9, Places
    <3>2. bomb[order[i + 1]].next = Nth((i + 1) + 1) /\ bomb[order[i + 1]].prev = Nth((i + 1) - 1)
      BY <1>1, <3>1, Places DEF LinksAgree
    <3>3. order[i + 1] # current /\ Nth(i + 1)' = Nth((i + 1) + 1)
      <4>1. order[i + 1] # current
        BY <1>2, <1>10, <3>1
      <4>2. i + 1 \in Int /\ i + 1 >= 1
        OBVIOUS
      <4> QED BY <1>11, <4>1, <4>2, Zenon
    <3>4. CASE i = 1
      <4>1. q = order[i + 1]
        BY <1>4, <3>1, <3>4, Places
      <4>2. Nth(i - 1)' = NULL /\ bomb'[order[i + 1]].prev = NULL
        BY <1>8, <1>11, <3>1, <3>3, <3>4, <4>1
      <4> QED BY <1>8, <3>1, <3>2, <3>3, <4>1, <4>2
    <3>5. CASE i # 1
      <4>1. q # order[i + 1]
        BY <1>4, <1>10, <3>1, <3>5, Places
      <4>2. (i + 1) - 1 = (i - 1) + 1 /\ Nth(i - 1)' = Nth((i - 1) + 1)
        BY <1>11, <3>5
      <4> QED BY <1>8, <3>1, <3>2, <3>3, <4>1, <4>2
    <3> QED BY <3>4, <3>5
  <2>3. bombs_head' = Nth(1)'
    BY <1>4, <1>6, <1>11
  <2>4. bombs_tail' = IF Len(order) = 1 THEN NULL ELSE order[Len(order)]
    <3>1. bombs_tail = order[Len(order)]
      BY <1>1, <1>2, Places DEF LinksAgree
    <3>2. bombs_tail' = IF q = NULL THEN NULL ELSE IF bomb[q].next = NULL THEN q ELSE bombs_tail
      BY <1>4, <1>6 DEF TailWithout
    <3>3. CASE Len(order) = 1
      <4>1. q = NULL
        BY <1>4, <3>3, Places
      <4> QED BY <3>2, <3>3, <4>1
    <3>4. CASE Len(order) = 2
      <4>1. 2 \in 1..Len(order) /\ 3 \notin 1..Len(order)
        BY <3>4
      <4>2. q = order[2] /\ q # NULL /\ bomb[q].next = NULL
        BY <1>4, <4>1, Places DEF LinksAgree
      <4> QED BY <3>2, <3>4, <4>2
    <3>5. CASE Len(order) > 2
      <4>1. 2 \in 1..Len(order) /\ 3 \in 1..Len(order)
        BY <3>5
      <4>2. q = order[2] /\ q # NULL /\ bomb[q].next = order[3] /\ order[3] # NULL
        BY <1>4, <4>1, Places DEF LinksAgree
      <4> QED BY <3>1, <3>2, <3>5, <4>2
    <3>6. Len(order) = 1 \/ Len(order) = 2 \/ Len(order) > 2
      <4>1. Len(order) \in Nat /\ Len(order) >= 1
        BY <1>2
      <4>2. \A k \in Nat : k >= 1 => k = 1 \/ k = 2 \/ k > 2
        OBVIOUS
      <4> QED BY <4>1, <4>2, Zenon
    <3> QED BY <3>3, <3>4, <3>5, <3>6
  <2>5. bombs_tail' = Nth(Len(order))'
    <3>1. CASE Len(order) = 1
      BY <1>9, <2>4, <3>1 DEF Nth
    <3>2. CASE Len(order) # 1
      <4>1. Len(order') \in DOMAIN order' /\ Len(order') \in 1..(Len(order) - 1)
            /\ Len(order') + 1 = Len(order)
        BY <1>2, <1>9, <3>2
      <4>2. order'[Len(order')] = order[Len(order)]
        BY <1>9, <4>1
      <4> QED BY <2>4, <3>2, <4>1, <4>2 DEF Nth
    <3> QED BY <3>1, <3>2
  <2> QED BY <1>9, <2>1, <2>2, <2>3, <2>5 DEF LinksAgree
<1>13. q \in Nodes \cup {NULL}
  BY <1>4, Places
<1>14. TypeOK'
  <2>1. bombs_tail' \in Nodes \cup {NULL}
    BY <1>4, <1>6, <1>13 DEF TailWithout, TypeOK
  <2> QED BY <1>1, <1>6, <1>8, <1>9, <1>13, <2>1 DEF TypeOK
<1>15. NodesOfList = NodesOfList' \cup {current} /\ current \notin NodesOfList'
  <2>1. current \notin NodesOfList'
    BY <1>2, <1>9, <1>10 DEF NodesOfList
  <2>2. ASSUME NEW n \in NodesOfList, n # current PROVE n \in NodesOfList'
    <3>1. PICK j \in 1..Len(order) : n = order[j]
      BY Places DEF NodesOfList
    <3>2. j # 1 /\ j - 1 \in 1..(Len(order) - 1) /\ (j - 1) + 1 = j
      BY <1>2, <2>2, <3>1
    <3> QED BY <1>9, <3>1, <3>2 DEF NodesOfList
  <2>3. NodesOfList' \subseteq NodesOfList /\ current \in NodesOfList
    BY <1>2, <1>9, Places DEF NodesOfList
  <2> QED BY <2>1, <2>2, <2>3
<1>16. allocated = NodesOfList
  BY <1>1 DEF NothingDangles
<1>17. bomb'[current].next = Nth(1)'
  BY <1>3, <1>4, <1>8, <1>11
<1>18. q \in NodesOfList' \cup {NULL}
  BY <1>4, <1>9, <1>11, Places DEF NodesOfList, Nth
<1>19. NothingDangles' /\ HeadInv'
  BY <1>1, <1>3, <1>4, <1>8, <1>15, <1>16, <1>17, <1>18 DEF NothingDangles, HeadInv
<1>20. \A n \in allocated : Left(n)' = Left(n)
  <2>1. ASSUME NEW n \in allocated PROVE Left(n)' = Left(n)
    <3>1. n \in Nodes /\ Place(n) \in 1..Len(order)
      BY <1>16, NodesAreListed
    <3>2. CASE n = current
      <4>1. Done(n)' /\ bomb'[n].seconds_counter = 0
        BY <1>1, <1>8, <3>2 DEF Done
      <4> QED BY <1>2, <3>2, <4>1 DEF Left
    <3>3. CASE n # current
      <4>1. ~Done(n)' /\ ~Done(n)
        BY <1>1, <1>3, <3>1, <3>3 DEF Done
      <4> QED BY <1>8, <3>1, <3>3, <4>1 DEF Left
    <3> QED BY <3>2, <3>3
  <2> QED BY <2>1
<1>21. RoundsInv'
  <2>1. \A n \in NodesOfList' : n \in allocated' /\ bomb'[n].seconds_counter >= 1
    BY <1>1, <1>8, <1>15, <1>16, NodesAreListed DEF RoundsInv
  <2>2. \A i, j \in DOMAIN order' : i <= j => Left(order'[i]) <= Left(order'[j])
    BY <1>9, Places DEF RoundsInv
  <2> QED BY <1>1, <1>20, <2>1, <2>2, RoundsKept
<1>22. KeptBombs
  BY <1>1, <1>8, <1>16, <1>20, NodesAreListed DEF KeptBombs
<1>23. \A i \in 1..(Len(order) - 1) :
         /\ bomb'[order[i + 1]].player = bomb[order[i + 1]].player
         /\ bomb'[order[i + 1]].seconds_counter = bomb[order[i + 1]].seconds_counter
  BY <1>2, <1>8, <1>9, <1>10, Places
<1> QED BY <1>2, <1>5, <1>12, <1>14, <1>19, <1>21, <1>22, <1>23

LEMMA FreeBombStep ==
  ASSUME ListInv, FreeBomb
  PROVE  ListInv' /\ KeptBombs
<1> USE DEF ListInv
<1>1. /\ pc = "check" /\ pc' = "walk"
      /\ current' = bomb[current].next
      /\ allocated' = allocated \ {current} /\ bomb' = [bomb EXCEPT ![current] = Blank]
      /\ UNCHANGED <<bombs_head, bombs_tail, order, tick, turn>>
  BY DEF FreeBomb, Free
<1>2. /\ current \in Nodes /\ current \notin NodesOfList
      /\ current' = Nth(1) /\ allocated' = NodesOfList
  BY <1>1 DEF NothingDangles, HeadInv
<1>3. Blank \in BombType
  BY BombListAssumption DEF Blank, BombType, Players
<1>4. bomb' \in [Nodes -> BombType] /\ \A m \in Nodes \ {current} : bomb'[m] = bomb[m]
  BY <1>1, <1>2, <1>3 DEF TypeOK
<1>5. NodesOfList' = NodesOfList /\ (\A i \in Int : Nth(i)' = Nth(i)) /\ \A n : Place(n)' = Place(n)
  BY <1>1 DEF NodesOfList, Nth, Place
<1>6. \A i \in DOMAIN order : order[i] \in Nodes \ {current}
  BY <1>2, Places DEF NodesOfList
<1>7. LinksAgree'
  <2>1. \A i \in DOMAIN order : i \in Int /\ i + 1 \in Int /\ i - 1 \in Int
    BY Places
  <2>2. 1 \in Int /\ Len(order) \in Int
    BY Places
  <2> QED BY <1>1, <1>4, <1>5, <1>6, <2>1, <2>2 DEF LinksAgree
<1>8. TypeOK'
  <2>1. current' \in Nodes \cup {NULL}
    BY <1>2, Places
  <2> QED BY <1>1, <1>2, <1>4, <2>1 DEF TypeOK
<1>9. NothingDangles'
  BY <1>1, <1>2, <1>5, Places DEF NothingDangles, NodesOfList
<1>10. \A n \in NodesOfList : ~Done(n) /\ ~Done(n)'
  <2>1. ASSUME NEW n \in NodesOfList PROVE ~Done(n)'
    <3>1. Len(order) >= 1 /\ Place(n) >= 1 /\ Place(n) \in Nat
      BY NodesAreListed, Places
    <3>2. current' = order[1] /\ current' # NULL /\ Place(order[1]) = 1
      BY <1>2, <3>1, Places
    <3>3. ~(Place(n) < Place(current'))
      BY <3>1, <3>2
    <3> QED BY <1>1, <1>5, <3>2, <3>3 DEF Done
  <2> QED BY <1>1, <1>2, <2>1 DEF Done
<1>11. \A n \in NodesOfList : bomb'[n] = bomb[n] /\ Left(n)' = Left(n)
  <2>1. \A n \in NodesOfList : bomb'[n] = bomb[n]
    BY <1>2, <1>4, NodesAreListed
  <2> QED BY <1>10, <2>1 DEF Left
<1>12. RoundsInv'
  BY <1>1, <1>2, <1>5, <1>11, RoundsKept DEF RoundsInv
<1> QED BY <1>1, <1>2, <1>7, <1>8, <1>9, <1>11, <1>12 DEF HeadInv, KeptBombs

(* A walk that has ended has counted every bomb down once.                 *)
LEMMA EndWalkStep ==
  ASSUME ListInv, EndWalk
  PROVE  /\ ListInv'
         /\ \A n \in allocated : Left(n) = Left(n)' + 1 /\ Left(n)' \in Nat
<1> USE DEF ListInv
<1>1. /\ pc = "walk" /\ current = NULL /\ pc' = "pass"
      /\ UNCHANGED <<list, current, tick, turn>>
  BY DEF EndWalk
<1>2. TypeOK'
  BY <1>1 DEF TypeOK, list
<1>3. /\ LinksAgree' /\ NodesOfList' = NodesOfList /\ (\A i \in Int : Nth(i)' = Nth(i))
  BY <1>1, ListKept DEF list, TypeOK
<1>4. NothingDangles' /\ HeadInv' /\ allocated = NodesOfList
  BY <1>1, <1>3 DEF NothingDangles, HeadInv, list
<1>5. \A n \in allocated : n \in Nodes /\ Done(n) /\ ~Done(n)'
  BY <1>1, <1>4, NodesAreListed DEF Done
<1>6. \A n \in allocated : /\ Left(n) = Left(n)' + 1 /\ Left(n)' \in Nat
                           /\ Left(n)' = bomb[n].seconds_counter
  <2>1. ASSUME NEW n \in allocated
        PROVE  Left(n)' = bomb[n].seconds_counter
    <3>1. bomb[n].seconds_counter \in 0..255
      BY <1>5, LeftIsNat
    <3> QED BY <1>1, <1>5, <3>1 DEF Left, list
  <2>2. \A n \in allocated : Left(n) = bomb[n].seconds_counter + 1
                             /\ bomb[n].seconds_counter \in 0..255
    BY <1>5, LeftIsNat
  <2> QED BY <2>1, <2>2
<1>7. RoundsInv'
  <2>1. ASSUME NEW n \in allocated
        PROVE  Left(n)' \in 1..BOMB_TIME_TO_EXPLODE_SECONDS
    <3>1. Left(n) \in 1..BOMB_TIME_TO_EXPLODE_SECONDS /\ bomb[n].seconds_counter >= 1
      BY <1>4 DEF RoundsInv
    <3> QED BY <1>6, <3>1, BombListAssumption
  <2>2. ASSUME NEW i \in DOMAIN order, NEW j \in DOMAIN order, i <= j
        PROVE  Left(order[i])' <= Left(order[j])'
    <3>1. order[i] \in allocated /\ order[j] \in allocated
      BY <1>4 DEF NodesOfList
    <3>2. Left(order[i]) <= Left(order[j])
      BY <2>2 DEF RoundsInv
    <3>3. ASSUME NEW m \in allocated, NEW n \in allocated, Left(m) <= Left(n)
          PROVE  Left(m)' <= Left(n)'
      BY <1>6, <3>3
    <3>4. order' = order
      BY <1>1 DEF list
    <3> QED BY <3>1, <3>2, <3>3, <3>4
  <2>3. \A n \in NodesOfList' : bomb'[n].seconds_counter >= 1
    BY <1>1, <1>3 DEF RoundsInv, list
  <2> QED BY <1>1, <2>1, <2>2, <2>3 DEF RoundsInv, list
<1> QED BY <1>2, <1>3, <1>4, <1>6, <1>7

LEMMA FreeNextStep ==
  ASSUME ListInv, FreeNext
  PROVE  ListInv' /\ KeptBombs
<1> USE DEF ListInv
<1>1. /\ pc = "clear" /\ current # NULL
      /\ current' = bomb[current].next
      /\ allocated' = allocated \ {current} /\ bomb' = [bomb EXCEPT ![current] = Blank]
      /\ order' = Tail(order)
      /\ UNCHANGED <<bombs_head, bombs_tail, pc, tick, turn>>
  BY DEF FreeNext, Free
<1> Len(order) \in Nat
  BY Places
<1>2. Len(order) >= 1 /\ current = order[1] /\ current \in Nodes /\ current' = Nth(2)
      /\ allocated = NodesOfList
  BY <1>1, Places DEF NothingDangles, LinksAgree
<1>3. Blank \in BombType
  BY BombListAssumption DEF Blank, BombType, Players
<1>4. bomb' \in [Nodes -> BombType] /\ \A m \in Nodes \ {current} : bomb'[m] = bomb[m]
  BY <1>1, <1>2, <1>3 DEF TypeOK
<1>5. /\ Len(order') = Len(order) - 1 /\ order' \in Seq(Nodes) /\ DOMAIN order' = 1..(Len(order) - 1)
      /\ \A i \in 1..(Len(order) - 1) : order'[i] = order[i + 1] /\ i + 1 \in 1..Len(order)
  BY <1>1, <1>2, WithoutHead
<1>6. \A i, j \in 1..Len(order) : order[i] = order[j] => i = j
  BY Places
<1>7. \A i \in Int : Nth(i)' = IF i >= 1 THEN Nth(i + 1) ELSE NULL
  BY <1>5, Places DEF Nth
<1>8. \A i \in 1..(Len(order) - 1) : order'[i] \in Nodes \ {current}
  BY <1>2, <1>5, <1>6, Places
<1>9. LinksAgree'
  <2>1. \A i, j \in DOMAIN order' : order'[i] = order'[j] => i = j
    BY <1>5, <1>6
  <2>2. ASSUME NEW i \in 1..(Len(order) - 1)
        PROVE  bomb'[order'[i]].next = Nth(i + 1)'
    <3>1. i + 1 \in 1..Len(order) /\ order'[i] = order[i + 1] /\ i + 1 \in Int /\ i + 1 >= 1
      BY <1>5
    <3>2. bomb[order[i + 1]].next = Nth((i + 1) + 1)
      BY <3>1, Places DEF LinksAgree
    <3>3. Nth(i + 1)' = Nth((i + 1) + 1)
      BY <1>7, <3>1, Zenon
    <3> QED BY <1>4, <1>8, <3>1, <3>2, <3>3
  <2> QED BY <1>1, <1>5, <2>1, <2>2 DEF LinksAgree
<1>10. TypeOK'
  <2>1. current' \in Nodes \cup {NULL}
    BY <1>2, Places
  <2> QED BY <1>1, <1>4, <1>5, <2>1 DEF TypeOK
<1>11. NodesOfList' = NodesOfList \ {current}
  <2>1. current \notin NodesOfList'
    BY <1>5, <1>8 DEF NodesOfList
  <2>2. ASSUME NEW n \in NodesOfList, n # current PROVE n \in NodesOfList'
    <3>1. PICK j \in 1..Len(order) : n = order[j]
      BY Places DEF NodesOfList
    <3>2. j # 1 /\ j - 1 \in 1..(Len(order) - 1) /\ (j - 1) + 1 = j
      BY <1>2, <2>2, <3>1
    <3> QED BY <1>5, <3>1, <3>2 DEF NodesOfList
  <2>3. ASSUME NEW n \in NodesOfList' PROVE n \in NodesOfList
    <3>1. PICK i \in 1..(Len(order) - 1) : n = order'[i]
      BY <1>5 DEF NodesOfList
    <3>2. n = order[i + 1] /\ i + 1 \in DOMAIN order
      BY <1>5, <3>1, Places
    <3> QED BY <3>2 DEF NodesOfList
  <2> QED BY <2>1, <2>2, <2>3
<1>12. NothingDangles' /\ HeadInv'
  <2>1. current' = Nth(1)'
    BY <1>2, <1>7
  <2> QED BY <1>1, <1>2, <1>11, <2>1 DEF NothingDangles, HeadInv
<1>13. \A n \in NodesOfList' : n \in Nodes /\ n # current /\ bomb'[n] = bomb[n]
  BY <1>4, <1>11, NodesAreListed
<1>14. \A n \in NodesOfList' : Left(n)' = Left(n)
  BY <1>1, <1>13 DEF Left, Done
<1>15. allocated' = NodesOfList'
  BY <1>1, <1>2, <1>11
<1>16. RoundsInv'
  <2>1. \A n \in NodesOfList' : bomb'[n].seconds_counter >= 1
    BY <1>11, <1>13 DEF RoundsInv
  <2>2. \A i, j \in DOMAIN order' : i <= j => Left(order'[i]) <= Left(order'[j])
    BY <1>5, Places DEF RoundsInv
  <2> QED BY <1>1, <1>14, <1>15, <2>1, <2>2, RoundsKept
<1> QED BY <1>9, <1>10, <1>12, <1>13, <1>14, <1>15, <1>16 DEF KeptBombs

LEMMA DropBombStep ==
  ASSUME ListInv, NEW n \in Nodes, DropBomb(n)
  PROVE  /\ ListInv' /\ KeptBombs
         /\ pc = "pass" /\ pc' = "pass" /\ turn \in Players /\ turn' = turn + 1 /\ tick' = tick
         /\ n \notin allocated /\ allocated' = allocated \cup {n} /\ order' = Append(order, n)
         /\ bomb'[n].player = turn /\ bomb'[n].seconds_counter = BOMB_TIME_TO_EXPLODE_SECONDS
         /\ Left(n)' = BOMB_TIME_TO_EXPLODE_SECONDS
         /\ \A m \in allocated : /\ bomb'[m].player = bomb[m].player
                                 /\ bomb'[m].seconds_counter = bomb[m].seconds_counter
<1> USE DEF ListInv
<1> DEFINE last == Nth(Len(order))
<1>1. /\ pc = "pass" /\ pc' = "pass" /\ turn \in Players /\ turn' = turn + 1
      /\ n \notin allocated /\ allocated' = allocated \cup {n} /\ order' = Append(order, n)
      /\ bombs_head' = (IF bombs_head = NULL THEN n ELSE bombs_head) /\ bombs_tail' = n
      /\ bomb' = Linked(n, IF bombs_head = NULL THEN NULL ELSE bombs_tail)
      /\ current' = current /\ tick' = tick
  BY DEF DropBomb
<1> Len(order) \in Nat /\ BOMB_TIME_TO_EXPLODE_SECONDS \in 1..255 /\ MaxPlayers \in Nat
  BY Places, BombListAssumption
<1>2. /\ allocated = NodesOfList /\ bombs_head = Nth(1) /\ bombs_tail = last
      /\ \A i \in 1..Len(order) : order[i] \in allocated /\ order[i] # n
  BY <1>1, Places DEF NothingDangles, LinksAgree, NodesOfList
<1>3. bombs_head = NULL <=> Len(order) = 0
  BY <1>2, Places
<1>4. bomb' = Linked(n, last)
  <2>1. CASE Len(order) = 0
    <3>1. last = NULL
      BY <2>1, Places
    <3> QED BY <1>1, <1>3, <2>1, <3>1
  <2>2. CASE Len(order) # 0
    BY <1>1, <1>2, <1>3, <2>2
  <2> QED BY <2>1, <2>2
<1>5. last # n
  BY <1>2, Places, BombListAssumption
<1>6. /\ bomb'[n] = [player |-> turn, seconds_counter |-> BOMB_TIME_TO_EXPLODE_SECONDS,
                     prev |-> last, next |-> NULL]
      /\ \A m \in Nodes : m # n /\ m # last => bomb'[m] = bomb[m]
      /\ last \in Nodes => bomb'[last] = [bomb[last] EXCEPT !.next = n]
      /\ DOMAIN bomb' = Nodes /\ bomb' = [m \in Nodes |-> bomb'[m]]
  BY <1>4, <1>5 DEF Linked
<1>7. last \in Nodes \cup {NULL}
  BY Places
<1>8. bomb'[n] \in BombType
  BY <1>1, <1>6, <1>7 DEF BombType
<1>9. ASSUME NEW m \in Nodes, m # n
      PROVE  /\ bomb'[m] \in BombType /\ bomb'[m].player = bomb[m].player
             /\ bomb'[m].seconds_counter = bomb[m].seconds_counter
             /\ bomb'[m].prev = bomb[m].prev
             /\ bomb'[m].next = IF m = last THEN n ELSE bomb[m].next
  <2>1. bomb[m] \in BombType
    BY DEF TypeOK
  <2>2. CASE m = last
    <3>1. bomb'[m] = [bomb[m] EXCEPT !.next = n]
      BY <1>6, <2>2
    <3> QED BY <2>1, <2>2, <3>1 DEF BombType
  <2>3. CASE m # last
    BY <1>6, <1>9, <2>1, <2>3
  <2> QED BY <2>2, <2>3
<1>10. bomb' \in [Nodes -> BombType]
  BY <1>6, <1>8, <1>9
<1>11. /\ order' \in Seq(Nodes) /\ Len(order') = Len(order) + 1 /\ DOMAIN order' = 1..(Len(order) + 1)
       /\ order'[Len(order) + 1] = n
       /\ \A i \in 1..Len(order) : order'[i] = order[i]
  BY <1>1, AppendProperties DEF TypeOK
<1>12. \A i \in Int : Nth(i)' = IF i = Len(order) + 1 THEN n ELSE Nth(i)
  BY <1>11, Places DEF Nth
<1>13. TypeOK'
  <2>1. turn' \in 0..MaxPlayers
    BY <1>1 DEF Players
  <2> QED BY <1>1, <1>10, <1>11, <2>1 DEF TypeOK
<1>14. \A i, j \in 1..Len(order) : order[i] = order[j] => i = j
  BY Places
<1>15. ASSUME NEW i \in 1..Len(order)
       PROVE  /\ bomb'[order'[i]].next = Nth(i + 1)'
              /\ bomb'[order'[i]].prev = Nth(i - 1)'
  <2>1. order'[i] = order[i] /\ order[i] \in Nodes /\ order[i] # n /\ i \in Int
        /\ i + 1 \in Int /\ i - 1 \in Int /\ i - 1 # Len(order) + 1 /\ Len(order) \in 1..Len(order)
    BY <1>2, <1>11, Places
  <2>2. bomb[order[i]].next = Nth(i + 1) /\ bomb[order[i]].prev = Nth(i - 1)
    BY <1>1, Places DEF LinksAgree
  <2>3. last = order[Len(order)]
    BY <2>1, Places
  <2>4. bomb'[order[i]].prev = bomb[order[i]].prev
        /\ bomb'[order[i]].next = IF order[i] = last THEN n ELSE bomb[order[i]].next
    BY <1>9, <2>1
  <2>5. Nth(i - 1)' = Nth(i - 1)
    BY <1>12, <2>1, Zenon
  <2>6. CASE i = Len(order)
    <3>1. Nth(i + 1)' = n
      BY <1>12, <2>1, <2>6
    <3> QED BY <2>1, <2>2, <2>3, <2>4, <2>5, <2>6, <3>1
  <2>7. CASE i # Len(order)
    <3>1. i + 1 # Len(order) + 1 /\ order[i] # order[Len(order)]
      BY <1>14, <2>1, <2>7
    <3>2. Nth(i + 1)' = Nth(i + 1)
      BY <1>12, <2>1, <3>1, Zenon
    <3> QED BY <2>1, <2>2, <2>3, <2>4, <2>5, <3>1, <3>2
  <2> QED BY <2>6, <2>7
<1>16. LinksAgree'
  <2>1. \A i, j \in DOMAIN order' : order'[i] = order'[j] => i = j
    BY <1>2, <1>11, <1>14
  <2>2. ASSUME NEW i \in 1..(Len(order) + 1)
        PROVE  /\ bomb'[order'[i]].next = Nth(i + 1)'
               /\ bomb'[order'[i]].prev = Nth(i - 1)'
    <3>1. CASE i \in 1..Len(order)
      BY <1>15, <3>1
    <3>2. CASE i = Len(order) + 1
      <4>1. order'[i] = n /\ bomb'[n].next = NULL /\ bomb'[n].prev = last
        BY <1>6, <1>11, <3>2
      <4>2. Nth(i - 1)' = last /\ Nth(i + 1)' = NULL
        BY <1>12, <3>2, Places
      <4> QED BY <4>1, <4>2
    <3> QED BY <3>1, <3>2
  <2>3. bombs_head' = Nth(1)'
    <3>1. CASE Len(order) = 0
      BY <1>1, <1>3, <1>12, <3>1
    <3>2. CASE Len(order) # 0
      BY <1>1, <1>2, <1>3, <1>12, <3>2
    <3> QED BY <3>1, <3>2
  <2>4. bombs_tail' = Nth(Len(order))'
    BY <1>1, <1>11 DEF Nth
  <2> QED BY <1>11, <2>1, <2>2, <2>3, <2>4 DEF LinksAgree
<1>17. NodesOfList' = NodesOfList \cup {n}
  <2>1. ASSUME NEW m \in NodesOfList' PROVE m \in NodesOfList \cup {n}
    <3>1. PICK i \in 1..(Len(order) + 1) : m = order'[i]
      BY <1>11 DEF NodesOfList
    <3>2. CASE i = Len(order) + 1
      BY <1>11, <3>1, <3>2
    <3>3. CASE i # Len(order) + 1
      <4>1. i \in 1..Len(order)
        BY <3>3
      <4> QED BY <1>11, <3>1, <4>1, Places DEF NodesOfList
    <3> QED BY <3>2, <3>3
  <2>2. ASSUME NEW m \in NodesOfList \cup {n} PROVE m \in NodesOfList'
    <3>1. CASE m = n
      BY <1>11, <3>1 DEF NodesOfList
    <3>2. CASE m \in NodesOfList
      <4>1. PICK i \in 1..Len(order) : m = order[i]
        BY <3>2, Places DEF NodesOfList
      <4> QED BY <1>11, <4>1 DEF NodesOfList
    <3> QED BY <3>1, <3>2
  <2> QED BY <2>1, <2>2
<1>18. NothingDangles' /\ HeadInv'
  BY <1>1, <1>2, <1>17 DEF NothingDangles, HeadInv
<1>19. \A m \in allocated : m \in Nodes /\ m # n /\ Left(m)' = Left(m)
  <2>1. ASSUME NEW m \in allocated PROVE m \in Nodes /\ m # n /\ Left(m)' = Left(m)
    <3>1. m \in Nodes /\ m # n
      BY <1>1, <1>2, NodesAreListed
    <3>2. ~Done(m) /\ ~Done(m)'
      BY <1>1 DEF Done
    <3> QED BY <1>9, <3>1, <3>2 DEF Left
  <2> QED BY <2>1
<1>20. Left(n)' = BOMB_TIME_TO_EXPLODE_SECONDS /\ bomb'[n].player = turn
       /\ bomb'[n].seconds_counter = BOMB_TIME_TO_EXPLODE_SECONDS
  <2>1. bomb'[n].player = turn /\ bomb'[n].seconds_counter = BOMB_TIME_TO_EXPLODE_SECONDS
    BY <1>6
  <2>2. ~Done(n)'
    BY <1>1 DEF Done
  <2> QED BY <2>1, <2>2 DEF Left
<1>21. RoundsInv'
  <2>1. \A m \in allocated' : Left(m)' \in 1..BOMB_TIME_TO_EXPLODE_SECONDS
    <3>1. ASSUME NEW m \in allocated' PROVE Left(m)' \in 1..BOMB_TIME_TO_EXPLODE_SECONDS
      <4>1. CASE m = n
        <5>1. BOMB_TIME_TO_EXPLODE_SECONDS \in 1..BOMB_TIME_TO_EXPLODE_SECONDS
          OBVIOUS
        <5> QED BY <1>20, <4>1, <5>1, Zenon
      <4>2. CASE m # n
        BY <1>1, <1>19, <3>1, <4>2 DEF RoundsInv
      <4> QED BY <4>1, <4>2
    <3> QED BY <3>1
  <2>2. \A m \in NodesOfList' : bomb'[m].seconds_counter >= 1
    BY <1>2, <1>9, <1>17, <1>19, <1>20 DEF RoundsInv
  <2>3. ASSUME NEW i \in 1..(Len(order) + 1), NEW j \in 1..(Len(order) + 1), i <= j
        PROVE  Left(order[i])' <= Left(order[j])'
    <3>1. CASE j = Len(order) + 1
      <4>1. order'[i] \in allocated' /\ order'[j] = n
        BY <1>1, <1>2, <1>11, <1>17, <3>1 DEF NodesOfList
      <4>2. \A m \in allocated' : Left(m)' <= BOMB_TIME_TO_EXPLODE_SECONDS
        BY <2>1
      <4>3. ASSUME NEW m, m = n PROVE Left(m)' = BOMB_TIME_TO_EXPLODE_SECONDS
        BY <1>20, <4>3
      <4> QED BY <4>1, <4>2, <4>3
    <3>2. CASE j # Len(order) + 1
      <4>1. i \in 1..Len(order) /\ j \in 1..Len(order)
        BY <2>3, <3>2
      <4>2. Left(order[i]) <= Left(order[j])
        BY <2>3, <4>1, Places DEF RoundsInv
      <4>3. ASSUME NEW k \in allocated, NEW l \in allocated, Left(k) <= Left(l)
            PROVE  Left(k)' <= Left(l)'
        BY <1>19, <4>3
      <4>4. order'[i] = order[i] /\ order'[j] = order[j] /\ order[i] \in allocated
            /\ order[j] \in allocated
        BY <1>2, <1>11, <4>1
      <4> QED BY <4>2, <4>3, <4>4
    <3> QED BY <3>1, <3>2
  <2> QED BY <1>11, <2>1, <2>2, <2>3 DEF RoundsInv
<1> QED BY <1>1, <1>9, <1>13, <1>16, <1>18, <1>19, <1>20, <1>21 DEF KeptBombs

-----------------------------------------------------------------------------
LEMMA InitList == Init => ListInv
<1> SUFFICES ASSUME Init PROVE ListInv
  OBVIOUS
<1>1. Blank \in BombType
  BY BombListAssumption DEF Blank, BombType, Players
<1>2. TypeOK
  BY <1>1, BombListAssumption DEF Init, TypeOK
<1>3. DOMAIN order = {} /\ Len(order) = 0
  BY DEF Init
<1>4. NodesOfList = {} /\ \A i : Nth(i) = NULL
  BY <1>3 DEF NodesOfList, Nth
<1> QED BY <1>2, <1>3, <1>4 DEF Init, ListInv, LinksAgree, NothingDangles, RoundsInv, HeadInv

LEMMA StutterList ==
  ASSUME ListInv, UNCHANGED vars
  PROVE  ListInv' /\ KeptBombs
<1>1. UNCHANGED <<bomb, allocated, bombs_head, bombs_tail, order, current, pc, tick, turn>>
  BY DEF vars, list
<1>2. TypeOK' /\ HeadInv'
  BY <1>1 DEF ListInv, TypeOK, HeadInv, Nth
<1>3. LinksAgree' /\ NothingDangles'
  BY <1>1 DEF ListInv, LinksAgree, NothingDangles, NodesOfList, Nth
<1>4. (\A n : Left(n)' = Left(n)) /\ NodesOfList' = NodesOfList
  BY <1>1 DEF Left, Done, Place, NodesOfList
<1>5. \A n \in NodesOfList : n \in allocated
  BY DEF ListInv, NothingDangles
<1>6. RoundsInv'
  BY <1>1, <1>4, <1>5, RoundsKept DEF ListInv, RoundsInv
<1> QED BY <1>1, <1>2, <1>3, <1>4, <1>6 DEF ListInv, KeptBombs

LEMMA ListStep == ListInv /\ [Next]_vars => ListInv'
BY QuietStep, DropBombStep, CountDownStep, UnlinkStep, FreeBombStep, EndWalkStep, FreeNextStep,
   StutterList DEF Next

LEMMA ListInvariance == Spec => []ListInv
BY InitList, ListStep, PTL DEF Spec

(* When a bomb has been unlinked, the links of all others agree with       *)
(* their neighbours', head and tail.                                       *)
LEMMA Consistent ==
  ASSUME ListInv, pc = "check"
  PROVE  check_bomb_linked_list_consistency
<1> USE DEF ListInv
<1> Len(order) \in Nat
  BY Places
<1>1. bombs_head = Nth(1) /\ bombs_tail = Nth(Len(order))
  BY DEF LinksAgree
<1>2. bombs_head = NULL <=> bombs_tail = NULL
  BY <1>1, Places
<1>3. allocated \ {current} = NodesOfList
  BY DEF NothingDangles
<1>4. ASSUME NEW i \in 1..Len(order), NEW n, n = order[i]
      PROVE  /\ bomb[n].prev = NULL => n = bombs_head
             /\ bomb[n].next = NULL => n = bombs_tail
             /\ bomb[n].prev # NULL => bomb[bomb[n].prev].next = n
             /\ bomb[n].next # NULL => bomb[bomb[n].next].prev = n
  <2>1. /\ bomb[n].next = Nth(i + 1) /\ bomb[n].prev = Nth(i - 1)
    BY <1>4, Places DEF LinksAgree
  <2>2. bomb[n].prev = NULL => i = 1
    <3>1. i # 1 => i - 1 \in 1..Len(order) /\ i - 1 \in Int
      OBVIOUS
    <3> QED BY <2>1, <3>1, Places
  <2>3. bomb[n].next = NULL => i = Len(order)
    <3>1. i # Len(order) => i + 1 \in 1..Len(order) /\ i + 1 \in Int
      OBVIOUS
    <3> QED BY <2>1, <3>1, Places
  <2>4. bomb[n].prev # NULL => bomb[bomb[n].prev].next = n
    <3>1. ASSUME bomb[n].prev # NULL PROVE bomb[bomb[n].prev].next = n
      <4>1. i - 1 \in 1..Len(order) /\ bomb[n].prev = order[i - 1] /\ (i - 1) + 1 = i
        BY <2>1, <3>1, Places
      <4>2. bomb[order[i - 1]].next = Nth((i - 1) + 1)
        BY <4>1, Places DEF LinksAgree
      <4> QED BY <1>4, <4>1, <4>2, Places
    <3> QED BY <3>1
  <2>5. bomb[n].next # NULL => bomb[bomb[n].next].prev = n
    <3>1. ASSUME bomb[n].next # NULL PROVE bomb[bomb[n].next].prev = n
      <4>1. i + 1 \in 1..Len(order) /\ bomb[n].next = order[i + 1] /\ (i + 1) - 1 = i
        BY <2>1, <3>1, Places
      <4>2. bomb[order[i + 1]].prev = Nth((i + 1) - 1)
        BY <4>1, Places DEF LinksAgree
      <4> QED BY <1>4, <4>1, <4>2, Places
    <3> QED BY <3>1
  <2>6. /\ i = 1 => n = bombs_head
        /\ i = Len(order) => n = bombs_tail
    <3>1. 1 \in Int /\ Len(order) \in Int /\ 1 \in 1..Len(order) /\ Len(order) \in 1..Len(order)
      OBVIOUS
    <3> QED BY <1>1, <1>4, <3>1, Places
  <2> QED BY <2>2, <2>3, <2>4, <2>5, <2>6
<1>5. \A n \in NodesOfList : \E i \in 1..Len(order) : n = order[i]
  BY Places DEF NodesOfList
<1> QED BY <1>2, <1>3, <1>4, <1>5 DEF check_bomb_linked_list_consistency

(* For any bombs that are dropped and explode, and wherever malloc puts    *)
(* them, the list is whole and its assertion holds.                        *)
THEOREM ListIsWhole == Spec => []ListWhole
<1>1. ListInv => ListWhole
  BY Consistent DEF ListInv, ListWhole
<1> QED BY <1>1, ListInvariance, PTL

(* explode_bombs unlinks nothing but the head of the list.                 *)
THEOREM HeadExplodes == Spec => OldestFirst
<1>1. ListInv /\ [Next]_vars => [Unlink => current = bombs_head]_vars
  BY UnlinkStep
<1> QED BY <1>1, ListInvariance, PTL DEF Spec, OldestFirst

-----------------------------------------------------------------------------
(* How many bombs there are.                                               *)
LEMMA LimitIsNat ==
  ASSUME TypeOK, NEW p \in Players, NEW k \in 1..BOMB_TIME_TO_EXPLODE_SECONDS
  PROVE  Limit(p, k) \in Nat /\ Limit(p, k) <= Ticks
<1> Ticks \in Nat \ {0} /\ tick \in 0..(Ticks - 1)
  BY BombListAssumption DEF TypeOK
<1>1. CASE pc = "pass" /\ k = BOMB_TIME_TO_EXPLODE_SECONDS
  BY <1>1 DEF Limit
<1>2. CASE ~(pc = "pass" /\ k = BOMB_TIME_TO_EXPLODE_SECONDS)
  BY <1>2 DEF Limit
<1> QED BY <1>1, <1>2

LEMMA BatchIsFinite ==
  ASSUME BatchInv, NEW p, NEW k
  PROVE  IsFiniteSet(Batch(p, k)) /\ Cardinality(Batch(p, k)) \in Nat
<1>1. IsFiniteSet(allocated) /\ Batch(p, k) \in SUBSET allocated
  BY DEF BatchInv, Batch
<1>2. IsFiniteSet(Batch(p, k))
  BY <1>1, FS_Subset
<1> QED BY <1>2, FS_CardinalityType

(* Steps that drop no bomb, and do not lower a limit.                      *)
LEMMA BatchKept ==
  ASSUME ListInv, ListInv', BatchInv, KeptBombs, allocated' \subseteq allocated,
         pc' # "pass" => tick' = 0 /\ turn' = 0,
         \A p \in Players, k \in 1..BOMB_TIME_TO_EXPLODE_SECONDS : Limit(p, k) <= Limit(p, k)'
  PROVE  BatchInv'
<1>1. IsFiniteSet(allocated')
  BY FS_Subset DEF BatchInv
<1>2. ASSUME NEW p \in Players, NEW k \in 1..BOMB_TIME_TO_EXPLODE_SECONDS
      PROVE  Cardinality(Batch(p, k)') <= Limit(p, k)'
  <2>1. Batch(p, k)' \in SUBSET Batch(p, k)
    BY DEF Batch, KeptBombs
  <2>2. IsFiniteSet(Batch(p, k)) /\ Cardinality(Batch(p, k)) \in Nat
    BY BatchIsFinite
  <2>3. IsFiniteSet(Batch(p, k)') /\ Cardinality(Batch(p, k)') <= Cardinality(Batch(p, k))
    BY <2>1, <2>2, FS_Subset
  <2>4. Cardinality(Batch(p, k)') \in Nat
    BY <2>3, FS_CardinalityType
  <2>5. Cardinality(Batch(p, k)) <= Limit(p, k) /\ Limit(p, k) <= Limit(p, k)'
    BY DEF BatchInv
  <2>6. Limit(p, k) \in Nat
    BY LimitIsNat DEF ListInv
  <2>7. Limit(p, k)' \in Nat
    <3>1. Ticks \in Nat /\ tick' \in Nat
      <4>1. Ticks \in Nat /\ Ticks - 1 \in Int /\ tick' \in 0..(Ticks - 1)
        BY BombListAssumption DEF ListInv, TypeOK
      <4> QED BY <4>1
    <3>2. CASE pc' = "pass" /\ k = BOMB_TIME_TO_EXPLODE_SECONDS
      <4>1. Limit(p, k)' = IF p < turn' THEN tick' + 1 ELSE tick' + 0
        BY <3>2 DEF Limit
      <4>2. \A x \in Nat : x + 1 \in Nat /\ x + 0 \in Nat
        OBVIOUS
      <4> QED BY <3>1, <4>1, <4>2, Zenon
    <3>3. CASE ~(pc' = "pass" /\ k = BOMB_TIME_TO_EXPLODE_SECONDS)
      BY <3>1, <3>3 DEF Limit
    <3> QED BY <3>2, <3>3
  <2> QED BY <2>2, <2>3, <2>4, <2>5, <2>6, <2>7
<1> QED BY <1>1, <1>2 DEF BatchInv

LEMMA BatchOfDrop ==
  ASSUME ListInv, ListInv', BatchInv, NEW n \in Nodes, DropBomb(n)
  PROVE  BatchInv'
<1> DEFINE T == BOMB_TIME_TO_EXPLODE_SECONDS
<1>1. /\ pc = "pass" /\ pc' = "pass" /\ turn \in Players /\ turn' = turn + 1 /\ tick' = tick
      /\ n \notin allocated /\ allocated' = allocated \cup {n} /\ KeptBombs
      /\ bomb'[n].player = turn /\ Left(n)' = T
  BY DropBombStep
<1> tick \in Nat /\ turn \in Nat
  <2>1. Ticks \in Nat \ {0} /\ MaxPlayers \in Nat
    BY BombListAssumption
  <2> QED BY <2>1 DEF ListInv, TypeOK
<1>2. IsFiniteSet(allocated')
  BY <1>1, FS_AddElement DEF BatchInv
<1>3. ASSUME NEW p \in Players, NEW k \in 1..T
      PROVE  Cardinality(Batch(p, k)') <= Limit(p, k)'
  <2>1. IsFiniteSet(Batch(p, k)) /\ Cardinality(Batch(p, k)) \in Nat
        /\ Cardinality(Batch(p, k)) <= Limit(p, k) /\ n \notin Batch(p, k)
    BY <1>1, BatchIsFinite DEF BatchInv, Batch
  <2>2. p \in Int
    BY DEF Players
  <2>3. CASE p = turn /\ k = T
    <3>1. Batch(p, k)' = Batch(p, k) \cup {n}
      BY <1>1, <2>3 DEF Batch, KeptBombs
    <3>2. Cardinality(Batch(p, k)') = Cardinality(Batch(p, k)) + 1
      BY <2>1, <3>1, FS_AddElement
    <3>3. Limit(p, k) = tick /\ Limit(p, k)' = tick + 1
      BY <1>1, <2>3 DEF Limit
    <3> QED BY <2>1, <3>2, <3>3
  <2>4. CASE ~(p = turn /\ k = T)
    <3>1. Batch(p, k)' = Batch(p, k)
      BY <1>1, <2>4 DEF Batch, KeptBombs
    <3>2. Limit(p, k)' = Limit(p, k)
      <4>1. CASE k = T
        <5>1. p < turn <=> p < turn + 1
          BY <2>2, <2>4, <4>1
        <5> QED BY <1>1, <4>1, <5>1 DEF Limit
      <4>2. CASE k # T
        BY <4>2 DEF Limit
      <4> QED BY <4>1, <4>2
    <3> QED BY <2>1, <3>1, <3>2
  <2> QED BY <2>3, <2>4
<1> QED BY <1>1, <1>2, <1>3 DEF BatchInv

LEMMA BatchOfEndWalk ==
  ASSUME ListInv, ListInv', BatchInv, EndWalk
  PROVE  BatchInv'
<1> DEFINE T == BOMB_TIME_TO_EXPLODE_SECONDS
<1>1. /\ pc = "walk" /\ pc' = "pass" /\ tick' = 0 /\ turn' = 0
      /\ allocated' = allocated /\ bomb' = bomb
  BY DEF EndWalk, BatchInv, list
<1>2. \A n \in allocated : Left(n) = Left(n)' + 1 /\ Left(n)' \in Nat /\ Left(n) \in 1..T
  BY EndWalkStep DEF ListInv, RoundsInv
<1> T \in 1..255 /\ Ticks \in Nat
  BY BombListAssumption
<1>3. ASSUME NEW p \in Players, NEW k \in 1..T
      PROVE  Cardinality(Batch(p, k)') <= Limit(p, k)'
  <2>1. p \in Int /\ p >= 0
    BY DEF Players
  <2>2. CASE k = T
    <3>1. Batch(p, k)' = {}
      BY <1>1, <1>2, <2>2 DEF Batch
    <3>2. Limit(p, k)' = 0
      BY <1>1, <2>1, <2>2 DEF Limit
    <3> QED BY <3>1, <3>2, FS_EmptySet
  <2>3. CASE k # T
    <3>1. k + 1 \in 1..T
      BY <2>3
    <3>2. Batch(p, k)' = Batch(p, k + 1)
      BY <1>1, <1>2 DEF Batch
    <3>3. Cardinality(Batch(p, k + 1)) <= Limit(p, k + 1)
      BY <3>1 DEF BatchInv
    <3>4. Limit(p, k + 1) = Ticks /\ Limit(p, k)' = Ticks
      BY <1>1, <2>3 DEF Limit
    <3> QED BY <3>2, <3>3, <3>4
  <2> QED BY <2>2, <2>3
<1> QED BY <1>1, <1>3 DEF BatchInv

LEMMA BatchStep == ListInv /\ ListInv' /\ BatchInv /\ [Next]_vars => BatchInv'
<1> SUFFICES ASSUME ListInv, ListInv', BatchInv, [Next]_vars PROVE BatchInv'
  OBVIOUS
<1> Ticks \in Nat \ {0} /\ tick \in 0..(Ticks - 1) /\ turn \in 0..MaxPlayers /\ MaxPlayers \in Nat
  BY BombListAssumption DEF ListInv, TypeOK
<1> \A p \in Players : p \in Nat /\ p < MaxPlayers
  BY DEF Players
<1>1. CASE NoBomb
  <2>1. pc = "pass" /\ pc' = "pass" /\ turn' = turn + 1 /\ tick' = tick /\ allocated' = allocated
    BY <1>1 DEF NoBomb, list
  <2>2. \A p \in Players, k \in 1..BOMB_TIME_TO_EXPLODE_SECONDS : Limit(p, k) <= Limit(p, k)'
    BY <2>1 DEF Limit
  <2> QED BY <1>1, <2>1, <2>2, QuietStep, BatchKept
<1>2. CASE EndPass
  <2>1. pc = "pass" /\ turn = MaxPlayers /\ turn' = 0 /\ allocated' = allocated
    BY <1>2 DEF EndPass, list
  <2>2. CASE tick + 1 < Ticks
    <3>1. pc' = "pass" /\ tick' = tick + 1
      BY <1>2, <2>1, <2>2 DEF EndPass
    <3>2. \A p \in Players, k \in 1..BOMB_TIME_TO_EXPLODE_SECONDS : Limit(p, k) <= Limit(p, k)'
      BY <2>1, <3>1 DEF Limit
    <3> QED BY <1>2, <2>1, <3>1, <3>2, QuietStep, BatchKept
  <2>3. CASE ~(tick + 1 < Ticks)
    <3>1. pc' # "pass" /\ tick' = 0
      BY <1>2, <2>3 DEF EndPass
    <3>2. \A p \in Players, k \in 1..BOMB_TIME_TO_EXPLODE_SECONDS : Limit(p, k) <= Limit(p, k)'
      BY <3>1 DEF Limit
    <3> QED BY <1>2, <2>1, <3>1, <3>2, QuietStep, BatchKept
  <2> QED BY <2>2, <2>3
<1>3. CASE CountDown \/ Unlink \/ FreeBomb \/ FreeNext
  <2>1. pc # "pass" /\ pc' # "pass" /\ UNCHANGED <<tick, turn>> /\ allocated' \subseteq allocated
    BY <1>3 DEF CountDown, Unlink, FreeBomb, FreeNext, Free
  <2>2. \A p \in Players, k \in 1..BOMB_TIME_TO_EXPLODE_SECONDS : Limit(p, k) <= Limit(p, k)'
    BY <2>1 DEF Limit
  <2>3. KeptBombs
    BY <1>3, CountDownStep, UnlinkStep, FreeBombStep, FreeNextStep
  <2> QED BY <2>1, <2>2, <2>3, BatchKept DEF BatchInv
<1>4. CASE UNCHANGED vars
  <2>1. UNCHANGED <<pc, tick, turn, allocated>>
    BY <1>4 DEF vars, list
  <2>2. \A p \in Players, k \in 1..BOMB_TIME_TO_EXPLODE_SECONDS : Limit(p, k) <= Limit(p, k)'
    BY <2>1 DEF Limit
  <2> QED BY <1>4, <2>1, <2>2, StutterList, BatchKept DEF BatchInv
<1> QED BY <1>1, <1>2, <1>3, <1>4, BatchOfDrop, BatchOfEndWalk DEF Next

LEMMA InitBatch == Init => BatchInv
<1> SUFFICES ASSUME Init PROVE BatchInv
  OBVIOUS
<1>1. allocated = {} /\ \A p, k : Batch(p, k) = {}
  BY DEF Init, Batch
<1>2. IsFiniteSet({}) /\ Cardinality({}) = 0
  BY FS_EmptySet
<1>3. \A p \in Players, k \in 1..BOMB_TIME_TO_EXPLODE_SECONDS : Limit(p, k) \in Nat
  BY LimitIsNat, InitList DEF ListInv
<1>4. \A p \in Players, k \in 1..BOMB_TIME_TO_EXPLODE_SECONDS :
        Cardinality(Batch(p, k)) <= Limit(p, k)
  BY <1>1, <1>2, <1>3
<1> QED BY <1>1, <1>2, <1>4 DEF Init, BatchInv

(* A bomb of player p is the i-th of those with k rounds left, for some i  *)
(* among Ticks and k among the rounds: no two bombs share i and k.         *)
LEMMA BatchesBound ==
  ASSUME ListInv, BatchInv, NEW p \in Players
  PROVE  Cardinality({n \in allocated : bomb[n].player = p}) <= Ticks * BOMB_TIME_TO_EXPLODE_SECONDS
<1> DEFINE T == BOMB_TIME_TO_EXPLODE_SECONDS
           bombs == {n \in allocated : bomb[n].player = p}
           rank == [k \in 1..T |-> CHOOSE f : f \in Injection(Batch(p, k), 1..Ticks)]
           label == [n \in bombs |-> <<rank[Left(n)][n], Left(n)>>]
<1> Ticks \in Nat \ {0} /\ T \in 1..255
  BY BombListAssumption
<1>1. IsFiniteSet(1..Ticks) /\ Cardinality(1..Ticks) = Ticks
  <2>1. 1 \in Int /\ Ticks \in Int
    OBVIOUS
  <2>2. IsFiniteSet(1..Ticks) /\ Cardinality(1..Ticks) = IF 1 > Ticks THEN 0 ELSE Ticks - 1 + 1
    BY <2>1, FS_Interval, Zenon
  <2> QED BY <2>2
<1>2. IsFiniteSet(1..T) /\ Cardinality(1..T) = T
  <2>1. 1 \in Int /\ T \in Int
    OBVIOUS
  <2>2. IsFiniteSet(1..T) /\ Cardinality(1..T) = IF 1 > T THEN 0 ELSE T - 1 + 1
    BY <2>1, FS_Interval, Zenon
  <2> QED BY <2>2
<1>3. ASSUME NEW k \in 1..T
      PROVE  rank[k] \in Injection(Batch(p, k), 1..Ticks)
  <2> DEFINE c == Cardinality(Batch(p, k))
  <2>1. IsFiniteSet(Batch(p, k)) /\ c \in Nat
    BY BatchIsFinite
  <2>2. c <= Ticks
    <3>1. c <= Limit(p, k) /\ Limit(p, k) \in Nat /\ Limit(p, k) <= Ticks
      BY LimitIsNat DEF BatchInv, ListInv
    <3> QED BY <2>1, <3>1
  <2>3. IsFiniteSet(1..c) /\ Cardinality(1..c) = c
    <3>1. 1 \in Int /\ c \in Int
      BY <2>1
    <3>2. IsFiniteSet(1..c) /\ Cardinality(1..c) = IF 1 > c THEN 0 ELSE c - 1 + 1
      BY <3>1, FS_Interval, Zenon
    <3> QED BY <2>1, <3>2
  <2>4. PICK f : f \in Bijection(Batch(p, k), 1..c)
    BY <2>1, <2>3, FS_SameCardinalityBij DEF ExistsBijection
  <2>5. f \in Injection(Batch(p, k), 1..Ticks)
    <3>1. 1..c \subseteq 1..Ticks
      BY <2>1, <2>2
    <3> HIDE DEF c
    <3> QED BY <2>4, <3>1 DEF Bijection, Injection, Surjection, IsInjective
  <2> QED BY <2>5
<1>4. \A n \in bombs : Left(n) \in 1..T /\ n \in Batch(p, Left(n))
  BY DEF ListInv, RoundsInv, Batch
<1>5. label \in Injection(bombs, (1..Ticks) \X (1..T))
  <2> HIDE DEF rank, T
  <2>1. ASSUME NEW n \in bombs PROVE label[n] \in (1..Ticks) \X (1..T)
    <3>1. rank[Left(n)] \in [Batch(p, Left(n)) -> 1..Ticks]
      BY <1>3, <1>4 DEF Injection
    <3> QED BY <1>4, <3>1
  <2>2. ASSUME NEW m \in bombs, NEW n \in bombs, label[m] = label[n] PROVE m = n
    <3>1. Left(m) = Left(n) /\ rank[Left(n)][m] = rank[Left(n)][n]
      BY <2>2
    <3>2. rank[Left(n)] \in Injection(Batch(p, Left(n)), 1..Ticks)
      BY <1>3, <1>4
    <3>3. m \in Batch(p, Left(n)) /\ n \in Batch(p, Left(n))
      BY <1>4, <3>1
    <3> QED BY <3>1, <3>2, <3>3 DEF Injection, IsInjective
  <2> QED BY <2>1, <2>2 DEF Injection, IsInjective
<1>6. IsFiniteSet((1..Ticks) \X (1..T)) /\ Cardinality((1..Ticks) \X (1..T)) = Ticks * T
  <2>1. /\ IsFiniteSet((1..Ticks) \X (1..T))
        /\ Cardinality((1..Ticks) \X (1..T)) = Cardinality(1..Ticks) * Cardinality(1..T)
    BY <1>1, <1>2, FS_Product, Zenon
  <2> QED BY <1>1, <1>2, <2>1, Zenon
<1> HIDE DEF bombs, label
<1> QED BY <1>5, <1>6, FS_Injection DEF bombs

(* No player ever has more bombs than Ticks passes in each of the rounds   *)
(* that a bomb ticks, as MAX_BOMBS_PER_PLAYER (server/context.h) says.     *)
THEOREM BombsAreBounded == Spec => []BombsBounded
<1>1. ListInv /\ BatchInv => BombsBounded
  BY BatchesBound DEF BombsBounded
<1>2. Spec => []BatchInv
  BY InitBatch, BatchStep, ListInvariance, PTL DEF Spec
<1> QED BY <1>1, <1>2, ListInvariance, PTL

-----------------------------------------------------------------------------
(* The list implements the queue.                                          *)
Entries == [player : Players, seconds : 0..255]

QueueOf(b, o) ==
  [i \in DOMAIN o |-> [player |-> b[o[i]].player, seconds |-> b[o[i]].seconds_counter]]

Bombs == IF pc = "clear" THEN <<>> ELSE QueueOf(bomb, order)

Cursor ==
  CASE pc \in {"pass", "clear"} -> 0
    [] pc = "walk"              -> Place(current)
    [] pc = "check"             -> Place(bomb[current].next)

LEMMA QueueActions ==
  /\ Queue!Init <=> Bombs = <<>> /\ Cursor = 0
  /\ \A p : Queue!Drop(p) <=>
       Cursor = 0 /\ Cursor' = Cursor
         /\ Bombs' = Append(Bombs, [player |-> p, seconds |-> BOMB_TIME_TO_EXPLODE_SECONDS])
  /\ Queue!Begin <=> Cursor = 0 /\ Cursor' = 1 /\ Bombs' = Bombs
  /\ Queue!CountDown <=>
       /\ Cursor \in DOMAIN Bombs /\ Bombs[Cursor].seconds > 1
       /\ Bombs' = [Bombs EXCEPT ![Cursor].seconds = @ - 1] /\ Cursor' = Cursor + 1
  /\ Queue!Explode <=>
       /\ Cursor \in DOMAIN Bombs /\ Bombs[Cursor].seconds = 1
       /\ Bombs' = RemoveAt(Bombs, Cursor) /\ Cursor' = Cursor
  /\ Queue!End <=> Cursor = Len(Bombs) + 1 /\ Cursor' = 0 /\ Bombs' = Bombs
  /\ Queue!Clear <=> Cursor = 0 /\ Bombs' = <<>> /\ Cursor' = Cursor
  /\ (UNCHANGED Queue!vars) <=> Bombs' = Bombs /\ Cursor' = Cursor
<1>1. Queue!Init <=> Bombs = <<>> /\ Cursor = 0
  BY DEF Queue!Init, Bombs, Cursor, QueueOf
<1>2. \A p : Queue!Drop(p) <=>
        Cursor = 0 /\ Cursor' = Cursor
          /\ Bombs' = Append(Bombs, [player |-> p, seconds |-> BOMB_TIME_TO_EXPLODE_SECONDS])
  BY DEF Queue!Drop, Bombs, Cursor, QueueOf
<1>3. Queue!Begin <=> Cursor = 0 /\ Cursor' = 1 /\ Bombs' = Bombs
  BY DEF Queue!Begin, Bombs, Cursor, QueueOf
<1>4. Queue!CountDown <=>
        /\ Cursor \in DOMAIN Bombs /\ Bombs[Cursor].seconds > 1
        /\ Bombs' = [Bombs EXCEPT ![Cursor].seconds = @ - 1] /\ Cursor' = Cursor + 1
  BY DEF Queue!CountDown, Bombs, Cursor, QueueOf
<1>5. Queue!Explode <=>
        /\ Cursor \in DOMAIN Bombs /\ Bombs[Cursor].seconds = 1
        /\ Bombs' = RemoveAt(Bombs, Cursor) /\ Cursor' = Cursor
  BY DEF Queue!Explode, Queue!RemoveAt, RemoveAt, Bombs, Cursor, QueueOf
<1>6. Queue!End <=> Cursor = Len(Bombs) + 1 /\ Cursor' = 0 /\ Bombs' = Bombs
  BY DEF Queue!End, Bombs, Cursor, QueueOf
<1>7. Queue!Clear <=> Cursor = 0 /\ Bombs' = <<>> /\ Cursor' = Cursor
  BY DEF Queue!Clear, Bombs, Cursor, QueueOf
<1>8. (UNCHANGED Queue!vars) <=> Bombs' = Bombs /\ Cursor' = Cursor
  BY DEF Queue!vars, Bombs, Cursor, QueueOf
<1> QED BY <1>1, <1>2, <1>3, <1>4, <1>5, <1>6, <1>7, <1>8

LEMMA QueueIsASeq ==
  ASSUME NEW b \in [Nodes -> BombType], NEW o \in Seq(Nodes)
  PROVE  /\ QueueOf(b, o) \in Seq(Entries)
         /\ Len(QueueOf(b, o)) = Len(o) /\ DOMAIN QueueOf(b, o) = 1..Len(o)
         /\ \A i \in 1..Len(o) :
              QueueOf(b, o)[i] = [player |-> b[o[i]].player, seconds |-> b[o[i]].seconds_counter]
<1>1. Len(o) \in Nat /\ DOMAIN o = 1..Len(o) /\ \A i \in 1..Len(o) : b[o[i]] \in BombType
  BY LenProperties
<1>2. QueueOf(b, o) = [i \in 1..Len(o) |->
                         [player |-> b[o[i]].player, seconds |-> b[o[i]].seconds_counter]]
  BY <1>1 DEF QueueOf
<1>3. QueueOf(b, o) \in [1..Len(o) -> Entries]
  <2>1. ASSUME NEW i \in 1..Len(o)
        PROVE  [player |-> b[o[i]].player, seconds |-> b[o[i]].seconds_counter] \in Entries
    BY <1>1 DEF BombType, Entries
  <2> QED BY <1>2, <2>1, Zenon
<1>4. QueueOf(b, o) \in Seq(Entries)
  BY <1>1, <1>3, SeqDef
<1>5. DOMAIN QueueOf(b, o) = 1..Len(o)
  BY <1>3
<1>6. Len(QueueOf(b, o)) = Len(o)
  <2>1. Len(QueueOf(b, o)) \in Nat /\ DOMAIN QueueOf(b, o) = 1..Len(QueueOf(b, o))
    BY <1>4, LenProperties
  <2> QED BY <1>1, <1>5, <2>1
<1> QED BY <1>2, <1>4, <1>5, <1>6


LEMMA RemoveHead ==
  ASSUME NEW S, NEW s \in Seq(S), s # <<>>
  PROVE  RemoveAt(s, 1) = Tail(s)
<1>1. SubSeq(s, 1, 1 - 1) = <<>>
  BY SubSeqEmpty
<1>2. SubSeq(s, 2, Len(s)) = Tail(s) /\ Tail(s) \in Seq(S)
  BY TailIsSubSeq, HeadTailProperties
<1> QED BY <1>1, <1>2, ConcatEmptySeq DEF RemoveAt

LEMMA QueueInit == Init => Queue!Init
<1> SUFFICES ASSUME Init PROVE Bombs = <<>> /\ Cursor = 0
  BY QueueActions
<1>1. bomb \in [Nodes -> BombType] /\ order \in Seq(Nodes) /\ Len(order) = 0
  BY InitList DEF Init, ListInv, TypeOK
<1>2. QueueOf(bomb, order) \in Seq(Entries) /\ Len(QueueOf(bomb, order)) = 0
  BY <1>1, QueueIsASeq
<1>3. QueueOf(bomb, order) = <<>>
  BY <1>2, EmptySeq
<1> QED BY <1>3 DEF Init, Bombs, Cursor

(* The steps of the list are steps of the queue: ...                       *)
LEMMA QueueDrops ==
  ASSUME ListInv, ListInv', NEW n \in Nodes, DropBomb(n)
  PROVE  \E p \in Players : Queue!Drop(p)
<1> DEFINE dropped == [player |-> turn, seconds |-> BOMB_TIME_TO_EXPLODE_SECONDS]
           old == QueueOf(bomb, order)
           new == QueueOf(bomb', order')
<1>1. /\ pc = "pass" /\ pc' = "pass" /\ turn \in Players /\ order' = Append(order, n)
      /\ bomb'[n].player = turn /\ bomb'[n].seconds_counter = BOMB_TIME_TO_EXPLODE_SECONDS
      /\ \A m \in allocated : /\ bomb'[m].player = bomb[m].player
                              /\ bomb'[m].seconds_counter = bomb[m].seconds_counter
  BY DropBombStep
<1>2. /\ bomb \in [Nodes -> BombType] /\ order \in Seq(Nodes)
      /\ bomb' \in [Nodes -> BombType] /\ order' \in Seq(Nodes)
  BY DEF ListInv, TypeOK
<1>3. Len(order) \in Nat /\ \A i \in 1..Len(order) : order[i] \in allocated
  BY Places, Allocated DEF ListInv
<1>4. /\ old \in Seq(Entries) /\ Len(old) = Len(order)
      /\ \A i \in 1..Len(order) :
           old[i] = [player |-> bomb[order[i]].player, seconds |-> bomb[order[i]].seconds_counter]
  BY <1>2, QueueIsASeq
<1>5. /\ new \in Seq(Entries) /\ Len(new) = Len(order')
      /\ \A i \in 1..Len(order') :
           new[i] = [player |-> bomb'[order'[i]].player, seconds |-> bomb'[order'[i]].seconds_counter]
  BY <1>2, QueueIsASeq
<1>6. /\ Len(order') = Len(order) + 1 /\ order'[Len(order) + 1] = n
      /\ \A i \in 1..Len(order) : order'[i] = order[i]
  BY <1>1, <1>2, AppendProperties
<1>7. dropped \in Entries
  BY <1>1, BombListAssumption DEF Entries
<1> HIDE DEF dropped, old, new
<1>8. /\ Append(old, dropped) \in Seq(Entries) /\ Len(Append(old, dropped)) = Len(order) + 1
      /\ Append(old, dropped)[Len(order) + 1] = dropped
      /\ \A i \in 1..Len(order) : Append(old, dropped)[i] = old[i]
  BY <1>4, <1>7, AppendProperties
<1>9. ASSUME NEW i \in 1..(Len(order) + 1) PROVE new[i] = Append(old, dropped)[i]
  <2>1. CASE i = Len(order) + 1
    <3>1. new[i] = [player |-> bomb'[n].player, seconds |-> bomb'[n].seconds_counter]
      BY <1>5, <1>6, <2>1
    <3> QED BY <1>1, <1>8, <2>1, <3>1 DEF dropped
  <2>2. CASE i # Len(order) + 1
    <3>1. i \in 1..Len(order) /\ i \in 1..Len(order')
      BY <1>3, <1>6, <2>2
    <3>2. /\ new[i] = [player |-> bomb'[order[i]].player, seconds |-> bomb'[order[i]].seconds_counter]
          /\ order[i] \in allocated
      BY <1>3, <1>5, <1>6, <3>1
    <3> QED BY <1>1, <1>4, <1>8, <3>1, <3>2
  <2> QED BY <2>1, <2>2
<1>10. new = Append(old, dropped)
  BY <1>5, <1>6, <1>8, <1>9, SeqEqual
<1>11. Cursor = 0 /\ Cursor' = 0 /\ Bombs = old /\ Bombs' = new
  BY <1>1 DEF Cursor, Bombs, old, new
<1> QED BY <1>1, <1>10, <1>11, QueueActions DEF dropped

LEMMA QueuePasses ==
  ASSUME ListInv, ListInv', NoBomb \/ EndPass
  PROVE  Queue!Begin \/ Queue!Clear \/ UNCHANGED Queue!vars
<1>1. UNCHANGED list /\ pc = "pass" /\ pc' \in {"pass", "walk", "clear"}
      /\ (pc' # "pass" => current' = bombs_head)
  BY DEF NoBomb, EndPass
<1>2. Cursor = 0 /\ Bombs = QueueOf(bomb, order) /\ bomb' = bomb /\ order' = order
  BY <1>1 DEF Cursor, Bombs, list
<1>3. CASE pc' = "pass"
  <2>1. Cursor' = 0 /\ Bombs' = QueueOf(bomb, order)
    BY <1>2, <1>3 DEF Cursor, Bombs
  <2> QED BY <1>2, <2>1, QueueActions
<1>4. CASE pc' = "clear"
  <2>1. Cursor' = 0 /\ Bombs' = <<>>
    BY <1>4 DEF Cursor, Bombs
  <2> QED BY <1>2, <2>1, QueueActions
<1>5. CASE pc' = "walk"
  <2>1. Place(bombs_head) = 1
    <3>1. Len(order) \in Nat /\ bombs_head = Nth(1)
      BY <1>1, Places DEF ListInv, LinksAgree
    <3>2. CASE Len(order) = 0
      BY <3>1, <3>2, Places DEF ListInv
    <3>3. CASE Len(order) # 0
      <4>1. 1 \in 1..Len(order)
        BY <3>1, <3>3
      <4> QED BY <3>1, <4>1, Places DEF ListInv
    <3> QED BY <3>2, <3>3
  <2>2. Cursor' = 1 /\ Bombs' = QueueOf(bomb, order)
    BY <1>1, <1>2, <1>5, <2>1 DEF Cursor, Bombs, Place, list
  <2> QED BY <1>2, <2>2, QueueActions
<1> QED BY <1>1, <1>3, <1>4, <1>5

LEMMA QueueCounts ==
  ASSUME ListInv, ListInv', CountDown
  PROVE  Queue!CountDown
<1> DEFINE old == QueueOf(bomb, order)
           new == QueueOf(bomb', order')
<1>1. /\ pc = "walk" /\ pc' = "walk" /\ current # NULL /\ ~Due(current)
      /\ current' = bomb[current].next /\ bomb' = Counted(current) /\ order' = order
  BY DEF CountDown
<1>2. /\ bomb \in [Nodes -> BombType] /\ order \in Seq(Nodes)
      /\ bomb' \in [Nodes -> BombType] /\ order' \in Seq(Nodes)
  BY DEF ListInv, TypeOK
<1>3. PICK c \in 1..Len(order) : current = order[c]
  BY <1>1, Places DEF ListInv, NothingDangles, NodesOfList
<1> Len(order) \in Nat /\ c \in Nat
  BY Places DEF ListInv
<1>4. current \in Nodes /\ Place(current) = c /\ current \in NodesOfList
  BY <1>3, Places DEF ListInv, NodesOfList
<1>5. bomb[current].seconds_counter \in 2..255
  <2>1. bomb[current].seconds_counter \in 0..255
    BY <1>4, LeftIsNat DEF ListInv
  <2>2. bomb[current].seconds_counter >= 1 /\ bomb[current].seconds_counter # 1
    BY <1>1, <1>4 DEF ListInv, RoundsInv, Due
  <2> QED BY <2>1, <2>2
<1>6. /\ bomb'[current] = [bomb[current] EXCEPT !.seconds_counter = bomb[current].seconds_counter - 1]
      /\ \A m \in Nodes : m # current => bomb'[m] = bomb[m]
  <2>1. \A x \in 2..255 : (x - 1) % 256 = x - 1
    OBVIOUS
  <2>2. bomb'[current] = [bomb[current] EXCEPT !.seconds_counter =
                                                 (bomb[current].seconds_counter - 1) % 256]
    BY <1>1, <1>2, <1>4 DEF Counted
  <2>3. \A m \in Nodes : m # current => bomb'[m] = bomb[m]
    BY <1>1, <1>2, <1>4 DEF Counted
  <2> QED BY <1>5, <2>1, <2>2, <2>3
<1>7. bomb[current] \in BombType
  BY <1>2, <1>4
<1>8. /\ old \in Seq(Entries) /\ Len(old) = Len(order) /\ DOMAIN old = 1..Len(order)
      /\ \A i \in 1..Len(order) :
           old[i] = [player |-> bomb[order[i]].player, seconds |-> bomb[order[i]].seconds_counter]
  BY <1>2, QueueIsASeq
<1>9. /\ new \in Seq(Entries) /\ Len(new) = Len(order) /\ DOMAIN new = 1..Len(order)
      /\ \A i \in 1..Len(order) :
           new[i] = [player |-> bomb'[order[i]].player, seconds |-> bomb'[order[i]].seconds_counter]
  BY <1>1, <1>2, QueueIsASeq
<1> HIDE DEF old, new
<1>10. \A i \in 1..Len(order) : i # c => new[i] = old[i]
  <2>1. ASSUME NEW i \in 1..Len(order), i # c PROVE new[i] = old[i]
    <3>1. order[i] \in Nodes /\ order[i] # current
      BY <1>3, <2>1, Places DEF ListInv
    <3> QED BY <1>6, <1>8, <1>9, <3>1
  <2> QED BY <2>1
<1>11. new[c] = [old[c] EXCEPT !.seconds = old[c].seconds - 1]
  <2>1. new[c] = [player |-> bomb[current].player, seconds |-> bomb[current].seconds_counter - 1]
    BY <1>3, <1>6, <1>7, <1>9 DEF BombType
  <2>2. old[c] = [player |-> bomb[current].player, seconds |-> bomb[current].seconds_counter]
    BY <1>3, <1>8
  <2> QED BY <2>1, <2>2
<1>12. new = [old EXCEPT ![c].seconds = @ - 1]
  <2>1. new = [i \in 1..Len(order) |-> new[i]] /\ old = [i \in 1..Len(order) |-> old[i]]
    BY <1>8, <1>9, LenProperties
  <2>2. [old EXCEPT ![c].seconds = @ - 1] =
          [i \in 1..Len(order) |-> IF i = c THEN [old[c] EXCEPT !.seconds = old[c].seconds - 1]
                                   ELSE old[i]]
    BY <2>1
  <2>3. \A i \in 1..Len(order) :
          new[i] = IF i = c THEN [old[c] EXCEPT !.seconds = old[c].seconds - 1] ELSE old[i]
    BY <1>10, <1>11
  <2> QED BY <2>1, <2>2, <2>3
<1>13. c \in DOMAIN old /\ old[c].seconds > 1
  <2>1. old[c].seconds = bomb[current].seconds_counter
    BY <1>3, <1>8
  <2>2. \A x \in 2..255 : x > 1
    OBVIOUS
  <2> QED BY <1>5, <1>8, <2>1, <2>2
<1>14. Place(current') = c + 1
  <2>1. current' = Nth(c + 1) /\ c + 1 \in Int
    BY <1>1, <1>3, Places DEF ListInv, LinksAgree
  <2>2. CASE c = Len(order)
    BY <2>1, <2>2, Places DEF ListInv
  <2>3. CASE c # Len(order)
    <3>1. c + 1 \in 1..Len(order)
      BY <2>3
    <3> QED BY <2>1, <3>1, Places DEF ListInv
  <2> QED BY <2>2, <2>3
<1>15. Cursor = c /\ Cursor' = c + 1 /\ Bombs = old /\ Bombs' = new
  BY <1>1, <1>4, <1>14 DEF Cursor, Bombs, old, new, Place
<1> QED BY <1>12, <1>13, <1>15, QueueActions

LEMMA FirstPlace ==
  ASSUME NEW o \in Seq(Nodes), \A i, j \in DOMAIN o : o[i] = o[j] => i = j,
         NEW n, n = IF 1 \in DOMAIN o THEN o[1] ELSE NULL
  PROVE  (IF n = NULL THEN Len(o) + 1 ELSE CHOOSE i \in DOMAIN o : o[i] = n) = 1
<1>1. Len(o) \in Nat /\ DOMAIN o = 1..Len(o) /\ \A i \in 1..Len(o) : o[i] # NULL
  BY BombListAssumption
<1>2. CASE 1 \in DOMAIN o
  <2>1. n # NULL /\ o[1] = n /\ \A i \in DOMAIN o : o[i] = n => i = 1
    BY <1>1, <1>2
  <2>2. (CHOOSE i \in DOMAIN o : o[i] = n) = 1
    BY <1>2, <2>1
  <2> QED BY <2>1, <2>2
<1>3. CASE 1 \notin DOMAIN o
  BY <1>1, <1>3
<1> QED BY <1>2, <1>3

LEMMA QueueExplodes ==
  ASSUME ListInv, ListInv', Unlink
  PROVE  Queue!Explode
<1> DEFINE old == QueueOf(bomb, order)
           new == QueueOf(bomb', order')
<1>1. /\ pc = "walk" /\ pc' = "check" /\ current # NULL /\ Due(current) /\ current' = current
  BY DEF Unlink
<1>2. /\ bomb \in [Nodes -> BombType] /\ order \in Seq(Nodes)
      /\ bomb' \in [Nodes -> BombType] /\ order' \in Seq(Nodes)
  BY DEF ListInv, TypeOK
<1>3. /\ order' = Tail(order) /\ current = order[1]
      /\ \A i \in 1..(Len(order) - 1) :
           /\ bomb'[order[i + 1]].player = bomb[order[i + 1]].player
           /\ bomb'[order[i + 1]].seconds_counter = bomb[order[i + 1]].seconds_counter
  BY UnlinkStep
<1>4. Len(order) >= 1 /\ Len(order) \in Nat /\ Place(current) = 1
  BY <1>1, <1>3, DueIsHead, Places DEF ListInv
<1>5. /\ Len(order') = Len(order) - 1
      /\ \A i \in 1..(Len(order) - 1) : order'[i] = order[i + 1] /\ i + 1 \in 1..Len(order)
  BY <1>3, <1>4, WithoutHead DEF ListInv
<1>6. /\ old \in Seq(Entries) /\ Len(old) = Len(order) /\ DOMAIN old = 1..Len(order)
      /\ \A i \in 1..Len(order) :
           old[i] = [player |-> bomb[order[i]].player, seconds |-> bomb[order[i]].seconds_counter]
  BY <1>2, QueueIsASeq
<1>7. /\ new \in Seq(Entries) /\ Len(new) = Len(order')
      /\ \A i \in 1..Len(order') :
           new[i] = [player |-> bomb'[order'[i]].player, seconds |-> bomb'[order'[i]].seconds_counter]
  BY <1>2, QueueIsASeq
<1> HIDE DEF old, new
<1>8. old # <<>>
  BY <1>4, <1>6, EmptySeq
<1>9. /\ Tail(old) \in Seq(Entries) /\ Len(Tail(old)) = Len(order) - 1
      /\ \A i \in 1..(Len(order) - 1) : Tail(old)[i] = old[i + 1]
      /\ RemoveAt(old, 1) = Tail(old)
  BY <1>6, <1>8, HeadTailProperties, RemoveHead
<1>10. \A i \in 1..(Len(order) - 1) : new[i] = Tail(old)[i]
  <2>1. ASSUME NEW i \in 1..(Len(order) - 1) PROVE new[i] = Tail(old)[i]
    <3>1. i \in 1..Len(order') /\ order'[i] = order[i + 1] /\ i + 1 \in 1..Len(order)
      BY <1>5
    <3>2. Tail(old)[i] = [player |-> bomb[order[i + 1]].player,
                          seconds |-> bomb[order[i + 1]].seconds_counter]
      BY <1>6, <1>9, <3>1
    <3>3. new[i] = [player |-> bomb'[order[i + 1]].player,
                    seconds |-> bomb'[order[i + 1]].seconds_counter]
      BY <1>7, <3>1
    <3> QED BY <1>3, <3>2, <3>3
  <2> QED BY <2>1
<1>11. new = Tail(old)
  BY <1>5, <1>7, <1>9, <1>10, SeqEqual
<1>12. 1 \in DOMAIN old /\ old[1].seconds = 1
  BY <1>1, <1>3, <1>4, <1>6 DEF Due
<1>13. Cursor = 1 /\ Bombs = old /\ Bombs' = new
  BY <1>1, <1>4 DEF Cursor, Bombs, old, new
<1>14. Cursor' = 1
  <2>1. bomb'[current'].next = IF 1 \in DOMAIN order' THEN order'[1] ELSE NULL
    BY <1>1 DEF ListInv, HeadInv, Nth
  <2>2. \A i, j \in DOMAIN order' : order'[i] = order'[j] => i = j
    BY DEF ListInv, LinksAgree
  <2>3. (IF bomb'[current'].next = NULL THEN Len(order') + 1
         ELSE CHOOSE i \in DOMAIN order' : order'[i] = bomb'[current'].next) = 1
    BY <1>2, <2>1, <2>2, FirstPlace
  <2> QED BY <1>1, <2>3 DEF Cursor, Place
<1> QED BY <1>9, <1>11, <1>12, <1>13, <1>14, QueueActions

LEMMA QueueFrees ==
  ASSUME ListInv, ListInv', FreeBomb
  PROVE  UNCHANGED Queue!vars
<1>1. /\ pc = "check" /\ pc' = "walk" /\ order' = order
      /\ current' = bomb[current].next /\ bomb' = [bomb EXCEPT ![current] = Blank]
  BY DEF FreeBomb, Free
<1>2. Cursor' = Cursor
  BY <1>1 DEF Cursor, Place
<1>3. \A i \in DOMAIN order : order[i] \in Nodes /\ order[i] # current
  BY <1>1, Places DEF ListInv, NothingDangles, NodesOfList
<1>4. \A i \in DOMAIN order : bomb'[order[i]] = bomb[order[i]]
  BY <1>1, <1>3 DEF ListInv, TypeOK
<1>5. QueueOf(bomb', order') = QueueOf(bomb, order)
  BY <1>1, <1>4 DEF QueueOf
<1>6. Bombs' = Bombs
  BY <1>1, <1>5 DEF Bombs
<1> QED BY <1>2, <1>6, QueueActions

LEMMA QueueEnds ==
  ASSUME ListInv, ListInv', EndWalk
  PROVE  Queue!End
<1>1. /\ pc = "walk" /\ pc' = "pass" /\ current = NULL /\ bomb' = bomb /\ order' = order
  BY DEF EndWalk, list
<1>2. Len(QueueOf(bomb, order)) = Len(order)
  BY QueueIsASeq DEF ListInv, TypeOK
<1>3. Place(NULL) = Len(order) + 1
  BY Places DEF ListInv
<1>4. Cursor = Len(Bombs) + 1 /\ Cursor' = 0 /\ Bombs' = Bombs
  BY <1>1, <1>2, <1>3 DEF Cursor, Bombs
<1> QED BY <1>4, QueueActions

LEMMA QueueClears ==
  ASSUME ListInv, ListInv', FreeNext
  PROVE  UNCHANGED Queue!vars
<1>1. pc = "clear" /\ pc' = "clear"
  BY DEF FreeNext
<1>2. Bombs = <<>> /\ Bombs' = <<>> /\ Cursor = 0 /\ Cursor' = 0
  BY <1>1 DEF Bombs, Cursor
<1> QED BY <1>2, QueueActions

LEMMA QueueStep ==
  ASSUME ListInv, ListInv', [Next]_vars
  PROVE  [Queue!Next]_(Queue!vars)
<1>1. CASE UNCHANGED vars
  <2>1. UNCHANGED <<bomb, order, current, pc>>
    BY <1>1 DEF vars, list
  <2>2. Bombs' = Bombs /\ Cursor' = Cursor
    BY <2>1 DEF Bombs, Cursor, QueueOf, Place
  <2> QED BY <2>2, QueueActions
<1>2. CASE NoBomb \/ EndPass
  BY <1>2, QueuePasses DEF Queue!Next
<1>3. CASE \E n \in Nodes : DropBomb(n)
  BY <1>3, QueueDrops DEF Queue!Next
<1>4. CASE CountDown \/ Unlink \/ EndWalk
  BY <1>4, QueueCounts, QueueExplodes, QueueEnds DEF Queue!Next
<1>5. CASE FreeBomb \/ FreeNext
  BY <1>5, QueueFrees, QueueClears
<1> QED BY <1>1, <1>2, <1>3, <1>4, <1>5 DEF Next

(* The linked list implements the queue that module Match takes it for:    *)
(* each bomb is counted down once a round, from the oldest on, whatever    *)
(* explode_bombs unlinks and frees on the way.                             *)
THEOREM ListIsQueue == Spec => ImplementsQueue
<1>1. ListInv /\ ListInv' /\ [Next]_vars => [Queue!Next]_(Queue!vars)
  BY QueueStep
<1> QED BY <1>1, QueueInit, ListInvariance, PTL DEF Spec, ImplementsQueue, Queue!Spec

=============================================================================
