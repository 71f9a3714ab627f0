----------------------------- MODULE NumsProofs -----------------------------
(***************************************************************************)
(* Proofs about ActionNums, for every range of numbers, every window for   *)
(* detecting the wrap-around, and a network that loses, duplicates and     *)
(* delays messages within the bounds of NumsAssumption.                    *)
(***************************************************************************)
EXTENDS ActionNums, TLAPS

USE NumsAssumption

(* What is under way was sent at most Lag sends ago, and nothing accepted  *)
(* is from the future.                                                     *)
NetworkInv ==
  /\ \A m \in network : Before(m, Counter) /\ Distance(m, Counter) <= Lag
  /\ ~Before(Counter, movement) /\ ~Before(Counter, bomb)

Inv == TypeOK /\ NetworkInv

(* The client's counter runs through the numbers in order.                 *)
LEMMA Successor ==
  ASSUME NEW n \in Nums
  PROVE  /\ n % NUM_MAX = n
         /\ (n + 1) % NUM_MAX = IF n + 1 = NUM_MAX THEN 0 ELSE n + 1
         /\ (n + 1) % NUM_MAX \in Nums
BY DEF Nums

(* The window detects a wrap-around between two actions that are close.    *)
LEMMA CloseIsNew ==
  ASSUME NEW m \in Messages, NEW buf \in ActionBufs,
         Distance(buf, m) \in 1..OVERFLOW_DETECTION_BUFFER
  PROVE  /\ IsNewMovement(buf.num, m.num)
         /\ IsNewBomb(buf.num, m.num) \/ m.num = 0
BY DEF Messages, ActionBufs, Laps, Nums, Distance, IsNewMovement, IsNewBomb, HasOverflown

(* It does not mistake an old action of the same lap for a new one.        *)
LEMMA OldIsRefused ==
  ASSUME NEW m \in Messages, NEW buf \in ActionBufs, NEW counter \in [lap : Laps, num : Nums],
         Distance(m, counter) <= Lag, ~Before(counter, buf),
         m.lap = buf.lap, m.num < buf.num
  PROVE  /\ ~IsNewBomb(buf.num, m.num)
         /\ IsNewMovement(buf.num, m.num) => m.num = 0
<1>1. /\ m.num \in Nums /\ buf.num \in Nums /\ counter.num \in Nums
      /\ m.lap \in Laps /\ counter.lap \in Laps
  BY DEF Messages, ActionBufs
<1>2. ~HasOverflown(buf.num, m.num)
  BY <1>1 DEF Laps, Nums, Distance, Before, HasOverflown
<1> QED
  BY <1>1, <1>2 DEF Nums, IsNewMovement, IsNewBomb

LEMMA InitInv == Init => Inv
<1> SUFFICES ASSUME Init PROVE Inv
  OBVIOUS
<1>1. overtaken \in BOOLEAN
  BY Zenon DEF Init
<1>2. num \in Nums /\ lap \in Laps /\ network = {} /\ cancelled = {}
      /\ dropped = {} /\ movement \in ActionBufs /\ bomb \in ActionBufs
  BY DEF Init, NoAction, ActionBufs, Laps, Nums
<1>3. NetworkInv
  BY DEF Init, NetworkInv, NoAction, Before, Counter
<1> QED
  BY <1>1, <1>2, <1>3 DEF Inv, TypeOK

LEMMA SendInv ==
  ASSUME Inv, NEW kind \in Kinds, Send(kind)
  PROVE  Inv'
<1> DEFINE sent == [lap |-> lap, num |-> num % NUM_MAX, kind |-> kind]
<1>1. /\ num \in Nums /\ lap \in Laps /\ num' \in Nums /\ num % NUM_MAX = num
      /\ num' = IF num + 1 = NUM_MAX THEN 0 ELSE num + 1
  BY Successor DEF Send, Inv, TypeOK
<1>2. lap' \in Laps /\ lap' = IF num' = 0 THEN lap + 1 ELSE lap
  BY <1>1 DEF Send, Laps
<1>3. /\ sent \in Messages /\ Before(sent, Counter') /\ Distance(sent, Counter') <= Lag
  BY <1>1, <1>2 DEF Messages, Before, Distance, Counter, Nums, Laps
<1>4. \A m : m \in network' => m = sent \/ (m \in network /\ Distance(m, Counter') <= Lag)
  BY DEF Send
<1>5. ASSUME NEW m, m.lap \in Laps, m.num \in Nums
      PROVE  /\ Before(m, Counter) => Before(m, Counter')
             /\ ~Before(Counter, m) => ~Before(Counter', m)
  BY <1>1, <1>2, <1>5 DEF Before, Counter, Nums, Laps
<1>6. \A m \in network : m.lap \in Laps /\ m.num \in Nums
  BY DEF Inv, TypeOK, Messages
<1>7. \A b \in ActionBufs : b.lap \in Laps /\ b.num \in Nums
  BY DEF ActionBufs
<1> HIDE DEF sent
<1>8. UNCHANGED <<movement, bomb, cancelled, dropped>>
  BY DEF Send
<1>9. overtaken' \in BOOLEAN
  BY Zenon DEF Inv, TypeOK, Send
<1>10. TypeOK'
  BY <1>1, <1>2, <1>3, <1>4, <1>8, <1>9 DEF Inv, TypeOK
<1>11. \A m \in network' : Before(m, Counter') /\ Distance(m, Counter') <= Lag
  BY <1>3, <1>4, <1>5, <1>6 DEF Inv, NetworkInv
<1>12. ~Before(Counter', movement) /\ ~Before(Counter', bomb)
  BY <1>5, <1>7 DEF Inv, NetworkInv, TypeOK
<1> QED
  BY <1>8, <1>10, <1>11, <1>12 DEF Inv, NetworkInv

LEMMA HandleInv ==
  ASSUME Inv, NEW m \in network, Handle(m)
  PROVE  Inv'
<1>1. m \in Messages /\ Before(m, Counter)
  BY DEF Inv, TypeOK, NetworkInv
<1>2. network' \subseteq network /\ UNCHANGED <<num, lap, dropped>>
  BY DEF Handle, UpdateLatestMovement, UpdateLatestBombDrop, CancelLatestMove, Arrives
<1>3. /\ Pending(m) \in ActionBufs
      /\ ~Before(Counter, Pending(m))
  BY <1>1 DEF Pending, Messages, ActionBufs, Before, Counter, Inv, TypeOK, Nums, Laps
<1>4. /\ movement' \in {movement, Pending(m), [movement EXCEPT !.is_pending = FALSE]}
      /\ bomb' \in {bomb, Pending(m)}
      /\ cancelled' \in {cancelled, {m}}
  BY DEF Handle, UpdateLatestMovement, UpdateLatestBombDrop, CancelLatestMove
<1>5. /\ [movement EXCEPT !.is_pending = FALSE] \in ActionBufs
      /\ ~Before(Counter, [movement EXCEPT !.is_pending = FALSE])
  BY DEF Inv, TypeOK, NetworkInv, ActionBufs, Before, Counter
<1>6. Counter' = Counter
  BY <1>2 DEF Counter
<1>7. overtaken' \in BOOLEAN
  BY Zenon DEF Handle, UpdateLatestMovement, UpdateLatestBombDrop, CancelLatestMove, Arrives
<1>8. TypeOK'
  BY <1>1, <1>2, <1>3, <1>4, <1>5, <1>7 DEF Inv, TypeOK
<1>9. NetworkInv'
  BY <1>2, <1>3, <1>4, <1>5, <1>6 DEF Inv, NetworkInv
<1> QED
  BY <1>8, <1>9 DEF Inv

LEMMA NextInv == Inv /\ [Next]_vars => Inv'
<1> SUFFICES ASSUME Inv, [Next]_vars
             PROVE  Inv'
  OBVIOUS
<1>1. CASE UNCHANGED vars
  BY <1>1 DEF vars, Inv, TypeOK, NetworkInv, Counter
<1>2. ASSUME NEW m \in network, Lose(m)
      PROVE  Inv'
  BY <1>2 DEF Lose, Inv, TypeOK, NetworkInv, Counter
<1>3. CASE CarryOut
  <2>1. ASSUME NEW b \in ActionBufs
        PROVE  /\ [b EXCEPT !.is_pending = FALSE] \in ActionBufs
               /\ Before(Counter, [b EXCEPT !.is_pending = FALSE]) = Before(Counter, b)
    BY DEF ActionBufs, Before
  <2>2. UNCHANGED <<num, lap, network, cancelled>> /\ Counter' = Counter
    BY <1>3 DEF CarryOut, Counter
  <2> QED
    BY <1>3, <2>1, <2>2 DEF CarryOut, Inv, TypeOK, NetworkInv
<1> QED
  BY <1>1, <1>2, <1>3, SendInv, HandleInv DEF Next

LEMMA Invariance == Spec => []Inv
BY InitInv, NextInv, PTL DEF Spec

(* Every variable keeps its type.                                          *)
THEOREM NumsTypeCorrect == Spec => []TypeOK
<1>1. Inv => TypeOK
  BY DEF Inv
<1> QED
  BY <1>1, Invariance, PTL

(* An action is accepted when fewer than OVERFLOW_DETECTION_BUFFER actions *)
(* of the client lie between it and the last one accepted of its kind, at  *)
(* the end of the numbers as anywhere else; but for a bomb numbered 0.     *)
THEOREM FreshAccepted == Spec => FreshIsAccepted
<1> DEFINE Fresh ==
      \A m \in network :
        /\ UpdateLatestMovement(m) /\ Distance(movement, m) \in 1..OVERFLOW_DETECTION_BUFFER
             => movement' = Pending(m)
        /\ UpdateLatestBombDrop(m) /\ Distance(bomb, m) \in 1..OVERFLOW_DETECTION_BUFFER
             => bomb' = Pending(m) \/ m.num = 0
<1>1. Inv => Fresh
  BY CloseIsNew DEF Inv, TypeOK, UpdateLatestMovement, UpdateLatestBombDrop
<1> QED
  BY <1>1, Invariance, PTL DEF FreshIsAccepted

(* Reordering within Lag never makes the server go back to an older action *)
(* of the same lap, a movement numbered 0 excepted.                        *)
THEOREM StaleRefused == Spec => StaleOnlyAcrossWrap
<1> DEFINE Refused ==
      \A m \in network :
        /\ Accepts(movement, movement', m) /\ Before(m, movement)
             => m.lap < movement.lap \/ m.num = 0
        /\ Accepts(bomb, bomb', m) /\ Before(m, bomb)
             => m.lap < bomb.lap
<1>1. ASSUME Inv, [Next]_vars PROVE Refused
  <2> SUFFICES ASSUME NEW m \in network
               PROVE  /\ Accepts(movement, movement', m) /\ Before(m, movement)
                           => m.lap < movement.lap \/ m.num = 0
                      /\ Accepts(bomb, bomb', m) /\ Before(m, bomb)
                           => m.lap < bomb.lap
    OBVIOUS
  <2>1. /\ m \in Messages /\ Distance(m, Counter) <= Lag /\ Counter \in [lap : Laps, num : Nums]
        /\ movement \in ActionBufs /\ bomb \in ActionBufs
        /\ ~Before(Counter, movement) /\ ~Before(Counter, bomb)
    BY <1>1 DEF Inv, TypeOK, NetworkInv, Counter
  <2>2. ASSUME Accepts(movement, movement', m)
        PROVE  IsNewMovement(movement.num, m.num)
    BY <1>1, <2>2 DEF Accepts, Pending, Next, vars, Send, Lose, CarryOut, Handle,
       UpdateLatestMovement, UpdateLatestBombDrop, CancelLatestMove, Inv, TypeOK, ActionBufs
  <2>3. ASSUME Accepts(bomb, bomb', m)
        PROVE  IsNewBomb(bomb.num, m.num)
    BY <1>1, <2>3 DEF Accepts, Pending, Next, vars, Send, Lose, CarryOut, Handle,
       UpdateLatestMovement, UpdateLatestBombDrop, CancelLatestMove, Inv, TypeOK, ActionBufs
  <2> QED
    BY <2>1, <2>2, <2>3, OldIsRefused DEF Before, Messages, ActionBufs
<1>2. Inv /\ [Next]_vars => [Refused]_vars
  BY <1>1
<1> HIDE DEF Refused
<1>3. Spec => [][Refused]_vars
  BY <1>2, Invariance, PTL DEF Spec
<1> QED
  BY <1>3 DEF StaleOnlyAcrossWrap, Refused

-----------------------------------------------------------------------------
(* The order of what was sent.                                             *)
SameNum(m, n) == m.lap = n.lap /\ m.num = n.num

(* A number and a lap stand for one message; a cancellation was sent       *)
(* before every movement that can still arrive, unless one was overtaken.  *)
CancelInv ==
  /\ \A m, n \in network : SameNum(m, n) => m = n
  /\ \A c \in cancelled : Before(c, Counter) /\ c.kind = "cancel"
  /\ ~overtaken => \A c \in cancelled, m \in network : m.kind = "movement" => Before(c, m)
  /\ CancelHolds

(* The latest bomb dropped is the one stored, or an earlier one while the  *)
(* stored one is pending.                                                  *)
DropInv ==
  /\ ~overtaken => \A m \in network : ~Before(m, bomb)
  /\ ~overtaken \/ lap = 0 =>
       \A b \in dropped : IF bomb.is_pending THEN Before(b, bomb) ELSE SameNum(b, bomb)

LEMMA BeforeIsOrder ==
  ASSUME NEW l, l.lap \in Laps, l.num \in Nums, NEW m, m.lap \in Laps, m.num \in Nums,
         NEW n, n.lap \in Laps, n.num \in Nums
  PROVE  /\ Before(m, n) \/ Before(n, m) \/ SameNum(m, n)
         /\ ~(Before(m, n) /\ Before(n, m)) /\ ~(Before(m, n) /\ SameNum(m, n))
         /\ Before(l, m) /\ ~Before(n, m) => Before(l, n)
         /\ SameNum(l, m) /\ Before(m, n) => Before(l, n)
BY DEF Before, SameNum, Laps, Nums

(* What a message, a buffer and the counter have in common.                *)
LEMMA Numbered ==
  ASSUME TypeOK
  PROVE  /\ \A m \in network \cup cancelled \cup dropped \cup {movement, bomb, Counter} :
              m.lap \in Laps /\ m.num \in Nums
BY DEF TypeOK, Messages, ActionBufs, Counter

(* A send is later than everything before it.                              *)
LEMMA Sending ==
  ASSUME Inv, NEW kind \in Kinds, Send(kind)
  PROVE  LET sent == [lap |-> lap, num |-> num, kind |-> kind]
         IN /\ network' \subseteq network \cup {sent}
            /\ \A m \in network : Before(m, sent)
            /\ \A m : m.lap \in Laps /\ m.num \in Nums /\ (Before(m, Counter) \/ m = sent)
                        => Before(m, Counter')
            /\ lap' = 0 => lap = 0
            /\ ~Before(sent, bomb)
            /\ sent \in Messages /\ SameNum(sent, Counter)
<1>1. /\ num \in Nums /\ lap \in Laps /\ num' \in Nums /\ num % NUM_MAX = num
      /\ num' = IF num + 1 = NUM_MAX THEN 0 ELSE num + 1
  BY Successor DEF Send, Inv, TypeOK
<1>2. lap' \in Laps /\ lap' = IF num' = 0 THEN lap + 1 ELSE lap
  BY <1>1 DEF Send, Laps
<1> DEFINE sent == [lap |-> lap, num |-> num, kind |-> kind]
<1>3. network' \subseteq network \cup {sent}
  BY <1>1 DEF Send
<1>4. sent \in Messages /\ SameNum(sent, Counter) /\ Before(sent, Counter')
  BY <1>1, <1>2 DEF Messages, SameNum, Counter, Before, Laps, Nums
<1>5. \A m \in network : Before(m, sent)
  BY DEF Inv, NetworkInv, Before, Counter
<1>6. \A m : m.lap \in Laps /\ m.num \in Nums /\ Before(m, Counter) => Before(m, Counter')
  BY <1>1, <1>2 DEF Before, Counter, Laps, Nums
<1>7. lap' = 0 => lap = 0
  BY <1>1, <1>2 DEF Laps
<1>8. ~Before(sent, bomb)
  BY DEF Inv, NetworkInv, Before, Counter
<1> QED BY <1>3, <1>4, <1>5, <1>6, <1>7, <1>8

LEMMA CancelStep == Inv /\ CancelInv /\ [Next]_vars => CancelInv'
<1> SUFFICES ASSUME Inv, CancelInv, [Next]_vars PROVE CancelInv'
  OBVIOUS
<1> TypeOK
  BY DEF Inv
<1>1. ASSUME NEW kind \in Kinds, Send(kind)
      PROVE  CancelInv'
  <2> DEFINE sent == [lap |-> lap, num |-> num, kind |-> kind]
  <2>1. /\ network' \subseteq network \cup {sent} /\ \A m \in network : Before(m, sent)
        /\ \A m : m.lap \in Laps /\ m.num \in Nums /\ Before(m, Counter) => Before(m, Counter')
        /\ sent \in Messages /\ SameNum(sent, Counter)
    BY <1>1, Sending
  <2>2. UNCHANGED <<movement, cancelled, overtaken>>
    BY <1>1 DEF Send
  <2>3. sent.lap \in Laps /\ sent.num \in Nums
    BY <2>1 DEF Messages
  <2> HIDE DEF sent
  <2>4. \A m, n \in network' : SameNum(m, n) => m = n
    <3> SUFFICES ASSUME NEW m \in network', NEW n \in network', SameNum(m, n) PROVE m = n
      OBVIOUS
    <3>1. ASSUME NEW k \in network PROVE ~SameNum(k, sent) /\ ~SameNum(sent, k)
      BY <2>1, <2>3, Numbered DEF Before, SameNum, Laps, Nums
    <3> QED BY <2>1, <3>1 DEF CancelInv
  <2>5. \A c \in cancelled : Before(c, Counter') /\ Before(c, sent)
    BY <2>1, Numbered DEF CancelInv, SameNum, Before
  <2>6. CancelHolds'
    BY <2>2 DEF CancelInv, CancelHolds
  <2> QED BY <2>1, <2>2, <2>4, <2>5, <2>6 DEF CancelInv
<1>2. ASSUME NEW m \in network, Handle(m)
      PROVE  CancelInv'
  <2>1. /\ network' \subseteq network /\ UNCHANGED Counter
        /\ overtaken' = (overtaken \/ \E n \in network : Before(n, m))
    BY <1>2 DEF Handle, UpdateLatestMovement, UpdateLatestBombDrop, CancelLatestMove, Arrives,
                Counter
  <2>2. \A k, n \in network' : SameNum(k, n) => k = n
    BY <2>1 DEF CancelInv
  <2>3. CASE m.kind = "movement"
    <3>1. cancelled' = cancelled /\ movement' \in {movement, Pending(m)}
      BY <1>2, <2>3 DEF Handle, UpdateLatestMovement, UpdateLatestBombDrop, CancelLatestMove
    <3>2. CancelHolds'
      <4>1. CASE movement' = movement
        BY <2>1, <3>1, <4>1 DEF CancelInv, CancelHolds
      <4>2. CASE movement' = Pending(m)
        <5>1. \A c \in cancelled : Before(c, m) => Before(c, Pending(m))
          BY DEF Pending, Before
        <5>2. ~overtaken' => ~overtaken
          BY <2>1
        <5> QED BY <2>3, <3>1, <4>2, <5>1, <5>2 DEF CancelInv, CancelHolds
      <4> QED BY <3>1, <4>1, <4>2
    <3> QED BY <2>1, <2>2, <3>1, <3>2 DEF CancelInv
  <2>4. CASE m.kind = "bomb"
    <3>1. cancelled' = cancelled /\ movement' = movement
      BY <1>2, <2>4 DEF Handle, UpdateLatestMovement, UpdateLatestBombDrop, CancelLatestMove
    <3>2. CancelHolds'
      BY <2>1, <3>1 DEF CancelInv, CancelHolds
    <3> QED BY <2>1, <2>2, <3>1, <3>2 DEF CancelInv
  <2>5. CASE m.kind = "cancel"
    <3>1. cancelled' = {m} /\ movement' = [movement EXCEPT !.is_pending = FALSE]
      BY <1>2, <2>5 DEF Handle, UpdateLatestMovement, UpdateLatestBombDrop, CancelLatestMove
    <3>2. ~movement'.is_pending
      BY <3>1 DEF TypeOK, ActionBufs
    <3>3. ASSUME ~overtaken', NEW n \in network', n.kind = "movement"
          PROVE  Before(m, n)
      <4>1. n \in network /\ ~Before(n, m) /\ ~SameNum(n, m)
        BY <2>1, <2>5, <3>3 DEF CancelInv
      <4> QED BY <4>1, Numbered, BeforeIsOrder
    <3>4. Before(m, Counter')
      BY <2>1 DEF Inv, NetworkInv
    <3> QED BY <2>2, <2>5, <3>1, <3>2, <3>3, <3>4 DEF CancelInv, CancelHolds
  <2>6. m.kind \in Kinds
    BY DEF TypeOK, Messages
  <2> QED BY <2>3, <2>4, <2>5, <2>6 DEF Kinds
<1>3. ASSUME NEW m \in network, Lose(m)
      PROVE  CancelInv'
  BY <1>3 DEF Lose, CancelInv, CancelHolds, Counter
<1>4. CASE CarryOut
  <2>1. ~movement'.is_pending
    BY <1>4 DEF CarryOut, TypeOK, ActionBufs
  <2> QED BY <1>4, <2>1 DEF CarryOut, CancelInv, CancelHolds, Counter
<1>5. CASE UNCHANGED vars
  BY <1>5 DEF vars, CancelInv, CancelHolds, Counter
<1> QED BY <1>1, <1>2, <1>3, <1>4, <1>5 DEF Next

(* However messages are lost and repeated, a movement that was sent before *)
(* a cancellation is not pending after it, unless one overtook another.    *)
THEOREM CancelledStays == Spec => []CancelHolds
<1>1. Init => CancelInv
  BY DEF Init, CancelInv, CancelHolds
<1>2. CancelInv => CancelHolds
  BY DEF CancelInv
<1> QED BY <1>1, <1>2, CancelStep, Invariance, PTL DEF Spec

(* A bomb that is accepted was sent after the one stored, as long as there *)
(* was nothing to confuse the numbers.                                     *)
LEMMA AcceptedIsLater ==
  ASSUME Inv, DropInv, NEW m \in network, UpdateLatestBombDrop(m),
         IsNewBomb(bomb.num, m.num), ~overtaken' \/ lap' = 0
  PROVE  Before(bomb, m)
<1>1. /\ m \in Messages /\ Distance(m, Counter) <= Lag /\ Before(m, Counter)
      /\ Counter \in [lap : Laps, num : Nums]
      /\ bomb \in ActionBufs /\ ~Before(Counter, bomb)
  BY DEF Inv, TypeOK, NetworkInv, Counter
<1>2. m.lap \in Laps /\ m.num \in Nums /\ bomb.lap \in Laps /\ bomb.num \in Nums
  BY <1>1 DEF Messages, ActionBufs
<1>3. lap' = lap /\ (~overtaken' => ~overtaken)
  BY DEF UpdateLatestBombDrop, Arrives
<1>4. ~SameNum(m, bomb)
  BY <1>2 DEF SameNum, IsNewBomb, HasOverflown, Nums
<1>5. ~Before(m, bomb)
  <2>1. CASE ~overtaken'
    BY <1>3, <2>1 DEF DropInv
  <2>2. CASE lap' = 0
    <3>1. m.lap = 0 /\ bomb.lap = 0
      BY <1>1, <1>2, <1>3, <2>2 DEF Before, Counter, Laps
    <3> QED BY <1>1, <3>1, OldIsRefused DEF Before
  <2> QED BY <2>1, <2>2
<1> QED BY <1>2, <1>4, <1>5, BeforeIsOrder

LEMMA DropStep == Inv /\ DropInv /\ [Next]_vars => DropInv'
<1> SUFFICES ASSUME Inv, DropInv, [Next]_vars PROVE DropInv'
  OBVIOUS
<1> TypeOK
  BY DEF Inv
<1>1. ASSUME NEW kind \in Kinds, Send(kind)
      PROVE  DropInv'
  <2> DEFINE sent == [lap |-> lap, num |-> num, kind |-> kind]
  <2>1. network' \subseteq network \cup {sent} /\ ~Before(sent, bomb) /\ (lap' = 0 => lap = 0)
    BY <1>1, Sending
  <2> HIDE DEF sent
  <2>2. UNCHANGED <<bomb, dropped, overtaken>>
    BY <1>1 DEF Send
  <2> QED BY <2>1, <2>2 DEF DropInv
<1>2. ASSUME NEW m \in network, UpdateLatestBombDrop(m), IsNewBomb(bomb.num, m.num)
      PROVE  DropInv'
  <2>1. /\ network' \subseteq network /\ UNCHANGED <<lap, dropped>> /\ bomb' = Pending(m)
        /\ overtaken' = (overtaken \/ \E n \in network : Before(n, m))
    BY <1>2 DEF UpdateLatestBombDrop, Arrives
  <2>2. ASSUME ~overtaken' PROVE \A n \in network' : ~Before(n, bomb')
    BY <2>1, <2>2 DEF Pending, Before
  <2>3. ASSUME ~overtaken' \/ lap' = 0, NEW b \in dropped
        PROVE  Before(b, m)
    <3>1. Before(bomb, m)
      BY <1>2, <2>3, AcceptedIsLater
    <3>2. Before(b, bomb) \/ SameNum(b, bomb)
      BY <2>1, <2>3 DEF DropInv
    <3>3. b.lap \in Laps /\ b.num \in Nums /\ m.lap \in Laps /\ m.num \in Nums
          /\ bomb.lap \in Laps /\ bomb.num \in Nums
      BY Numbered
    <3> QED BY <3>1, <3>2, <3>3, BeforeIsOrder
  <2> QED BY <2>1, <2>2, <2>3 DEF DropInv, Pending, Before
<1>3. ASSUME NEW m \in network, Handle(m) \/ Lose(m), bomb' = bomb
      PROVE  DropInv'
  <2>1. CASE Lose(m)
    BY <2>1 DEF Lose, DropInv
  <2>2. CASE Handle(m)
    <3>1. Arrives(m) /\ UNCHANGED <<lap, dropped>>
      BY <2>2 DEF Handle, UpdateLatestMovement, UpdateLatestBombDrop, CancelLatestMove
    <3>2. network' \subseteq network /\ (~overtaken' => ~overtaken)
      BY <3>1 DEF Arrives
    <3> QED BY <1>3, <3>1, <3>2 DEF DropInv
  <2> QED BY <1>3, <2>1, <2>2
<1>4. ASSUME NEW m \in network, Handle(m)
      PROVE  bomb' = bomb \/ (UpdateLatestBombDrop(m) /\ IsNewBomb(bomb.num, m.num))
  BY <1>4 DEF Handle, UpdateLatestMovement, UpdateLatestBombDrop, CancelLatestMove
<1>5. CASE CarryOut
  <2>1. /\ bomb'.lap = bomb.lap /\ bomb'.num = bomb.num /\ ~bomb'.is_pending
        /\ UNCHANGED <<lap, network, overtaken>>
        /\ dropped' = IF bomb.is_pending THEN {bomb} ELSE dropped
    BY <1>5 DEF CarryOut, TypeOK, ActionBufs
  <2> QED BY <2>1 DEF DropInv, Before, SameNum
<1>6. CASE UNCHANGED vars
  BY <1>6 DEF vars, DropInv
<1>7. ASSUME NEW m \in network, Lose(m)
      PROVE  DropInv'
  BY <1>3, <1>7 DEF Lose
<1> QED BY <1>1, <1>2, <1>3, <1>4, <1>5, <1>6, <1>7 DEF Next

(* However messages are lost and repeated, each bomb is dropped once and   *)
(* bombs are dropped in the order they were asked for, unless messages     *)
(* overtook one another after the numbers had wrapped around.              *)
THEOREM BombsInOrder == Spec => BombsOnceInOrder
<1> DEFINE Later == (~overtaken \/ lap = 0) /\ CarryOut =>
              \A b \in dropped, c \in dropped' : bomb.is_pending => Before(b, c)
<1>1. DropInv => Later
  BY DEF DropInv, CarryOut
<1>2. Init => DropInv
  BY DEF Init, DropInv
<1> HIDE DEF Later
<1>3. Spec => [][Later]_vars
  BY <1>1, <1>2, DropStep, Invariance, PTL DEF Spec
<1> QED BY <1>3 DEF BombsOnceInOrder, Later

=============================================================================
