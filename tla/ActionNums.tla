----------------------------- MODULE ActionNums -----------------------------
(***************************************************************************)
(* The numbers of action messages: the client counts them modulo NUM_MAX   *)
(* (udp_message), UDP loses, duplicates and overtakes them, and the server *)
(* decides by number which are new (handle_action_message with             *)
(* update_latest_movement and update_latest_bomb_drop) before the next     *)
(* process_partial_updates carries the pending ones out.                   *)
(*                                                                         *)
(* One client and its two ActionBufs are enough: the server keeps a pair   *)
(* per player and never compares numbers of different players.  The        *)
(* direction of a movement and what it does to the field belong to module  *)
(* Match; there, BufferAction accepts or refuses what is decided here.     *)
(*                                                                         *)
(* "lap" counts how often the numbers have wrapped around.  It is history: *)
(* the code does not have it, and the properties need it to tell what was  *)
(* really sent later.                                                      *)
(*                                                                         *)
(* A definition named X_Defect is X with a defect; Next does not use it.   *)
(***************************************************************************)
EXTENDS Integers

CONSTANTS
  NUM_MAX,                    (* 8191 in common/messages.h                 *)
  OVERFLOW_DETECTION_BUFFER,  (* 16                                        *)
  Lag,        (* bound: a message this many sends old arrives no more      *)
  MaxLap      (* bound on how often the numbers wrap around                *)

(***************************************************************************)
(* The network is faster than a lap of the numbers: nothing arrives so     *)
(* late that its number looks like one of the next lap.  With 8191 numbers *)
(* that is 8160 sends later.                                                *)
(***************************************************************************)
ASSUME NumsAssumption ==
  /\ NUM_MAX \in Nat /\ OVERFLOW_DETECTION_BUFFER \in Nat \ {0}
  /\ 2 * OVERFLOW_DETECTION_BUFFER <= NUM_MAX
  /\ Lag \in 1..(NUM_MAX - 2 * OVERFLOW_DETECTION_BUFFER + 1)
  /\ MaxLap \in Nat

Kinds == {"movement", "bomb", "cancel"}

Nums == 0..(NUM_MAX - 1)

Laps == 0..MaxLap

Messages == [lap : Laps, num : Nums, kind : Kinds]

VARIABLES
  num,        (* pl->num of the client                                     *)
  lap,        (* history: wraps of num                                     *)
  network,    (* messages under way                                        *)
  movement,   (* match->latest_movements[player], and the lap of its num   *)
  bomb,       (* match->latest_bombs[player], likewise                     *)
  cancelled,  (* history: the latest CANCEL_LATEST_MOVE handled            *)
  dropped,    (* history: the latest bomb carried out                      *)
  overtaken   (* history: a message arrived before an earlier one          *)

vars == <<num, lap, network, movement, bomb, cancelled, dropped, overtaken>>

ActionBufs == [lap : Laps, num : Nums, is_pending : BOOLEAN]

(* The zeroed ActionBuf of a new match, as if a number 0 had been seen.    *)
NoAction == [lap |-> 0, num |-> 0, is_pending |-> FALSE]

Init ==
  /\ num = 0 /\ lap = 0
  /\ network = {}
  /\ movement = NoAction /\ bomb = NoAction
  /\ cancelled = {}
  /\ dropped = {}
  /\ overtaken = FALSE

-----------------------------------------------------------------------------
(* m was sent before n, and how many sends before, when it is fewer than   *)
(* the numbers there are.                                                  *)
Before(m, n) == m.lap < n.lap \/ (m.lap = n.lap /\ m.num < n.num)

Distance(m, n) ==
  IF n.lap = m.lap THEN n.num - m.num
  ELSE IF n.lap = m.lap + 1 THEN NUM_MAX - m.num + n.num
  ELSE IF n.lap > m.lap + 1 THEN NUM_MAX + 1 ELSE -1

Counter == [lap |-> lap, num |-> num]

(* udp_message: movements and bombs share one counter.                     *)
Send_NoWrap(kind) ==
  /\ num' = num + 1
  /\ UNCHANGED lap
  /\ network' = {m \in network : Distance(m, Counter') <= Lag}
                  \cup {[lap |-> lap, num |-> num % NUM_MAX, kind |-> kind]}
  /\ UNCHANGED <<movement, bomb, cancelled, dropped, overtaken>>

Send(kind) ==
  /\ num' = (num + 1) % NUM_MAX
  /\ IF num' = 0 THEN lap < MaxLap /\ lap' = lap + 1 ELSE UNCHANGED lap
  /\ network' = {m \in network : Distance(m, Counter') <= Lag}
                  \cup {[lap |-> lap, num |-> num % NUM_MAX, kind |-> kind]}
  /\ UNCHANGED <<movement, bomb, cancelled, dropped, overtaken>>

Lose(m) ==
  /\ m \in network
  /\ network' = network \ {m}
  /\ UNCHANGED <<num, lap, movement, bomb, cancelled, dropped, overtaken>>

-----------------------------------------------------------------------------
(* has_overflown: a small number after a large one is a new one.           *)
HasOverflown_AnyCurrent(current_num, new_num) ==
  0 < new_num /\ new_num < OVERFLOW_DETECTION_BUFFER

HasOverflown_Narrow(current_num, new_num) ==
  /\ 0 < new_num /\ new_num < OVERFLOW_DETECTION_BUFFER
  /\ current_num > NUM_MAX - OVERFLOW_DETECTION_BUFFER + 1

HasOverflown(current_num, new_num) ==
  /\ 0 < new_num /\ new_num < OVERFLOW_DETECTION_BUFFER
  /\ current_num > NUM_MAX - OVERFLOW_DETECTION_BUFFER

(* The tests of update_latest_movement and update_latest_bomb_drop.        *)
IsNewMovement(current_num, new_num) ==
  \/ new_num = 0
  \/ new_num > current_num
  \/ HasOverflown(current_num, new_num)

IsNewBomb_OrEqual(current_num, new_num) ==
  new_num >= current_num \/ HasOverflown(current_num, new_num)

IsNewBomb(current_num, new_num) ==
  new_num > current_num \/ HasOverflown(current_num, new_num)

Pending(m) == [lap |-> m.lap, num |-> m.num, is_pending |-> TRUE]

(* The network delivers m; it may deliver a copy later.                    *)
Arrives(m) ==
  /\ m \in network
  /\ overtaken' = (overtaken \/ \E n \in network : Before(n, m))
  /\ network' \in {network, network \ {m}}

(* handle_action_message: three kinds of message, accepted or refused.     *)
UpdateLatestMovement(m) ==
  /\ Arrives(m)
  /\ m.kind = "movement"
  /\ movement' = IF IsNewMovement(movement.num, m.num) THEN Pending(m) ELSE movement
  /\ UNCHANGED <<num, lap, bomb, cancelled, dropped>>

UpdateLatestBombDrop(m) ==
  /\ Arrives(m)
  /\ m.kind = "bomb"
  /\ bomb' = IF IsNewBomb(bomb.num, m.num) THEN Pending(m) ELSE bomb
  /\ UNCHANGED <<num, lap, movement, cancelled, dropped>>

CancelLatestMove_LeavesPending(m) ==
  /\ Arrives(m)
  /\ m.kind = "cancel"
  /\ cancelled' = {m}
  /\ UNCHANGED <<num, lap, movement, bomb, dropped>>

CancelLatestMove(m) ==
  /\ Arrives(m)
  /\ m.kind = "cancel"
  /\ movement' = [movement EXCEPT !.is_pending = FALSE]
  /\ cancelled' = {m}
  /\ UNCHANGED <<num, lap, bomb, dropped>>

(* process_partial_updates carries out what is pending, whatever the field *)
(* says to it, and forgets it.                                             *)
CarryOut_KeepsBomb ==
  /\ movement.is_pending \/ bomb.is_pending
  /\ movement' = [movement EXCEPT !.is_pending = FALSE]
  /\ dropped' = IF bomb.is_pending THEN {bomb} ELSE dropped
  /\ UNCHANGED <<num, lap, network, bomb, cancelled, overtaken>>

CarryOut ==
  /\ movement.is_pending \/ bomb.is_pending
  /\ movement' = [movement EXCEPT !.is_pending = FALSE]
  /\ bomb' = [bomb EXCEPT !.is_pending = FALSE]
  /\ dropped' = IF bomb.is_pending THEN {bomb} ELSE dropped
  /\ UNCHANGED <<num, lap, network, cancelled, overtaken>>

Handle(m) == UpdateLatestMovement(m) \/ UpdateLatestBombDrop(m) \/ CancelLatestMove(m)

Next ==
  \/ \E kind \in Kinds : Send(kind)
  \/ \E m \in network : Lose(m) \/ Handle(m)
  \/ CarryOut

Spec == Init /\ [][Next]_vars

-----------------------------------------------------------------------------
TypeOK ==
  /\ num \in Nums /\ lap \in Laps
  /\ network \in SUBSET Messages
  /\ movement \in ActionBufs /\ bomb \in ActionBufs
  /\ cancelled \in SUBSET Messages
  /\ dropped \in SUBSET ActionBufs
  /\ overtaken \in BOOLEAN

(* A message that is accepted by this step.                                *)
Accepts(buf, new, m) == new # buf /\ new = Pending(m)

(* Fewer than OVERFLOW_DETECTION_BUFFER messages lost or spent on the other*)
(* kind of action do not make the server refuse the next one as old, not   *)
(* even around the end of the numbers; except that a bomb numbered 0 is    *)
(* refused.                                                                *)
FreshIsAccepted ==
  [][\A m \in network :
       /\ UpdateLatestMovement(m) /\ Distance(movement, m) \in 1..OVERFLOW_DETECTION_BUFFER
            => movement' = Pending(m)
       /\ UpdateLatestBombDrop(m) /\ Distance(bomb, m) \in 1..OVERFLOW_DETECTION_BUFFER
            => bomb' = Pending(m) \/ m.num = 0]_vars

(* An action that was overtaken is accepted after a later one only when    *)
(* the numbers wrapped around between the two, or when it is a movement    *)
(* numbered 0.                                                             *)
StaleOnlyAcrossWrap ==
  [][\A m \in network :
       /\ Accepts(movement, movement', m) /\ Before(m, movement)
            => m.lap < movement.lap \/ m.num = 0
       /\ Accepts(bomb, bomb', m) /\ Before(m, bomb)
            => m.lap < bomb.lap]_vars

(* However often the network repeats it, a bomb is dropped once, and bombs *)
(* are dropped in the order of the key presses, when nothing was overtaken *)
(* or the numbers have not wrapped around yet.                             *)
BombsOnceInOrder ==
  [][(~overtaken \/ lap = 0) /\ CarryOut =>
       \A b \in dropped, c \in dropped' : bomb.is_pending => Before(b, c)]_vars

(* A movement sent before a cancellation is not carried out after it, when *)
(* nothing was overtaken.                                                  *)
CancelHolds ==
  ~overtaken /\ movement.is_pending => \A m \in cancelled : Before(m, movement)

=============================================================================
