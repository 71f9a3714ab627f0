------------------------------ MODULE BombList ------------------------------
(***************************************************************************)
(* The doubly linked list of bombs of a match: drop_bomb appends a node,   *)
(* explode_bombs walks the list, counts down and unlinks while it walks    *)
(* (server/match.c), and check_bomb_linked_list_consistency is asserted    *)
(* after each removal (server/server_utils.c).  Only the updater thread    *)
(* uses the list.                                                          *)
(*                                                                         *)
(* Which cell a bomb is on and whom it kills is module Match; here a bomb  *)
(* is its player, its counter and its links.  A node is an address that    *)
(* malloc may return.                                                      *)
(*                                                                         *)
(* A definition named X_Defect is X with a defect; Next does not use it.   *)
(***************************************************************************)
EXTENDS Integers, Sequences, FiniteSets, SequencesExt

CONSTANTS
  MaxPlayers,                    (* match->players_count                   *)
  Ticks,                         (* LONG_FREQ_MS / freq, passes per round  *)
  BOMB_TIME_TO_EXPLODE_SECONDS,
  Nodes,                         (* the addresses malloc returns           *)
  NULL

Players == 0..(MaxPlayers - 1)

ASSUME BombListAssumption ==
  /\ MaxPlayers \in Nat \ {0}
  /\ Ticks \in Nat \ {0}
  /\ BOMB_TIME_TO_EXPLODE_SECONDS \in 1..255
  /\ NULL \notin Nodes

VARIABLES
  bomb,         (* the contents of the nodes, struct Bomb                  *)
  allocated,    (* nodes between malloc and free                           *)
  bombs_head,
  bombs_tail,
  current,      (* current_bomb of explode_bombs, current of free_bombs    *)
  pc,           (* where the updater is                                    *)
  tick,         (* passes since the last round                             *)
  turn,         (* loop variable of process_partial_updates                *)
  order         (* history: the nodes of the list, oldest first            *)

list == <<bomb, allocated, bombs_head, bombs_tail, order>>
vars == <<list, current, pc, tick, turn>>

Blank == [player |-> 0, seconds_counter |-> 0, prev |-> NULL, next |-> NULL]

Init ==
  /\ bomb = [n \in Nodes |-> Blank]
  /\ allocated = {}
  /\ bombs_head = NULL /\ bombs_tail = NULL
  /\ current = NULL
  /\ pc = "pass" /\ tick = 0 /\ turn = 0
  /\ order = <<>>

-----------------------------------------------------------------------------
(* process_partial_updates comes to a player who has asked for no bomb, or *)
(* for one: drop_bomb appends it.                                          *)
NoBomb ==
  /\ pc = "pass" /\ turn \in Players
  /\ turn' = turn + 1
  /\ UNCHANGED <<list, current, pc, tick>>

Linked(n, prev) ==
  [m \in Nodes |->
     IF m = n THEN [player |-> turn, seconds_counter |-> BOMB_TIME_TO_EXPLODE_SECONDS,
                    prev |-> prev, next |-> NULL]
     ELSE IF m = prev THEN [bomb[m] EXCEPT !.next = n] ELSE bomb[m]]

DropBomb_AtHead(n) ==
  /\ pc = "pass" /\ turn \in Players
  /\ n \notin allocated
  /\ allocated' = allocated \cup {n}
  /\ bomb' = [m \in Nodes |->
                IF m = n THEN [player |-> turn, seconds_counter |-> BOMB_TIME_TO_EXPLODE_SECONDS,
                               prev |-> NULL, next |-> bombs_head]
                ELSE IF m = bombs_head THEN [bomb[m] EXCEPT !.prev = n] ELSE bomb[m]]
  /\ bombs_head' = n
  /\ bombs_tail' = IF bombs_head = NULL THEN n ELSE bombs_tail
  /\ order' = <<n>> \o order
  /\ turn' = turn + 1
  /\ UNCHANGED <<current, pc, tick>>

DropBomb(n) ==
  /\ pc = "pass" /\ turn \in Players
  /\ n \notin allocated
  /\ allocated' = allocated \cup {n}
  /\ bomb' = Linked(n, IF bombs_head = NULL THEN NULL ELSE bombs_tail)
  /\ bombs_head' = IF bombs_head = NULL THEN n ELSE bombs_head
  /\ bombs_tail' = n
  /\ order' = Append(order, n)
  /\ turn' = turn + 1
  /\ UNCHANGED <<current, pc, tick>>

(* The end of a pass; after the last of a round, should_finish_match says  *)
(* whether explode_bombs or finish_match follows.                          *)
EndPass ==
  /\ pc = "pass" /\ turn = MaxPlayers
  /\ turn' = 0
  /\ IF tick + 1 < Ticks
     THEN tick' = tick + 1 /\ UNCHANGED <<pc, current>>
     ELSE tick' = 0 /\ pc' \in {"walk", "clear"} /\ current' = bombs_head
  /\ UNCHANGED list

-----------------------------------------------------------------------------
Due_PostDecrement(n) == bomb[n].seconds_counter = 0

(* The decremented counter is zero.                                        *)
Due(n) == bomb[n].seconds_counter = 1

Counted(n) == [bomb EXCEPT ![n].seconds_counter = (@ - 1) % 256]

CountDown_Skips ==
  /\ pc = "walk" /\ current # NULL
  /\ ~Due(current)
  /\ bomb' = Counted(current)
  /\ current' = IF bomb[current].next = NULL THEN NULL ELSE bomb[bomb[current].next].next
  /\ UNCHANGED <<allocated, bombs_head, bombs_tail, order, pc, tick, turn>>

(* explode_bombs: a bomb that ticks on.                                    *)
CountDown ==
  /\ pc = "walk" /\ current # NULL
  /\ ~Due(current)
  /\ bomb' = Counted(current)
  /\ current' = bomb[current].next
  /\ UNCHANGED <<allocated, bombs_head, bombs_tail, order, pc, tick, turn>>

TailWithout_Stale(n) ==
  LET p == bomb[n].prev
      q == bomb[n].next
  IN IF p = NULL THEN bombs_tail ELSE IF q = NULL THEN p ELSE bombs_tail

(* bombs_tail once n is unlinked from the middle, the head (the only bomb, *)
(* or one of two, or of more) or the tail of the list.                     *)
TailWithout(n) ==
  LET p == bomb[n].prev
      q == bomb[n].next
  IN CASE p # NULL /\ q # NULL                        -> bombs_tail
       [] p # NULL /\ q = NULL                        -> p
       [] p = NULL /\ q = NULL                        -> NULL
       [] p = NULL /\ q # NULL /\ bomb[q].next = NULL -> q
       [] OTHER                                       -> bombs_tail

(* A bomb that explodes leaves the list, but still has its own links.      *)
Unlink ==
  /\ pc = "walk" /\ current # NULL
  /\ Due(current)
  /\ LET p == bomb[current].prev
         q == bomb[current].next
     IN /\ bomb' = [m \in Nodes |->
              IF m = current THEN Counted(m)[m]
              ELSE IF m = p THEN [bomb[m] EXCEPT !.next = q]
              ELSE IF m = q THEN [bomb[m] EXCEPT !.prev = p]
              ELSE bomb[m]]
        /\ bombs_head' = IF p = NULL THEN q ELSE bombs_head
        /\ bombs_tail' = TailWithout(current)
  /\ order' = RemoveAt(order, CHOOSE i \in DOMAIN order : order[i] = current)
  /\ pc' = "check"
  /\ UNCHANGED <<allocated, current, tick, turn>>

(* check_bomb_linked_list_consistency.  It walks from the head; the nodes  *)
(* it meets are those of the list, as LinksAgree shows.                    *)
check_bomb_linked_list_consistency ==
  /\ bombs_head = NULL <=> bombs_tail = NULL
  /\ \A n \in allocated \ {current} :
       /\ bomb[n].prev = NULL => n = bombs_head
       /\ bomb[n].next = NULL => n = bombs_tail
       /\ bomb[n].prev # NULL => bomb[bomb[n].prev].next = n
       /\ bomb[n].next # NULL => bomb[bomb[n].next].prev = n

Free(n) ==
  /\ allocated' = allocated \ {n}
  /\ bomb' = [bomb EXCEPT ![n] = Blank]

(* The assertion holds: the bomb is freed, and the walk goes on.           *)
FreeBomb ==
  /\ pc = "check"
  /\ check_bomb_linked_list_consistency
  /\ current' = bomb[current].next
  /\ Free(current)
  /\ pc' = "walk"
  /\ UNCHANGED <<bombs_head, bombs_tail, order, tick, turn>>

EndWalk ==
  /\ pc = "walk" /\ current = NULL
  /\ pc' = "pass"
  /\ UNCHANGED <<list, current, tick, turn>>

(* free_bombs, called by finish_match.                                     *)
FreeNext ==
  /\ pc = "clear" /\ current # NULL
  /\ current' = bomb[current].next
  /\ Free(current)
  /\ order' = Tail(order)
  /\ UNCHANGED <<bombs_head, bombs_tail, pc, tick, turn>>

Next ==
  \/ NoBomb \/ (\E n \in Nodes : DropBomb(n)) \/ EndPass
  \/ CountDown \/ Unlink \/ FreeBomb \/ EndWalk
  \/ FreeNext

Spec == Init /\ [][Next]_vars

-----------------------------------------------------------------------------
BombType ==
  [player : Players, seconds_counter : 0..255,
   prev : Nodes \cup {NULL}, next : Nodes \cup {NULL}]

TypeOK ==
  /\ bomb \in [Nodes -> BombType]
  /\ allocated \in SUBSET Nodes
  /\ bombs_head \in Nodes \cup {NULL} /\ bombs_tail \in Nodes \cup {NULL}
  /\ current \in Nodes \cup {NULL}
  /\ pc \in {"pass", "walk", "check", "clear"}
  /\ tick \in 0..(Ticks - 1) /\ turn \in 0..MaxPlayers
  /\ order \in Seq(Nodes)

(* The neighbours of the i-th bomb, NULL beyond the ends.                  *)
Nth(i) == IF i \in DOMAIN order THEN order[i] ELSE NULL

NodesOfList == {order[i] : i \in DOMAIN order}

(* The links are those of one list: the bombs that were dropped and have   *)
(* not exploded, oldest first, each once, between head and tail.           *)
LinksAgree ==
  /\ \A i, j \in DOMAIN order : order[i] = order[j] => i = j
  /\ \A i \in DOMAIN order : bomb[order[i]].next = Nth(i + 1)
  /\ pc # "clear" =>
       /\ bombs_head = Nth(1) /\ bombs_tail = Nth(Len(order))
       /\ \A i \in DOMAIN order : bomb[order[i]].prev = Nth(i - 1)

(* Exactly the bombs of the list, and the one that has just been unlinked, *)
(* are allocated: none leaks, and the walk meets no freed one.             *)
NothingDangles ==
  /\ allocated = NodesOfList \cup (IF pc = "check" THEN {current} ELSE {})
  /\ pc = "check" => current \in Nodes \ NodesOfList /\ bomb[current].next \in NodesOfList \cup {NULL}
  /\ pc = "walk" => current \in NodesOfList \cup {NULL}
  /\ pc = "clear" => current = Nth(1)

(* The list is whole whenever the code relies on it: its links agree, it   *)
(* holds no freed node, nothing leaks, and the assertion after a removal   *)
(* (server/match.c:702) holds.                                             *)
ListWhole ==
  /\ LinksAgree
  /\ NothingDangles
  /\ pc = "check" => check_bomb_linked_list_consistency

(* MAX_BOMBS_PER_PLAYER (server/context.h:22) says that the bombs a player *)
(* can have at a time are bounded by the passes they tick through; the     *)
(* real bound is one round lower.                                          *)
BombsBounded ==
  \A p \in Players :
    Cardinality({n \in allocated : bomb[n].player = p}) <= Ticks * BOMB_TIME_TO_EXPLODE_SECONDS

(* Bombs explode in the order they were dropped in: only the head is ever  *)
(* unlinked, so the cases of explode_bombs for the middle and the tail are *)
(* there for nothing.                                                      *)
OldestFirst == [][Unlink => current = bombs_head]_vars

(* explode_bombs counts every bomb down exactly once a round, whatever it  *)
(* unlinks on the way: the linked list implements the queue.               *)
Place(n) == IF n = NULL THEN Len(order) + 1 ELSE CHOOSE i \in DOMAIN order : order[i] = n

Queue == INSTANCE BombQueue WITH
  Fuse   <- BOMB_TIME_TO_EXPLODE_SECONDS,
  bombs  <- IF pc = "clear" THEN <<>>
            ELSE [i \in DOMAIN order |-> [player  |-> bomb[order[i]].player,
                                          seconds |-> bomb[order[i]].seconds_counter]],
  cursor <- CASE pc \in {"pass", "clear"} -> 0
              [] pc = "walk"              -> Place(current)
              [] pc = "check"             -> Place(bomb[current].next)

ImplementsQueue == Queue!Spec

=============================================================================
