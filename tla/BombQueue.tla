----------------------------- MODULE BombQueue ------------------------------
(***************************************************************************)
(* What the list of bombs stands for: a queue.  Bombs are dropped at its   *)
(* end between the rounds; once a round, every bomb is counted down, from  *)
(* the oldest to the newest and each exactly once, and those that reach    *)
(* zero leave it.  This is how module Match sees the bombs; BombList       *)
(* implements it with linked nodes.                                        *)
(***************************************************************************)
EXTENDS Integers, Sequences, SequencesExt

CONSTANTS
  Players,
  Fuse      (* rounds from the drop of a bomb to its explosion             *)

VARIABLES
  bombs,    (* the queue, oldest first                                     *)
  cursor    (* 0 between the rounds, else the next bomb to count down      *)

vars == <<bombs, cursor>>

Init == bombs = <<>> /\ cursor = 0

Drop(p) ==
  /\ cursor = 0
  /\ bombs' = Append(bombs, [player |-> p, seconds |-> Fuse])
  /\ UNCHANGED cursor

Begin == cursor = 0 /\ cursor' = 1 /\ UNCHANGED bombs

CountDown ==
  /\ cursor \in DOMAIN bombs /\ bombs[cursor].seconds > 1
  /\ bombs' = [bombs EXCEPT ![cursor].seconds = @ - 1]
  /\ cursor' = cursor + 1

Explode ==
  /\ cursor \in DOMAIN bombs /\ bombs[cursor].seconds = 1
  /\ bombs' = RemoveAt(bombs, cursor)
  /\ UNCHANGED cursor

End == cursor = Len(bombs) + 1 /\ cursor' = 0 /\ UNCHANGED bombs

(* The match is over: the bombs that are left never explode.               *)
Clear == cursor = 0 /\ bombs' = <<>> /\ UNCHANGED cursor

Next == (\E p \in Players : Drop(p)) \/ Begin \/ CountDown \/ Explode \/ End \/ Clear

Spec == Init /\ [][Next]_vars

=============================================================================
