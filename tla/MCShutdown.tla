----------------------------- MODULE MCShutdown ------------------------------
(***************************************************************************)
(* Two or three players, a few chat and action messages for TLC.           *)
(***************************************************************************)
EXTENDS Shutdown

Alternating == [p \in Players |-> p % 2]
Nobody == {}
FirstPlayer == {0}
FirstTwo == {0, 1}
AllSetOrClear == {0, 65535}

=============================================================================
