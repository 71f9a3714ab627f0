----------------------------- MODULE MCBombList -----------------------------
(***************************************************************************)
(* Lists of bombs for TLC.  malloc may return any free node, and nodes     *)
(* differ in nothing, so they are a symmetry set.                          *)
(***************************************************************************)
EXTENDS BombList

CONSTANTS n1, n2, n3, n4, n5, n6, n7

SevenNodes == {n1, n2, n3, n4, n5, n6, n7}
AnyOrder == Permutations(SevenNodes)

=============================================================================
