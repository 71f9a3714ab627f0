------------------------------ MODULE Contest ------------------------------
(***************************************************************************)
(* What a match promises its players, whatever happens on the field:       *)
(* players die and never come back, and one result is announced at most    *)
(* once.  The announced side has no living opponent, "nobody" is announced *)
(* only when nobody lives, and when no two opponents are alive any more    *)
(* some result is announced eventually.                                    *)
(*                                                                         *)
(* Match implements this specification with the alive set read off         *)
(* player_status and the outcome off should_finish_match's result.         *)
(***************************************************************************)
CONSTANTS
  Contestants,
  SideOf,        (* the player himself, or his team                        *)
  Nobody,        (* ALL_PLAYERS_ARE_DEAD                                   *)
  NoOutcome      (* NO_WINNER_YET                                          *)

VARIABLES living, outcome

vars == <<living, outcome>>

Sides == {SideOf[p] : p \in Contestants}

Init ==
  /\ living \in (SUBSET Contestants) \ {{}}
  /\ outcome = NoOutcome

Die ==
  /\ \E casualties \in SUBSET living : living' = living \ casualties
  /\ UNCHANGED outcome

(* No opponent of this side is alive; vacuous for every side when nobody   *)
(* is: a winner may have died since he was seen alive.                     *)
Unopposed(side) == \A p \in living : SideOf[p] = side

Announce ==
  /\ outcome = NoOutcome
  /\ \/ living = {} /\ outcome' = Nobody
     \/ \E side \in Sides : Unopposed(side) /\ outcome' = side
  /\ UNCHANGED living

Next == Die \/ Announce

Spec == Init /\ [][Next]_vars

FairSpec == Spec /\ WF_vars(Announce)

=============================================================================
