----------------------------- MODULE RoundBarrier -----------------------------
(***************************************************************************)
(* What a protocol in rounds relies on: a party enters a round only when   *)
(* everybody has entered the one before it.                                *)
(***************************************************************************)
EXTENDS Naturals

CONSTANTS Party,
          Last \* the number of the last round

VARIABLE round

Init == round = [p \in Party |-> 0]

Enter(p) ==
  /\ round[p] < Last
  /\ \A q \in Party : round[q] >= round[p]
  /\ round' = [round EXCEPT ![p] = @ + 1]

Next == \E p \in Party : Enter(p)

Spec == Init /\ [][Next]_round
=============================================================================
