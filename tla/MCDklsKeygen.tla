----------------------------- MODULE MCDklsKeygen -----------------------------
(* Instances of DklsKeygen for TLC: parties 1 to 3, 9 belongs to no party. *)
EXTENDS DklsKeygen

CONSTANTS v, w

\* Wrong echoes of party 3: another digest for 1, dealer 2 left out, an entry
\* on itself, an entry on a party that does not exist, too many entries.
MCLies ==
  {Digests(view) :
     view \in {[d \in {1, 2} |-> IF d = 1 THEN w ELSE v],
               [d \in {1} |-> v],
               [d \in {1, 2, 3} |-> v],
               [d \in {1, 2, 9} |-> v],
               [d \in {1, 2, 3, 9} |-> v]}}

\* Two of them, for runs in which party 3 also equivocates.
MCCoverUps ==
  {Digests(view) : view \in {[d \in {1, 2} |-> IF d = 1 THEN w ELSE v], [d \in {1} |-> v]}}
=============================================================================
