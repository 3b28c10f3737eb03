----------------------------- MODULE OneTimeNonce -----------------------------
(***************************************************************************)
(* What a presignature is for: the nonce R is spent before it is used and  *)
(* a spent nonce yields at most one signature, ever.                       *)
(***************************************************************************)
EXTENDS Naturals

CONSTANT Nonce

VARIABLES spent, \* the nonces that may never be taken again
          sigs   \* the number of signatures made with each nonce

vars == <<spent, sigs>>

Init ==
  /\ spent = {}
  /\ sigs = [r \in Nonce |-> 0]

Spend(r) ==
  /\ r \notin spent
  /\ spent' = spent \cup {r}
  /\ UNCHANGED sigs

Sign(r) ==
  /\ r \in spent
  /\ sigs[r] = 0
  /\ sigs' = [sigs EXCEPT ![r] = 1]
  /\ UNCHANGED spent

Next == \E r \in Nonce : Spend(r) \/ Sign(r)

Spec == Init /\ [][Next]_vars
=============================================================================
