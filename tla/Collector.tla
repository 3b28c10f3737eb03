------------------------------ MODULE Collector ------------------------------
(***************************************************************************)
(* What tss.NewJsonExpect promises its callers: packets are collected, one *)
(* per expected party, and a callback is triggered once everything has     *)
(* been collected.  No threads, no lock and no counter: JsonExpect is      *)
(* shown to implement this specification.                                  *)
(***************************************************************************)
EXTENDS Sequences

CONSTANTS Slot,   \* one slot per expected party
          Packet, \* the packets a party may send
          Nil     \* an empty slot

VARIABLES collected, \* the packet of each slot, or Nil
          delivered  \* the slot arrays the callback was called with, in order

vars == <<collected, delivered>>

Init ==
  /\ collected = [n \in Slot |-> Nil]
  /\ delivered = << >>

\* The packet of one more party is collected; it is never replaced later.
Collect ==
  \E n \in Slot, d \in Packet :
    /\ collected[n] = Nil
    /\ collected' = [collected EXCEPT ![n] = d]
    /\ UNCHANGED delivered

\* The callback runs, once, with every packet.
Deliver ==
  /\ delivered = << >>
  /\ \A n \in Slot : collected[n] # Nil
  /\ delivered' = <<collected>>
  /\ UNCHANGED collected

Next == Collect \/ Deliver

Spec == Init /\ [][Next]_vars
=============================================================================
