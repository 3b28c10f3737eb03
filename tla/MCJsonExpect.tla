----------------------------- MODULE MCJsonExpect -----------------------------
(* Instances of JsonExpect for TLC. *)
EXTENDS JsonExpect

CONSTANTS p1, p2, stranger, d1, d2

MCFrom == <<p1, p2>>

\* Two versions of p1's packet, one of p2's, an unexpected sender, a message
\* that does not decode and one of another type.
MCMessage ==
  {[type |-> Type, from |-> p1, data |-> d1],
   [type |-> Type, from |-> p1, data |-> d2],
   [type |-> Type, from |-> p2, data |-> d1],
   [type |-> Type, from |-> stranger, data |-> d1],
   [type |-> Type, from |-> p2, data |-> Malformed],
   [type |-> "other", from |-> p2, data |-> d2]}

\* JSON null decodes to a nil pointer without an error.
MCNullMessage ==
  {[type |-> Type, from |-> p1, data |-> Nil],
   [type |-> Type, from |-> p1, data |-> d1],
   [type |-> Type, from |-> p2, data |-> d1]}
=============================================================================
