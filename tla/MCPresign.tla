------------------------------ MODULE MCPresign ------------------------------
(* Instances of Presign for TLC. *)
EXTENDS Presign, TLC

CONSTANTS h1, h2, h3, h4, r1, r2, r3

\* h1 and h2 are two copies of one presign, h3 is a per-party output, h4 a
\* presign made independently.
MCR == h1 :> r1 @@ h2 :> r1 @@ h3 :> r2 @@ h4 :> r3

\* Some callers sign with h4 through SignWithPresign.
MCEntry == [h \in {h1, h2, h3, h4} |-> IF h = h4 THEN {"durable", "memory"} ELSE {"durable"}]
=============================================================================
