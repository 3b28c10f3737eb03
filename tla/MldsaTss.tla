------------------------------- MODULE MldsaTss -------------------------------
(***************************************************************************)
(* Package mldsatss: threshold ML-DSA-44 signing over the broker.  A run is*)
(* one attempt of K parallel tries; whether one of them survives rejection *)
(* sampling is the luck of the run.  Err is written without blocking, so a *)
(* second error is dropped.                                                *)
(***************************************************************************)
EXTENDS Script

\* round1: K commitments are computed and one hash over them all sent.
SigningRound1 == [Handler EXCEPT !.sends = {P2P("r1", "others")}]

\* onR1: the length of the hash is checked.
SigningOnR1 ==
  [Handler EXCEPT !.after = {"round1"}, !.on = {<<"r1", "others">>}, !.ctx = TRUE,
                  !.screens = {"r1"}]

\* round2, called by onR1: the commitments are opened.
SigningRound2 ==
  [Handler EXCEPT !.after = {"onR1"}, !.inline = TRUE, !.ctx = TRUE,
                  !.sends = {P2P("r2", "others")}]

\* onR2: length, canonical encoding and hash of what every peer opened.
SigningOnR2 ==
  [Handler EXCEPT !.after = {"round2"}, !.on = {<<"r2", "others">>}, !.ctx = TRUE,
                  !.verifies = {"r1", "r2"}]

\* round3, called by onR2: the share for this committee is put together, and the
\* responses computed; a try the party itself rejects is sent as zeros.
SigningRound3 ==
  [Handler EXCEPT !.after = {"onR2"}, !.inline = TRUE, !.ctx = TRUE,
                  !.sends = {P2P("r3", "others")}]

\* onR3: the length of every response is checked.
SigningOnR3 ==
  [Handler EXCEPT !.after = {"round3"}, !.on = {<<"r3", "others">>}, !.ctx = TRUE,
                  !.screens = {"r3"}]

\* validatePartyResponses: the norm of every party's response of every try.
SigningResponses == {"r3"}

\* combine, called by onR3: the first try whose sum passes the norm, the f and
\* the hint test is the signature; a response that is wrong and short enough to
\* pass validatePartyResponses makes every try fail the f test.
SigningCombine ==
  [Handler EXCEPT !.after = {"onR3"}, !.inline = TRUE, !.ctx = TRUE,
                  !.verifies = SigningResponses, !.chance = TRUE, !.does = {"done"}]

\* NewSigning44.
Signing ==
  [Protocol EXCEPT
    !.handlers = [round1 |-> SigningRound1, onR1 |-> SigningOnR1, round2 |-> SigningRound2,
                  onR2 |-> SigningOnR2, round3 |-> SigningRound3, onR3 |-> SigningOnR3,
                  combine |-> SigningCombine],
    !.reveals = {<<"r1", "others", "r2">>, <<"r2", "others", "r3">>}]
===============================================================================
