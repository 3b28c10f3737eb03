------------------------------ MODULE EddsaRounds ------------------------------
(***************************************************************************)
(* Packages eddsa/keygen, eddsa/signing and eddsa/resharing, driven by the *)
(* round engine of package tss.  As in EcdsaRounds a handler is the Start  *)
(* method of a round, and its collectors are CanAccept and Update of the   *)
(* round before.                                                           *)
(***************************************************************************)
EXTENDS Script

---------------------------------------------------------------------------
\* Key generation (eddsa/keygen)

\* round1: the commitment to the polynomial.
KeygenRound1 == [Handler EXCEPT !.sends = {Bcast("round1", "others")}]

\* round2: the share to each peer, the decommitment with a Schnorr proof to all.
KeygenRound2 ==
  [Handler EXCEPT !.after = {"round1"}, !.on = {<<"round1", "others">>},
                  !.sends = {P2P("round2-1", "others"), Bcast("round2-2", "others")}]

\* round3: one goroutine per peer verifies decommitment, Schnorr proof and
\* Feldman share; the verdicts are gathered before the key is put together.
KeygenRound3 ==
  [Handler EXCEPT !.after = {"round2"},
                  !.on = {<<"round2-1", "others">>, <<"round2-2", "others">>},
                  !.verifies = {"round1", "round2-1", "round2-2"}, !.does = {"key", "done"}]

\* NewLocalParty and StoreMessage.
Keygen ==
  [Protocol EXCEPT
    !.handlers = [round1 |-> KeygenRound1, round2 |-> KeygenRound2, round3 |-> KeygenRound3],
    !.reveals = {<<"round1", "others", "round2-2">>}]

---------------------------------------------------------------------------
\* Signing (eddsa/signing)

\* round1: the commitment to the nonce point.
SigningRound1 == [Handler EXCEPT !.sends = {Bcast("round1", "others")}]

\* round2: the nonce point is opened with its proof.
SigningRound2 ==
  [Handler EXCEPT !.after = {"round1"}, !.on = {<<"round1", "others">>},
                  !.sends = {Bcast("round2", "others")}]

\* round3: decommitment and Schnorr proof of every peer; the signature share.
SigningRound3 ==
  [Handler EXCEPT !.after = {"round2"}, !.on = {<<"round2", "others">>},
                  !.verifies = {"round1", "round2"}, !.sends = {Bcast("round3", "others")}]

\* finalization: the shares are added up and the signature is verified.
SigningFinalization ==
  [Handler EXCEPT !.after = {"round3"}, !.on = {<<"round3", "others">>},
                  !.uses = {"round3"}, !.gate = TRUE, !.does = {"done"}]

\* NewLocalParty and StoreMessage.
Signing ==
  [Protocol EXCEPT
    !.handlers = [round1 |-> SigningRound1, round2 |-> SigningRound2,
                  round3 |-> SigningRound3, finalization |-> SigningFinalization],
    !.reveals = {<<"round1", "others", "round2">>, <<"round2", "others", "round3">>},
    !.sealed = {"round3"}]

---------------------------------------------------------------------------
\* Resharing (eddsa/resharing) between two disjoint committees

\* round1, the old committee: commitment and public key.
ResharingRound1 ==
  [Handler EXCEPT !.role = "old", !.sends = {Bcast("round1", "new")}]

\* round2, the new committee: Update of round1 has compared the public keys; ACK.
ResharingRound2 ==
  [Handler EXCEPT !.role = "new", !.on = {<<"round1", "old">>}, !.screens = {"round1"},
                  !.sends = {Ack("round2", "old")}]

\* round3, the old committee: shares and decommitment.
ResharingRound3 ==
  [Handler EXCEPT !.role = "old", !.after = {"round1"}, !.on = {<<"round2", "new">>},
                  !.sends = {P2P("round3-1", "new"), Bcast("round3-2", "new")}]

\* round4, the new committee: decommitment, Feldman share, V_0 = the public key;
\* the ACK to both committees.
ResharingRound4 ==
  [Handler EXCEPT !.role = "new", !.after = {"round2"},
                  !.on = {<<"round3-1", "old">>, <<"round3-2", "old">>},
                  !.verifies = {"round1", "round3-1", "round3-2"},
                  !.sends = {Ack("round4", "others")}, !.does = {"share"}]

\* round5 at a new member: the key is saved, without another check.
ResharingRound5New ==
  [Handler EXCEPT !.role = "new", !.after = {"round4"}, !.on = {<<"round4", "otherNew">>},
                  !.does = {"key", "done"}]

\* round5 at an old member: Xi is set to zero.
ResharingRound5Old ==
  [Handler EXCEPT !.role = "oldOnly", !.after = {"round3"}, !.on = {<<"round4", "new">>},
                  !.does = {"erase", "done"}]

\* NewLocalParty and StoreMessage.
Resharing ==
  [Protocol EXCEPT
    !.handlers = [round1 |-> ResharingRound1, round2 |-> ResharingRound2,
                  round3 |-> ResharingRound3, round4 |-> ResharingRound4,
                  round5New |-> ResharingRound5New, round5Old |-> ResharingRound5Old],
    !.reveals = {<<"round2", "new", "round3-1">>, <<"round2", "new", "round3-2">>}]
===============================================================================
