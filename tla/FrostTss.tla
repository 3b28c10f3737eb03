------------------------------- MODULE FrostTss -------------------------------
(***************************************************************************)
(* Package frosttss: FROST over Ed25519, key generation, signing and       *)
(* resharing over the broker.  Done and Err are written through sendOnce.  *)
(***************************************************************************)
EXTENDS Script

---------------------------------------------------------------------------
\* Key generation (keygen.go)

\* round1: polynomial commitments, session nonce, ephemeral key, Schnorr proof.
KeygenRound1 == [Handler EXCEPT !.sends = {Bcast("round1", "others")}]

\* round2, its checks: count and encoding of the commitments, the identity, the
\* nonce, the ephemeral key and the Schnorr proof of every peer.
KeygenRound2Verifies == {"round1"}

\* round2 as a whole: all of round1 is checked before any share, sealed to the
\* peer's ephemeral key, is sent.
KeygenRound2 ==
  [Handler EXCEPT !.after = {"round1"}, !.on = {<<"round1", "others">>}, !.ctx = TRUE,
                  !.verifies = KeygenRound2Verifies, !.sends = {P2P("round2", "others")}]

\* finalize: every share is opened and verified against its commitments.
KeygenFinalize ==
  [Handler EXCEPT !.after = {"round2"}, !.on = {<<"round2", "others">>}, !.ctx = TRUE,
                  !.verifies = {"round2"}, !.does = {"key", "done"}]

\* NewKeygen.
Keygen ==
  [Protocol EXCEPT
    !.handlers = [round1 |-> KeygenRound1, round2 |-> KeygenRound2,
                  finalize |-> KeygenFinalize],
    !.reveals = {<<"round1", "others", "round2">>}]

---------------------------------------------------------------------------
\* Signing (signing.go)

\* round1: the hiding and the binding nonce commitment.
SigningRound1 == [Handler EXCEPT !.sends = {Bcast("round1", "others")}]

\* round2: the nonce commitments are decoded, and the share computed for all of
\* them; whether they are the right ones shows in the shares of their owners.
SigningRound2 ==
  [Handler EXCEPT !.after = {"round1"}, !.on = {<<"round1", "others">>}, !.ctx = TRUE,
                  !.screens = {"round1"}, !.sends = {Bcast("round2", "others")}]

\* finalize: each share is verified against its sender's nonce commitments and
\* verification share, then the whole signature once more.
SigningFinalize ==
  [Handler EXCEPT !.after = {"round2"}, !.on = {<<"round2", "others">>}, !.ctx = TRUE,
                  !.verifies = {"round1", "round2"}, !.gate = TRUE, !.does = {"done"}]

\* NewSigningWithTweak; NewSigning and DeriveAndSign end in it.
Signing ==
  [Protocol EXCEPT
    !.handlers = [round1 |-> SigningRound1, round2 |-> SigningRound2,
                  finalize |-> SigningFinalize],
    !.reveals = {<<"round1", "others", "round2">>}]

---------------------------------------------------------------------------
\* Resharing (resharing.go)

\* round1Old: the commitment to the re-shared polynomial, the group key and the
\* Schnorr proof of its constant term, to every new member.
ResharingRound1Old ==
  [Handler EXCEPT !.role = "old", !.sends = {P2P("round1", "new")}]

\* round2New: nonce, group key, proof and encoding of every old member are
\* checked, and all must name one group key; then the ACK to the other old
\* members.  That the commitment can be opened is seen in round4New.
ResharingRound2New ==
  [Handler EXCEPT !.role = "new", !.on = {<<"round1", "old">>}, !.ctx = TRUE,
                  !.screens = {"round1"}, !.sends = {Ack("round2", "otherOld")}]

\* round3Old, at once when there is no other new member: share and decommitment.
ResharingRound3Old ==
  [Handler EXCEPT !.role = "old", !.after = {"round1Old"}, !.on = {<<"round2", "otherNew">>},
                  !.solo = TRUE, !.ctx = TRUE,
                  !.sends = {P2P("round3-1", "new"), P2P("round3-2", "new")}]

\* The two callbacks of setupNewRound3Receiver; neither tests ctx.
ResharingOnShares ==
  [Handler EXCEPT !.role = "new", !.after = {"round2New"}, !.on = {<<"round3-1", "old">>}]

ResharingOnDecommitments ==
  [Handler EXCEPT !.role = "new", !.after = {"round2New"}, !.on = {<<"round3-2", "old">>}]

\* round4New, its checks: decommitment, the constant term that was proved in
\* round 1 against the one opened now, Feldman share, V_0 = the group key.
ResharingRound4Verifies == {"round1", "round3-1", "round3-2"}

\* round4New as a whole: the key is built, then everybody else gets an ACK.
ResharingRound4New ==
  [Handler EXCEPT !.role = "new", !.after = {"onShares", "onDecommitments"}, !.inline = TRUE,
                  !.ctx = TRUE,
                  !.verifies = ResharingRound4Verifies,
                  !.sends = {Ack("round4", "others")}, !.does = {"key"}]

\* Mutant: the callback is connected before the party has its own key.
ResharingDeliverEarly ==
  [Handler EXCEPT !.role = "newOnly", !.after = {"round2New"}, !.on = {<<"round4", "otherNew">>},
                  !.solo = TRUE, !.does = {"done"}]

\* The callback round4New connects at a party that is not an old member.
ResharingDeliver ==
  [Handler EXCEPT !.role = "newOnly", !.after = {"round4New"}, !.on = {<<"round4", "otherNew">>},
                  !.solo = TRUE, !.does = {"done"}]

\* Mutant: the share is erased before the acknowledgements are there.
ResharingRound5OldAtOnce ==
  [Handler EXCEPT !.role = "old", !.after = {"round3Old"}, !.ctx = TRUE,
                  !.does = {"scrub", "done"}]

\* round5Old: the share is erased first, then ctx is tested.
ResharingRound5Old ==
  [Handler EXCEPT !.role = "old", !.after = {"round3Old"}, !.on = {<<"round4", "otherNew">>},
                  !.solo = TRUE, !.ctx = TRUE, !.does = {"scrub", "done"}]

\* NewResharing.
Resharing ==
  [Protocol EXCEPT
    !.handlers = [round1Old |-> ResharingRound1Old, round2New |-> ResharingRound2New,
                  round3Old |-> ResharingRound3Old, onShares |-> ResharingOnShares,
                  onDecommitments |-> ResharingOnDecommitments,
                  round4New |-> ResharingRound4New, deliver |-> ResharingDeliver,
                  round5Old |-> ResharingRound5Old],
    !.reveals = {<<"round2", "otherNew", "round3-1">>, <<"round2", "otherNew", "round3-2">>}]
===============================================================================
