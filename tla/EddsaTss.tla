------------------------------- MODULE EddsaTss -------------------------------
(***************************************************************************)
(* Package eddsatss: key generation, signing and resharing over the        *)
(* broker.  Done and Err are written through sendOnce.  Module             *)
(* EddsaResharing has the resharing in finer steps.                        *)
(***************************************************************************)
EXTENDS Script

---------------------------------------------------------------------------
\* Key generation (keygen.go)

\* round1: the commitment to the polynomial.
KeygenRound1 == [Handler EXCEPT !.sends = {Bcast("round1", "others")}]

\* Mutant: the polynomial is opened at once.
KeygenRound2AtOnce ==
  [Handler EXCEPT !.after = {"round1"}, !.ctx = TRUE,
                  !.sends = {P2P("round2-1", "others"), Bcast("round2-2", "others")}]

\* round2: the commitments are stored; the share to each peer, and the
\* decommitment with a Schnorr proof to all.
KeygenRound2 ==
  [Handler EXCEPT !.after = {"round1"}, !.on = {<<"round1", "others">>}, !.ctx = TRUE,
                  !.sends = {P2P("round2-1", "others"), Bcast("round2-2", "others")}]

\* The two callbacks of round2, joined under a mutex; neither tests ctx.
KeygenOnShares ==
  [Handler EXCEPT !.after = {"round2"}, !.on = {<<"round2-1", "others">>}]

KeygenOnDecommitments ==
  [Handler EXCEPT !.after = {"round2"}, !.on = {<<"round2-2", "others">>}]

\* processRound3: decommitment, Schnorr proof and Feldman share of every peer;
\* the key is complete.
KeygenProcessRound3 ==
  [Handler EXCEPT !.after = {"onShares", "onDecommitments"}, !.inline = TRUE,
                  !.ctx = TRUE, !.verifies = {"round1", "round2-1", "round2-2"},
                  !.does = {"key", "done"}]

\* NewKeygen.
Keygen ==
  [Protocol EXCEPT
    !.handlers = [round1 |-> KeygenRound1, round2 |-> KeygenRound2,
                  onShares |-> KeygenOnShares, onDecommitments |-> KeygenOnDecommitments,
                  processRound3 |-> KeygenProcessRound3],
    !.reveals = {<<"round1", "others", "round2-2">>}]

---------------------------------------------------------------------------
\* Signing (signing.go)

\* round1: the commitment to the nonce point.
SigningRound1 == [Handler EXCEPT !.sends = {Bcast("round1", "others")}]

\* round2: the commitments are stored, the nonce point opened with its proof.
SigningRound2 ==
  [Handler EXCEPT !.after = {"round1"}, !.on = {<<"round1", "others">>}, !.ctx = TRUE,
                  !.sends = {Bcast("round2", "others")}]

\* round3: decommitment and Schnorr proof of every peer; the signature share.
SigningRound3 ==
  [Handler EXCEPT !.after = {"round2"}, !.on = {<<"round2", "others">>}, !.ctx = TRUE,
                  !.verifies = {"round1", "round2"}, !.sends = {Bcast("round3", "others")}]

\* finalize: the shares are added up and the signature is verified.
SigningFinalize ==
  [Handler EXCEPT !.after = {"round3"}, !.on = {<<"round3", "others">>}, !.ctx = TRUE,
                  !.uses = {"round3"}, !.gate = TRUE, !.does = {"done"}]

\* NewSigning.
Signing ==
  [Protocol EXCEPT
    !.handlers = [round1 |-> SigningRound1, round2 |-> SigningRound2,
                  round3 |-> SigningRound3, finalize |-> SigningFinalize],
    !.reveals = {<<"round1", "others", "round2">>, <<"round2", "others", "round3">>},
    !.sealed = {"round3"}]

---------------------------------------------------------------------------
\* Resharing (resharing.go)

\* round1Old: the commitment to the re-shared polynomial and the group key, to
\* every new member, itself included.
ResharingRound1Old ==
  [Handler EXCEPT !.role = "old", !.sends = {P2P("round1", "new")}]

\* round2New: all old members must name one group key; the ACK to the others.
ResharingRound2New ==
  [Handler EXCEPT !.role = "new", !.on = {<<"round1", "old">>}, !.ctx = TRUE,
                  !.screens = {"round1"}, !.sends = {Ack("round2", "otherOld")}]

\* round3Old, in a goroutine of its own when there is no other new member.
ResharingRound3Old ==
  [Handler EXCEPT !.role = "old", !.after = {"round1Old"}, !.on = {<<"round2", "otherNew">>},
                  !.solo = TRUE, !.ctx = TRUE,
                  !.sends = {P2P("round3-1", "new"), P2P("round3-2", "new")}]

\* The two callbacks of setupNewRound3Receiver; neither tests ctx.
ResharingOnShares ==
  [Handler EXCEPT !.role = "new", !.after = {"round2New"}, !.on = {<<"round3-1", "old">>}]

ResharingOnDecommitments ==
  [Handler EXCEPT !.role = "new", !.after = {"round2New"}, !.on = {<<"round3-2", "old">>}]

\* round4New, its checks: decommitment, Feldman share, V_0 = the group key.
ResharingRound4Verifies == {"round1", "round3-1", "round3-2"}

\* round4New as a whole: the key is built, then everybody else gets an ACK.
ResharingRound4New ==
  [Handler EXCEPT !.role = "new", !.after = {"onShares", "onDecommitments"}, !.inline = TRUE,
                  !.ctx = TRUE, !.verifies = ResharingRound4Verifies,
                  !.sends = {Ack("round4", "others")}, !.does = {"key"}]

\* The callback round4New connects at a party that is not an old member.
ResharingDeliver ==
  [Handler EXCEPT !.role = "newOnly", !.after = {"round4New"}, !.on = {<<"round4", "otherNew">>},
                  !.solo = TRUE, !.does = {"done"}]

\* round5Old: ctx is tested, then the share is erased.
ResharingRound5Old ==
  [Handler EXCEPT !.role = "old", !.after = {"round3Old"}, !.on = {<<"round4", "otherNew">>},
                  !.solo = TRUE, !.ctx = TRUE, !.does = {"erase", "done"}]

\* NewResharing.
Resharing ==
  [Protocol EXCEPT
    !.handlers = [round1Old |-> ResharingRound1Old, round2New |-> ResharingRound2New,
                  round3Old |-> ResharingRound3Old, onShares |-> ResharingOnShares,
                  onDecommitments |-> ResharingOnDecommitments,
                  round4New |-> ResharingRound4New, deliver |-> ResharingDeliver,
                  round5Old |-> ResharingRound5Old],
    !.reveals = {<<"round2", "otherNew", "round3-1">>, <<"round2", "otherNew", "round3-2">>}]
===============================================================================
