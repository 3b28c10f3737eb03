------------------------------- MODULE EcdsaTss -------------------------------
(***************************************************************************)
(* Package ecdsatss: key generation, signing and resharing over the broker *)
(* (GG18).  Every message of the package is sent to one party at a time,   *)
(* and Done and Err are written without a once-guard.                      *)
(***************************************************************************)
EXTENDS Script

---------------------------------------------------------------------------
\* Key generation (keygen.go)

\* round1: the commitment to the polynomial, the Paillier key, the ring-Pedersen
\* parameters and their DLN proofs, the same to everybody else.
KeygenRound1 == [Handler EXCEPT !.sends = {Fork("round1", "others")}]

\* round2: sizes, H1 # H2 and the DLN proofs of round1 are checked; then the
\* share with its factor proof, and the decommitment with the modulus proof.
KeygenRound2 ==
  [Handler EXCEPT !.after = {"round1"}, !.on = {<<"round1", "others">>}, !.ctx = TRUE,
                  !.screens = {"round1"},
                  !.sends = {P2P("round2-1", "others"), P2P("round2-2", "others")}]

\* onR2msg1, onR2msg2: the two collectors that share the counter r2pending.
KeygenOnR2msg1 ==
  [Handler EXCEPT !.after = {"round2"}, !.on = {<<"round2-1", "others">>}]

KeygenOnR2msg2 ==
  [Handler EXCEPT !.after = {"round2"}, !.on = {<<"round2-2", "others">>}]

\* Mutant: the share is not compared with the commitments.
KeygenRound3VerifiesNoShare == {"round1", "round2-2"}

\* processRound3, its checks: decommitment, modulus proof, Feldman share and
\* factor proof of every peer.
KeygenRound3Verifies == {"round1", "round2-1", "round2-2"}

\* Mutant: the counter lets the decommitments alone start the round.
KeygenProcessRound3Early ==
  [Handler EXCEPT !.after = {"onR2msg2"}, !.inline = TRUE, !.ctx = TRUE,
                  !.needs = {"onR2msg1"}, !.verifies = KeygenRound3Verifies,
                  !.sends = {P2P("round3", "others")}]

\* processRound3 as a whole, run by the callback that brings r2pending to 0: it
\* ends with the Paillier proof, which is bound to the joint public key.
KeygenProcessRound3 ==
  [Handler EXCEPT !.after = {"onR2msg1", "onR2msg2"}, !.inline = TRUE, !.ctx = TRUE,
                  !.verifies = KeygenRound3Verifies,
                  !.sends = {P2P("round3", "others")}]

\* Mutant: the collector of round 3 is connected before processRound3 has ended.
KeygenRound4Early ==
  [Handler EXCEPT !.after = {"round2"}, !.on = {<<"round3", "others">>}, !.ctx = TRUE,
                  !.verifies = {"round3"}, !.compares = {<<"round3", "round1">>},
                  !.does = {"key", "done"}]

\* round4: the peers' Paillier proofs are verified against this party's joint
\* public key.  A peer who was given another commitment is refused when its joint
\* key differs; the other coefficients and the ring-Pedersen parameters of round1
\* do not enter, and nothing else compares them.
KeygenRound4 ==
  [Handler EXCEPT !.after = {"processRound3"}, !.on = {<<"round3", "others">>}, !.ctx = TRUE,
                  !.verifies = {"round3"}, !.compares = {<<"round3", "round1">>},
                  !.does = {"key", "done"}]

\* NewKeygen.
Keygen ==
  [Protocol EXCEPT
    !.handlers = [round1 |-> KeygenRound1, round2 |-> KeygenRound2,
                  onR2msg1 |-> KeygenOnR2msg1, onR2msg2 |-> KeygenOnR2msg2,
                  processRound3 |-> KeygenProcessRound3, round4 |-> KeygenRound4],
    !.raw = TRUE,
    !.reveals = {<<"round1", "others", "round2-2">>}]

---------------------------------------------------------------------------
\* Signing (signing.go)

\* round1: the encrypted nonce with one range proof per peer, and the commitment
\* to Gamma.
SigningRound1 ==
  [Handler EXCEPT !.sends = {P2P("round1-1", "others"), P2P("round1-2", "others")}]

\* onR1msg1, onR1msg2: each tests ctx and writes Err by itself.
SigningOnR1msg1 ==
  [Handler EXCEPT !.after = {"round1"}, !.on = {<<"round1-1", "others">>}, !.ctx = TRUE]

SigningOnR1msg2 ==
  [Handler EXCEPT !.after = {"round1"}, !.on = {<<"round1-2", "others">>}, !.ctx = TRUE]

\* round2: BobMid and BobMidWC verify Alice's range proof and answer her.
SigningRound2 ==
  [Handler EXCEPT !.after = {"onR1msg1", "onR1msg2"}, !.inline = TRUE, !.ctx = TRUE,
                  !.verifies = {"round1-1"}, !.sends = {P2P("round2", "others")}]

\* round3: AliceEnd and AliceEndWC verify Bob's proofs; theta goes out.
SigningRound3 ==
  [Handler EXCEPT !.after = {"round2"}, !.on = {<<"round2", "others">>}, !.ctx = TRUE,
                  !.verifies = {"round2"}, !.sends = {P2P("round3", "others")}]

\* round4: the thetas are added up and inverted as they came; Gamma is opened.
SigningRound4 ==
  [Handler EXCEPT !.after = {"round3"}, !.on = {<<"round3", "others">>}, !.ctx = TRUE,
                  !.uses = {"round3"}, !.sends = {P2P("round4", "others")}]

\* round5: decommitment and Schnorr proof of every Gamma; R is computed, and
\* this party commits to V and A.
SigningRound5 ==
  [Handler EXCEPT !.after = {"round4"}, !.on = {<<"round4", "others">>}, !.ctx = TRUE,
                  !.verifies = {"round1-2", "round4"}, !.sends = {P2P("round5", "others")}]

\* round6: the commitments are stored, V and A opened.
SigningRound6 ==
  [Handler EXCEPT !.after = {"round5"}, !.on = {<<"round5", "others">>}, !.ctx = TRUE,
                  !.sends = {P2P("round6", "others")}]

\* round7: decommitment, Schnorr and ZKV proofs; this party commits to U and T.
SigningRound7 ==
  [Handler EXCEPT !.after = {"round6"}, !.on = {<<"round6", "others">>}, !.ctx = TRUE,
                  !.verifies = {"round5", "round6"}, !.sends = {P2P("round7", "others")}]

\* round8: the commitments are stored, U and T opened.
SigningRound8 ==
  [Handler EXCEPT !.after = {"round7"}, !.on = {<<"round7", "others">>}, !.ctx = TRUE,
                  !.sends = {P2P("round8", "others")}]

\* round9: decommitment of every U and T; unless their sums agree the party
\* keeps its signature share to itself.
SigningRound9 ==
  [Handler EXCEPT !.after = {"round8"}, !.on = {<<"round8", "others">>}, !.ctx = TRUE,
                  !.verifies = {"round7", "round8"}, !.gate = TRUE,
                  !.sends = {P2P("round9", "others")}]

\* finalize: the shares are added up and the signature is verified.
SigningFinalize ==
  [Handler EXCEPT !.after = {"round9"}, !.on = {<<"round9", "others">>}, !.ctx = TRUE,
                  !.uses = {"round9"}, !.gate = TRUE, !.does = {"done"}]

\* NewSigning, NewSigningWithKDD.
Signing ==
  [Protocol EXCEPT
    !.handlers = [round1 |-> SigningRound1, onR1msg1 |-> SigningOnR1msg1,
                  onR1msg2 |-> SigningOnR1msg2, round2 |-> SigningRound2,
                  round3 |-> SigningRound3, round4 |-> SigningRound4,
                  round5 |-> SigningRound5, round6 |-> SigningRound6,
                  round7 |-> SigningRound7, round8 |-> SigningRound8,
                  round9 |-> SigningRound9, finalize |-> SigningFinalize],
    !.raw = TRUE,
    !.reveals = {<<"round1-2", "others", "round4">>, <<"round5", "others", "round6">>,
                 <<"round7", "others", "round8">>, <<"round8", "others", "round9">>},
    !.sealed = {"round9"}]

---------------------------------------------------------------------------
\* Resharing (resharing.go)

\* round1Old: the commitment to the re-shared polynomial, the public key and the
\* SSID, to every new member, this party included when it is one.
ResharingRound1Old ==
  [Handler EXCEPT !.role = "old", !.sends = {P2P("round1", "new")}]

\* onR1New: the old members must agree on the SSID and on the public key; then
\* the Paillier key with its proofs to the other new members, and the ACK.
ResharingOnR1New ==
  [Handler EXCEPT !.role = "new", !.on = {<<"round1", "old">>}, !.ctx = TRUE,
                  !.screens = {"round1"},
                  !.sends = {P2P("round2-1", "otherNew"), Ack("round2-2", "old")}]

\* onR2msg1New, onR3msg1New, onR3msg2New: the three collectors that share the
\* counter newR4pending; each tests ctx and writes Err by itself.
ResharingOnR2msg1New ==
  [Handler EXCEPT !.role = "new", !.after = {"onR1New"}, !.on = {<<"round2-1", "otherNew">>},
                  !.ctx = TRUE]

ResharingOnR3msg1New ==
  [Handler EXCEPT !.role = "new", !.after = {"onR1New"}, !.on = {<<"round3-1", "old">>},
                  !.ctx = TRUE]

ResharingOnR3msg2New ==
  [Handler EXCEPT !.role = "new", !.after = {"onR1New"}, !.on = {<<"round3-2", "old">>},
                  !.ctx = TRUE]

\* onR2msg2Old: the ACK of every new member is in hand.
ResharingOnR2msg2Old ==
  [Handler EXCEPT !.role = "old", !.after = {"round1Old"}, !.on = {<<"round2-2", "new">>},
                  !.ctx = TRUE]

\* round3Old, called by onR2msg2Old: the shares and the decommitment.
ResharingRound3Old ==
  [Handler EXCEPT !.role = "old", !.after = {"onR2msg2Old"}, !.inline = TRUE, !.ctx = TRUE,
                  !.sends = {P2P("round3-1", "new"), P2P("round3-2", "new")}]

\* round4New, its checks of the new members' Paillier keys and ring-Pedersen
\* parameters: sizes, H1 # H2, no value used twice, modulus and DLN proofs.
ResharingRound4Proofs == {"round2-1"}

\* round4New, its checks of the old members: decommitment, Feldman share and
\* V_0 = the public key.
ResharingRound4Shares == {"round1", "round3-1", "round3-2"}

\* round4New, what it sends: the factor proof to the other new members, and the
\* ACK to both committees but itself.
ResharingRound4Sends == {P2P("round4-1", "otherNew"), Ack("round4-2", "others")}

\* round4New as a whole, run by the callback that brings newR4pending to 0.  The
\* share goes into newXi; the new key is not complete yet.
ResharingRound4New ==
  [Handler EXCEPT !.role = "new", !.after = {"onR2msg1New", "onR3msg1New", "onR3msg2New"},
                  !.inline = TRUE, !.ctx = TRUE,
                  !.verifies = ResharingRound4Proofs \cup ResharingRound4Shares,
                  !.sends = ResharingRound4Sends, !.does = {"share"}]

\* onR4msg1New, onR4msg2New: the two collectors that share newR5pending.
ResharingOnR4msg1New ==
  [Handler EXCEPT !.role = "new", !.after = {"round4New"}, !.on = {<<"round4-1", "otherNew">>},
                  !.ctx = TRUE]

ResharingOnR4msg2New ==
  [Handler EXCEPT !.role = "new", !.after = {"round4New"}, !.on = {<<"round4-2", "otherNew">>},
                  !.ctx = TRUE]

\* onR4msg2Old: Xi is set to zero and the old key sent on Done.
ResharingOnR4msg2Old ==
  [Handler EXCEPT !.role = "old", !.after = {"round3Old"}, !.on = {<<"round4-2", "new">>},
                  !.ctx = TRUE, !.does = {"erase", "done"}]

\* round5New: the new key is complete once the factor proofs are verified.  The
\* old members have the ACK of round 4 by then, and may have erased theirs.
ResharingRound5New ==
  [Handler EXCEPT !.role = "new", !.after = {"onR4msg1New", "onR4msg2New"}, !.inline = TRUE,
                  !.ctx = TRUE,
                  !.verifies = {"round4-1"}, !.does = {"key", "done"}]

\* NewResharing.
Resharing ==
  [Protocol EXCEPT
    !.handlers = [round1Old |-> ResharingRound1Old, onR1New |-> ResharingOnR1New,
                  onR2msg1New |-> ResharingOnR2msg1New, onR3msg1New |-> ResharingOnR3msg1New,
                  onR3msg2New |-> ResharingOnR3msg2New, onR2msg2Old |-> ResharingOnR2msg2Old,
                  round3Old |-> ResharingRound3Old,
                  round4New |-> ResharingRound4New, onR4msg1New |-> ResharingOnR4msg1New,
                  onR4msg2New |-> ResharingOnR4msg2New, onR4msg2Old |-> ResharingOnR4msg2Old,
                  round5New |-> ResharingRound5New],
    !.raw = TRUE,
    !.reveals = {<<"round2-2", "new", "round3-1">>, <<"round1", "old", "round2-1">>}]
===============================================================================
