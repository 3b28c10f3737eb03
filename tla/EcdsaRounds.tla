------------------------------ MODULE EcdsaRounds ------------------------------
(***************************************************************************)
(* Packages ecdsa/signing and ecdsa/resharing, driven by the round engine  *)
(* of package tss (module RoundEngine; EcdsaKeygen has the key generation  *)
(* in full detail).  A handler is the Start method of a round, and its     *)
(* collectors are CanAccept and Update of the round before: a round in     *)
(* which a party has nothing to do or to wait for is passed through, and   *)
(* a check made in Update is counted to the round it leads to.  There is   *)
(* no context, errors are returned, and what goes to all is one broadcast. *)
(***************************************************************************)
EXTENDS Script

---------------------------------------------------------------------------
\* Signing (ecdsa/signing)

\* round1: the encrypted nonce with one range proof per peer, and the commitment
\* to Gamma.
SigningRound1 ==
  [Handler EXCEPT !.sends = {P2P("round1-1", "others"), Bcast("round1-2", "others")}]

\* round2: the goroutines of BobMid and BobMidWC verify the range proofs; their
\* errors are gathered before anything is sent.
SigningRound2 ==
  [Handler EXCEPT !.after = {"round1"},
                  !.on = {<<"round1-1", "others">>, <<"round1-2", "others">>},
                  !.verifies = {"round1-1"}, !.sends = {P2P("round2", "others")}]

\* round3: AliceEnd and AliceEndWC; theta goes out.
SigningRound3 ==
  [Handler EXCEPT !.after = {"round2"}, !.on = {<<"round2", "others">>},
                  !.verifies = {"round2"}, !.sends = {Bcast("round3", "others")}]

\* round4: the thetas are added up and inverted as they came; Gamma is opened.
SigningRound4 ==
  [Handler EXCEPT !.after = {"round3"}, !.on = {<<"round3", "others">>},
                  !.uses = {"round3"}, !.sends = {Bcast("round4", "others")}]

\* round5: decommitment and Schnorr proof of every Gamma; this party commits to
\* V and A.
SigningRound5 ==
  [Handler EXCEPT !.after = {"round4"}, !.on = {<<"round4", "others">>},
                  !.verifies = {"round1-2", "round4"}, !.sends = {Bcast("round5", "others")}]

\* round6: V and A are opened.
SigningRound6 ==
  [Handler EXCEPT !.after = {"round5"}, !.on = {<<"round5", "others">>},
                  !.sends = {Bcast("round6", "others")}]

\* round7: decommitment, Schnorr and ZKV proofs; this party commits to U and T.
SigningRound7 ==
  [Handler EXCEPT !.after = {"round6"}, !.on = {<<"round6", "others">>},
                  !.verifies = {"round5", "round6"}, !.sends = {Bcast("round7", "others")}]

\* round8: U and T are opened.
SigningRound8 ==
  [Handler EXCEPT !.after = {"round7"}, !.on = {<<"round7", "others">>},
                  !.sends = {Bcast("round8", "others")}]

\* round9: decommitment of every U and T; unless their sums agree the party
\* keeps its signature share to itself.
SigningRound9 ==
  [Handler EXCEPT !.after = {"round8"}, !.on = {<<"round8", "others">>},
                  !.verifies = {"round7", "round8"}, !.gate = TRUE,
                  !.sends = {Bcast("round9", "others")}]

\* finalization: the shares are added up and the signature is verified.
SigningFinalization ==
  [Handler EXCEPT !.after = {"round9"}, !.on = {<<"round9", "others">>},
                  !.uses = {"round9"}, !.gate = TRUE, !.does = {"done"}]

\* NewLocalPartyWithKDD and StoreMessage.
Signing ==
  [Protocol EXCEPT
    !.handlers = [round1 |-> SigningRound1, round2 |-> SigningRound2,
                  round3 |-> SigningRound3, round4 |-> SigningRound4,
                  round5 |-> SigningRound5, round6 |-> SigningRound6,
                  round7 |-> SigningRound7, round8 |-> SigningRound8,
                  round9 |-> SigningRound9, finalization |-> SigningFinalization],
    !.reveals = {<<"round1-2", "others", "round4">>, <<"round5", "others", "round6">>,
                 <<"round7", "others", "round8">>, <<"round8", "others", "round9">>},
    !.sealed = {"round9"}]

---------------------------------------------------------------------------
\* Resharing (ecdsa/resharing) between two disjoint committees

\* round1, the old committee: commitment, public key and SSID.
ResharingRound1 ==
  [Handler EXCEPT !.role = "old", !.sends = {Bcast("round1", "new")}]

\* round2, the new committee: the old members must agree on the public key, which
\* Update of round1 compares, and on the SSID; then the ACK, and the Paillier
\* key with its proofs.
ResharingRound2 ==
  [Handler EXCEPT !.role = "new", !.on = {<<"round1", "old">>}, !.screens = {"round1"},
                  !.sends = {Ack("round2-2", "old"), Bcast("round2-1", "otherNew")}]

\* round3, the old committee: shares and decommitment.
ResharingRound3 ==
  [Handler EXCEPT !.role = "old", !.after = {"round1"}, !.on = {<<"round2-2", "new">>},
                  !.sends = {P2P("round3-1", "new"), Bcast("round3-2", "new")}]

\* round4, its checks of the new members: modulus and DLN proofs, sizes, no value
\* used twice; the goroutines' verdicts are gathered before the shares are looked at.
ResharingRound4Proofs == {"round2-1"}

\* round4, its checks of the old members: decommitment, Feldman share, V_0 = y.
ResharingRound4Shares == {"round1", "round3-1", "round3-2"}

\* round4, the new committee: the share goes into temp.newXi; then the factor
\* proofs, and the ACK to both committees.
ResharingRound4 ==
  [Handler EXCEPT !.role = "new", !.after = {"round2"},
                  !.on = {<<"round2-1", "otherNew">>, <<"round3-1", "old">>,
                          <<"round3-2", "old">>},
                  !.verifies = ResharingRound4Proofs \cup ResharingRound4Shares,
                  !.sends = {P2P("round4-1", "otherNew"), Ack("round4-2", "others")},
                  !.does = {"share"}]

\* round5 at a new member: the key is saved once the factor proofs are verified.
ResharingRound5New ==
  [Handler EXCEPT !.role = "new", !.after = {"round4"},
                  !.on = {<<"round4-1", "otherNew">>, <<"round4-2", "otherNew">>},
                  !.verifies = {"round4-1"}, !.does = {"key", "done"}]

\* round5 at an old member: Xi is set to zero.
ResharingRound5Old ==
  [Handler EXCEPT !.role = "oldOnly", !.after = {"round3"}, !.on = {<<"round4-2", "new">>},
                  !.does = {"erase", "done"}]

\* NewLocalParty and StoreMessage.
Resharing ==
  [Protocol EXCEPT
    !.handlers = [round1 |-> ResharingRound1, round2 |-> ResharingRound2,
                  round3 |-> ResharingRound3, round4 |-> ResharingRound4,
                  round5New |-> ResharingRound5New, round5Old |-> ResharingRound5Old],
    !.reveals = {<<"round2-2", "new", "round3-1">>, <<"round1", "old", "round2-1">>}]
===============================================================================
