------------------------------- MODULE DklsTss --------------------------------
(***************************************************************************)
(* Package dklstss: refresh, resharing, presigning and the two signing     *)
(* protocols over the broker.  (Module DklsKeygen has the key generation   *)
(* in full detail.)  What must be the same for everybody is broadcast and  *)
(* then echoed: verifyEchoes compares what the parties were given.  Done   *)
(* and Err are written through sendOnce.                                   *)
(***************************************************************************)
EXTENDS Script

---------------------------------------------------------------------------
\* Refresh (refresh_party.go)

\* round1: the commitments to a polynomial with constant term 0 to all; share
\* and base-OT setup to each peer.
RefreshRound1 ==
  [Handler EXCEPT !.sends = {Fork("r1bc", "others"), P2P("r1uc", "others")}]

\* onR1Bcast, onR1Unicast: joined under a mutex; neither tests ctx.
RefreshOnR1Bcast ==
  [Handler EXCEPT !.after = {"round1"}, !.on = {<<"r1bc", "others">>}]

RefreshOnR1Unicast ==
  [Handler EXCEPT !.after = {"round1"}, !.on = {<<"r1uc", "others">>}]

\* startEchoPhase: a digest of every commitment vector received.
RefreshStartEchoPhase ==
  [Handler EXCEPT !.after = {"onR1Bcast", "onR1Unicast"}, !.inline = TRUE,
                  !.ctx = TRUE,
                  !.sends = {Echo("echo", "others")}]

\* Mutant: the echoes are collected and not compared.
RefreshOnEchoTrusting ==
  [Handler EXCEPT !.after = {"startEchoPhase"}, !.on = {<<"echo", "others">>}, !.ctx = TRUE]

\* onEcho: verifyEchoes.
RefreshOnEcho ==
  [Handler EXCEPT !.after = {"startEchoPhase"}, !.on = {<<"echo", "others">>}, !.ctx = TRUE,
                  !.verifies = {"echo"}, !.binds = {<<"echo", "r1bc">>}]

\* round2, called by onEcho: for one peer after the other commitments, share and
\* proof are checked and the base-OT answer is sent.
RefreshRound2 ==
  [Handler EXCEPT !.after = {"onEcho"}, !.inline = TRUE, !.ctx = TRUE,
                  !.verifies = {"r1bc", "r1uc"},
                  !.eager = {"r2"}, !.sends = {P2P("r2", "others")}]

\* finalize: the new share is compared with the new public shares, and the base
\* OTs end; of an answer only the encoding can be checked.  The old key is not
\* touched.
RefreshFinalize ==
  [Handler EXCEPT !.after = {"round2"}, !.on = {<<"r2", "others">>}, !.ctx = TRUE,
                  !.screens = {"r2"}, !.does = {"key", "done"}]

\* NewRefresh.
Refresh ==
  [Protocol EXCEPT
    !.handlers = [round1 |-> RefreshRound1, onR1Bcast |-> RefreshOnR1Bcast,
                  onR1Unicast |-> RefreshOnR1Unicast,
                  startEchoPhase |-> RefreshStartEchoPhase, onEcho |-> RefreshOnEcho,
                  round2 |-> RefreshRound2, finalize |-> RefreshFinalize],
    !.reveals = {<<"echo", "others", "r2">>, <<"r1bc", "others", "echo">>},
    !.agreed = {"r1bc"}, !.unproven = {"r2"}]

---------------------------------------------------------------------------
\* Resharing (resharing_party.go)

\* oldRound1: commitments to all new members, a share to each; an old member
\* that is not a new one is done.
ResharingOldRound1 ==
  [Handler EXCEPT !.role = "old", !.sends = {Fork("r1bc", "new"), P2P("r1uc", "new")},
                  !.does = {"leave"}]

\* onR1Bcast, onR1Unicast, connected by NewResharing before the old role starts.
ResharingOnR1Bcast ==
  [Handler EXCEPT !.role = "new", !.on = {<<"r1bc", "old">>}]

ResharingOnR1Unicast ==
  [Handler EXCEPT !.role = "new", !.on = {<<"r1uc", "old">>}]

\* startEchoPhase, among the new members.
ResharingStartEchoPhase ==
  [Handler EXCEPT !.role = "new", !.after = {"onR1Bcast", "onR1Unicast"}, !.inline = TRUE,
                  !.ctx = TRUE,
                  !.sends = {Echo("echo", "otherNew")}]

\* onEcho: verifyEchoes.
ResharingOnEcho ==
  [Handler EXCEPT !.role = "new", !.after = {"startEchoPhase"}, !.on = {<<"echo", "otherNew">>},
                  !.ctx = TRUE, !.verifies = {"echo"}, !.binds = {<<"echo", "r1bc">>}]

\* afterRound1: every share is verified against its dealer's commitments before
\* the base OTs among the new members are set up.
ResharingAfterRound1 ==
  [Handler EXCEPT !.role = "new", !.after = {"onEcho"}, !.inline = TRUE, !.ctx = TRUE,
                  !.verifies = {"r1bc", "r1uc"}, !.sends = {P2P("r2", "otherNew")}]

\* afterRound2: for one peer after the other the proof is checked and the
\* base-OT answer is sent.
ResharingAfterRound2 ==
  [Handler EXCEPT !.role = "new", !.after = {"afterRound1"}, !.on = {<<"r2", "otherNew">>},
                  !.ctx = TRUE, !.verifies = {"r2"}, !.eager = {"r3"},
                  !.sends = {P2P("r3", "otherNew")}]

\* finalize: the commitments must add up to the old public key, and the base OTs
\* end; of an answer only the encoding can be checked.
ResharingFinalize ==
  [Handler EXCEPT !.role = "new", !.after = {"afterRound2"}, !.on = {<<"r3", "otherNew">>},
                  !.ctx = TRUE, !.verifies = {"r1bc"}, !.screens = {"r3"},
                  !.does = {"key", "done"}]

\* NewResharing.
Resharing ==
  [Protocol EXCEPT
    !.handlers = [oldRound1 |-> ResharingOldRound1, onR1Bcast |-> ResharingOnR1Bcast,
                  onR1Unicast |-> ResharingOnR1Unicast,
                  startEchoPhase |-> ResharingStartEchoPhase, onEcho |-> ResharingOnEcho,
                  afterRound1 |-> ResharingAfterRound1, afterRound2 |-> ResharingAfterRound2,
                  finalize |-> ResharingFinalize],
    !.reveals = {<<"echo", "otherNew", "r2">>, <<"r1uc", "old", "r2">>},
    !.agreed = {"r1bc"}, !.unproven = {"r3"}]

---------------------------------------------------------------------------
\* Signing (signing_party.go)

\* round1: the nonce point K.
SigningRound1 == [Handler EXCEPT !.sends = {Fork("r1", "others")}]

\* round2KCollect: the points are decoded and added up to R; a digest of every
\* point received goes out.
SigningRound2KCollect ==
  [Handler EXCEPT !.after = {"round1"}, !.on = {<<"r1", "others">>}, !.ctx = TRUE,
                  !.uses = {"r1"}, !.sends = {Echo("r1echo", "others")}]

\* round2Echo: verifyEchoes, then the first message of the two multiplications
\* with each peer, under a session that mixes in all the points.
SigningRound2Echo ==
  [Handler EXCEPT !.after = {"round2KCollect"}, !.on = {<<"r1echo", "others">>}, !.ctx = TRUE,
                  !.verifies = {"r1echo"}, !.binds = {<<"r1echo", "r1">>},
                  !.sends = {P2P("r2", "others")}]

\* round3: for one peer after the other the OT extension is checked and answered.
SigningRound3 ==
  [Handler EXCEPT !.after = {"round2Echo"}, !.on = {<<"r2", "others">>}, !.ctx = TRUE,
                  !.uses = {"r2"}, !.eager = {"r3"}, !.sends = {P2P("r3", "others")}]

\* round4: the products are finished as they came; phi and s-hat are revealed.
SigningRound4 ==
  [Handler EXCEPT !.after = {"round3"}, !.on = {<<"r3", "others">>}, !.ctx = TRUE,
                  !.uses = {"r3"}, !.sends = {Fork("r4", "others")}]

\* round5Echo: a digest of every reveal received.
SigningRound5Echo ==
  [Handler EXCEPT !.after = {"round4"}, !.on = {<<"r4", "others">>}, !.ctx = TRUE,
                  !.sends = {Echo("r4echo", "others")}]

\* finalize: verifyEchoes, the sum of the reveals, the signature is verified.
SigningFinalize ==
  [Handler EXCEPT !.after = {"round5Echo"}, !.on = {<<"r4echo", "others">>}, !.ctx = TRUE,
                  !.verifies = {"r4echo"}, !.binds = {<<"r4echo", "r4">>}, !.uses = {"r4"},
                  !.gate = TRUE, !.does = {"done"}]

\* NewSigning.
Signing ==
  [Protocol EXCEPT
    !.handlers = [round1 |-> SigningRound1, round2KCollect |-> SigningRound2KCollect,
                  round2Echo |-> SigningRound2Echo, round3 |-> SigningRound3,
                  round4 |-> SigningRound4, round5Echo |-> SigningRound5Echo,
                  finalize |-> SigningFinalize],
    !.reveals = {<<"r1echo", "others", "r2">>, <<"r3", "others", "r4">>},
    !.agreed = {"r1", "r4"}]

---------------------------------------------------------------------------
\* Signing with the multiply-then-check step (signing_checked_party.go)

\* round1.
CheckedRound1 == [Handler EXCEPT !.sends = {Fork("r1", "others")}]

\* round2KCollect.
CheckedRound2KCollect ==
  [Handler EXCEPT !.after = {"round1"}, !.on = {<<"r1", "others">>}, !.ctx = TRUE,
                  !.uses = {"r1"}, !.sends = {Echo("r1echo", "others")}]

\* round2Echo: each multiplication goes out with its MAC twin.
CheckedRound2Echo ==
  [Handler EXCEPT !.after = {"round2KCollect"}, !.on = {<<"r1echo", "others">>}, !.ctx = TRUE,
                  !.verifies = {"r1echo"}, !.binds = {<<"r1echo", "r1">>},
                  !.sends = {P2P("r2", "others")}]

\* round3: for one peer after the other.
CheckedRound3 ==
  [Handler EXCEPT !.after = {"round2Echo"}, !.on = {<<"r2", "others">>}, !.ctx = TRUE,
                  !.uses = {"r2"}, !.eager = {"r3"}, !.sends = {P2P("r3", "others")}]

\* round4: both products of every peer must pass the check against their twins.
CheckedRound4 ==
  [Handler EXCEPT !.after = {"round3"}, !.on = {<<"r3", "others">>}, !.ctx = TRUE,
                  !.verifies = {"r3"}, !.sends = {Fork("r4", "others")}]

\* round5Echo.
CheckedRound5Echo ==
  [Handler EXCEPT !.after = {"round4"}, !.on = {<<"r4", "others">>}, !.ctx = TRUE,
                  !.sends = {Echo("r4echo", "others")}]

\* finalize.
CheckedFinalize ==
  [Handler EXCEPT !.after = {"round5Echo"}, !.on = {<<"r4echo", "others">>}, !.ctx = TRUE,
                  !.verifies = {"r4echo"}, !.binds = {<<"r4echo", "r4">>}, !.uses = {"r4"},
                  !.gate = TRUE, !.does = {"done"}]

\* NewCheckedSigning.
CheckedSigning ==
  [Protocol EXCEPT
    !.handlers = [round1 |-> CheckedRound1, round2KCollect |-> CheckedRound2KCollect,
                  round2Echo |-> CheckedRound2Echo, round3 |-> CheckedRound3,
                  round4 |-> CheckedRound4, round5Echo |-> CheckedRound5Echo,
                  finalize |-> CheckedFinalize],
    !.reveals = {<<"r1echo", "others", "r2">>, <<"r3", "others", "r4">>},
    !.agreed = {"r1", "r4"}]

---------------------------------------------------------------------------
\* Presigning (presign_party.go)

\* round1.
PresignRound1 == [Handler EXCEPT !.sends = {Fork("r1", "others")}]

\* round2KCollect.
PresignRound2KCollect ==
  [Handler EXCEPT !.after = {"round1"}, !.on = {<<"r1", "others">>}, !.ctx = TRUE,
                  !.uses = {"r1"}, !.sends = {Echo("r1echo", "others")}]

\* round2Echo.
PresignRound2Echo ==
  [Handler EXCEPT !.after = {"round2KCollect"}, !.on = {<<"r1echo", "others">>}, !.ctx = TRUE,
                  !.verifies = {"r1echo"}, !.binds = {<<"r1echo", "r1">>},
                  !.sends = {P2P("r2", "others")}]

\* round3: for one peer after the other.
PresignRound3 ==
  [Handler EXCEPT !.after = {"round2Echo"}, !.on = {<<"r2", "others">>}, !.ctx = TRUE,
                  !.uses = {"r2"}, !.eager = {"r3"}, !.sends = {P2P("r3", "others")}]

\* finalize: the shares are delivered; there is no signature to verify yet.
PresignFinalize ==
  [Handler EXCEPT !.after = {"round3"}, !.on = {<<"r3", "others">>}, !.ctx = TRUE,
                  !.uses = {"r3"}, !.does = {"done"}]

\* NewPresign.
Presign ==
  [Protocol EXCEPT
    !.handlers = [round1 |-> PresignRound1, round2KCollect |-> PresignRound2KCollect,
                  round2Echo |-> PresignRound2Echo, round3 |-> PresignRound3,
                  finalize |-> PresignFinalize],
    !.reveals = {<<"r1echo", "others", "r2">>}, !.agreed = {"r1"},
    !.deferred = TRUE]
===============================================================================
