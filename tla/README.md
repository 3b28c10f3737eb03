# tss-lib in TLA+

TLA+ models of the threshold-signature library in `src/`, the TLC
configurations that check them on small instances, and TLAPS proofs of their
main properties for instances of any size.

The models keep the control of the code: every callback, guard, early return,
error path, counter, lock and channel, in the order of the code. They reduce
its data to what the properties tell apart. Cryptography becomes a verdict: a
message verifies or it does not, and only the parties that a configuration
declares faulty send messages that do not.

## 1. The system

`tss-lib` implements threshold key generation, signing and resharing for
ECDSA, EdDSA, FROST and ML-DSA. It has two generations of protocol engines.

**Broker-driven parties** (`ecdsatss`, `eddsatss`, `frosttss`,
`frostristretto255tss`, `dklstss/*_party.go`, `mldsatss`). A constructor runs
the first round and returns. A party hands messages to the application's
`MessageBroker` and connects a collector (`tss.NewJsonExpect`) for the type it
waits for. When the collector has a packet of every expected party it runs the
callback that is the next round. The result goes out once on `Done` or on
`Err`. A context can cancel a party at the beginning of every callback.

**Legacy parties** (`ecdsa/*`, `eddsa/*`) on `tss/party.go`. The application
calls `Start` once and `Update` for every message. `Update` stores the message
under the party's mutex. When the round has heard from everybody it starts the
next round, releases the mutex and calls itself again. Messages leave on the
channel `out` and the result on `end`.

Below both lie secret sharing, commitments, zero-knowledge proofs, Paillier
encryption, oblivious transfer and curve arithmetic in `crypto/` and `common/`.

### Inventory

| Part | Code | Modules | State |
|---|---|---|---|
| message collector | `tss/json.go` | `Collector`, `JsonExpect` | checked, proved |
| broker, context, channels | `tss/broker.go`, `*/once_send.go` | `PartyRuntime` | used by the protocols |
| EdDSA resharing | `eddsatss/resharing.go` | `EddsaResharing`, `EddsaResharingScript` | checked, proved |
| presignatures, online phase | `dklstss/presign.go` | `OneTimeNonce`, `Presign` | checked, proved |
| echo broadcast | `dklstss/echo.go` | `EchoBroadcast` | checked, proved |
| DKLS key generation | `dklstss/keygen_party.go` | `DklsKeygen` | checked, proved |
| legacy engine | `tss/party.go` | `RoundEngine`, `RoundBarrier` | checked, proved |
| legacy ECDSA key generation | `ecdsa/keygen` | `EcdsaKeygen` | checked, proved |
| ECDSA key generation, signing, resharing | `ecdsatss` | `EcdsaTss` | checked, proved |
| EdDSA key generation, signing, resharing | `eddsatss` | `EddsaTss` | checked, proved |
| FROST on Ed25519, three protocols | `frosttss` | `FrostTss` | checked, proved |
| FROST on ristretto255, three protocols | `frostristretto255tss` | `RistrettoTss` | checked, proved |
| DKLS refresh, resharing, signing, checked signing, presigning | `dklstss/*_party.go` | `DklsTss` | checked, proved |
| ML-DSA signing | `mldsatss` | `MldsaTss` | checked, proved |
| legacy ECDSA signing and resharing | `ecdsa/signing`, `ecdsa/resharing` | `EcdsaRounds` | checked, proved |
| legacy EdDSA, three protocols | `eddsa/*` | `EddsaRounds` | checked, proved |
| arithmetic, data, generated code | see `PROJECT.json` | | section 5 |

`PROJECT.json` lists every component, every definition with the lines it
models, and the hazards of the code with the properties that would catch them.

## 2. The modules

### `Collector`, `JsonExpect`
`Collector` is what the protocols rely on: packets are collected one by one
and, when all are there, delivered once. `JsonExpect` is the code. Goroutines
of the broker call `Receive`; a call is split into taking the lock, the error
returns (`Refuse`), the lookup (`Find`), the store and countdown (`Fill`) and
the callback, which runs under the lock. `packet`, `missing` and `lock` are
the fields of `jsonExpect`. The refinement mapping hides the goroutines, the
lock and the counter.

### `PartyRuntime`
State and operators shared by the broker-driven protocols. `net` holds what
was handed to the broker. A message never leaves `net`, so it may be delivered
late, in any order or more than once (the second delivery is refused).
`want[p]` is the set of slots of the collectors that `p` has connected, `got[p]`
the messages in them, `ran[p]` the callbacks that have started. Connecting a
collector for a type replaces the earlier one. `done` and `failed` record the
sends through `sendOnce`. `Collected` is the completion test; a collector for
nobody never completes, as in the code. That a collector behaves like this is
what `JsonExpect` shows. The broker is the application's: it is assumed to keep
messages of a type that is not connected yet. The test broker of the
repository instead returns an error for them.

A callback is one action. The code looks at the context again when one
callback calls the next round within it; the models look once per callback.

### `EddsaResharing`
One action per callback of `eddsatss/resharing.go`. A party of both committees
(a dual party) runs both sides. The callbacks of `round3-1` and `round3-2`
publish their slices and count in separate steps (`StoreRound3`,
`CountRound3`), and the one that counts to 2 continues as `Round4New`.
`AcksIn` is the special case for an empty list of other new parties.
`erased` stands for `Xi.SetInt64(0)`, `joiner` for the callback on whose
goroutine `round4New` runs.

### `EddsaResharingScript`
The same functions are also a script (`EddsaTss!Resharing`, see below), in which
a handler is one step and a message has no collector to wait in. This module
maps the fine steps to the script: `Mailed` is `net` with contents reduced to
their standing, `Ran` and `Failed` read off the state which handlers have ended,
and how. A callback that joins ends with what `round4New` says, so its handler
counts as run only when the key is built. `ImplementsScript` says that every
step of `EddsaResharing` is a step of the script or changes nothing in it. It
ties the two levels at which the library is modelled: what the scripts leave
out (slots, callbacks in two halves, the once-guards) adds no behaviour to what
they keep. A faulty party that fails has stopped, which the script allows. A
pure new party without peers delivers within `round4New`, where the script has
a handler of its own that is then still to come.

### `OneTimeNonce`, `Presign`
Concurrent callers of `SignWithPresign` and `SignWithPresignDurable`, split at
the store and at the compare-and-swap. The store may fail, with or without
having recorded. A crash clears the flags and the running calls and keeps the
store; afterwards a presign may be back with its flag clear, and two handles
may hold one nonce. Each entry point makes its own list of tests (`FitForStore`,
`FitForFlag`), and a durable call goes through both, the second after its nonce
is recorded: `MisuseBurnsNothing` says that neither a record nor a flag is ever
spent on a call without a whole presignature or without a message. `OneTimeNonce`
says what is promised: a nonce is spent, and then signs at most once.

### `EchoBroadcast`, `DklsKeygen`
`EchoBroadcast` translates `verifyEchoes`: which echoes are refused, and whom
the error names. Echoes are looked at in the order of the parties, the entries
of one echo in any order (a Go map), so `EchoCulprits` is a set. Party numbers
are that order. `DklsKeygen` is the protocol around it: the two halves of round
1 that join, the echo phase, round 2 that answers the dealers one by one and
stops at the first bad one, and the end. Parties in `Equivocator` send
anything, to each recipient differently; parties in `Liar` send wrong echoes.
A key is identified with the commitments it is computed from.

### `RoundEngine`, `EcdsaKeygen`, `RoundBarrier`
An action is one critical section of the party's mutex. `calls` holds the
`Update` calls that have released the mutex to call themselves again, which is
where other goroutines and replays get in (`Threads`, `Replays`).
`EcdsaKeygen` gives the four rounds of `ecdsa/keygen`. A `Start` that fails
leaves the party in its new round. `RoundBarrier` is the promise of an engine
in rounds: nobody enters a round before everybody has entered the one before.
The channels `out` and `end` always accept.

### `Script`, `RoundScript`, `ScriptRules` and the package modules
The other protocols have 3 to 10 rounds each and differ in what a round waits
for, checks and sends, not in how a round comes about. They are written down as
scripts. `Script` is the vocabulary. A script has one handler per round
function or callback of the code, and a definition of a package module is one
such function: who runs it, after which others, which collectors it waits for,
whether it starts with the test of the context, what it checks, what it sends
to whom, and whether it stores the key, erases the share or sends the result.
The handler of a join (two callbacks and a counter) is `inline`: the last of
the handlers it comes after calls it before it returns.

`RoundScript` gives the scripts their meaning. An honest party runs a handler to
the end (`Handle`) or to an error (`Fail`); a context is cancelled (`Cancel`); a
faulty party takes the step of a handler and chooses what to send (`Deviate`).
It can put wrong content into a message, different contents for different
receivers where the code sends them one by one, or two contents that are both
right (`Fork`). It follows the order of the protocol or stops. Of a content
only its standing is kept: `ok`, `alt` (right, but others were given something
else), `bad`, or `off`: computed in good faith from something wrong.

The four kinds of checks are told apart by what they promise:

| Field | Code | In the model |
|---|---|---|
| `verifies` | a proof, a commitment, a share against its polynomial | `bad` must fail, `off` may |
| `screens` | a length, a range, a point on the curve | may fail, and does not vouch for the content |
| `uses` | nothing; the content enters the computation | what is computed becomes `off` |
| `gate` | the result is tested before it is used | fails exactly when something wrong went in |

`binds` is an echo: a party that was given other broadcasts than its peers must
fail. `compares` is weaker. Round 4 of `ecdsatss` key generation checks a proof
that is bound to the joint public key, the sender's key and its modulus; dealers
whose messages differ in anything else are not found out, so the handler may
fail or not. `Agreement` is therefore stated of the protocols with an echo phase
only, and for the others rests on the reliable broadcast that the library's
README asks of the transport.

A new member of a resharing has its `share` when it has verified it, and its
`key` when it has built and delivered it. In `ecdsatss` and in legacy ECDSA the
acknowledgement on which old members erase theirs is sent between the two: round
5 still tests the context and the factor proofs. `HandedOver` says what is left
in that window: an honest new member can lose its share to its own context or to
a faulty new member, never to an old member or to the order of messages. Legacy
EdDSA saves the key in round 5 too, but checks nothing there. In the other
packages the complete key is in the party's `round5NewKey` before the
acknowledgement goes out, and a party of the new committee only delivers it
without another test; a dual party tests its context once more (`round5Old`).

`needs` is what another role of the same party should already have stored.
Failures of negligible probability (a random scalar that is zero) are left out,
and so are impossible failures of library calls. A check that a legacy party
makes in `Update` counts to the round that the message leads to. The engine
under the legacy rounds is what `EcdsaKeygen` shows.

`ScriptRules` holds the rules that the theorems need. They speak of the text of
a script only: a collector waits for everybody who sends what it collects; what
is revealed comes after what protects it; before the last handler everything is
verified, or tested; no handlers wait for each other in a circle; and so on.
Whom a group names depends on who is in which committee and on nothing else, so
a rule quantifies over classes of parties (old only, new only, dual) instead of
parties. The classes that occur in a setup are its `Cast`. A rule that TLC has
evaluated for a protocol and a cast therefore holds for committees of every
size, and there are only a few casts. TLC evaluates the rules in the run
`scripts_live`, for the setups of that run and of `scripts`, and in
`MCScriptRules` for every protocol with the casts of section 3.

## 3. The runs

Bounds are chosen so that the case each property is about happens; every
property is violated by at least one mutant of the code.

| Run | Instance | Shows |
|---|---|---|
| `collector` | 2 slots, 2 goroutines, any subset of 6 messages | callback once, with everything; first packet wins; implements `Collector`; completes whatever else arrives |
| `collector_null` | null packets | **violated**: a JSON null is counted as a packet |
| `eddsa_resharing` | 2 old, 2 new, 1 faulty dealer, cancellations | commitments before shares, hand-over before erasure, collective success, one outcome, delivery after erasure; implements its script; everybody finishes unless somebody fails |
| `eddsa_resharing_dual` | a dual party | **violated**: the dual party may be told nil |
| `presign` | 2 callers of both entry points, copies of a presign, crashes, failing store | a nonce signs once; misuse burns nothing; implements `OneTimeNonce`; what is recorded signs |
| `dkls_keygen` | 3 parties, one equivocates and lies | echoes bind views; keys agree; shares verified |
| `dkls_keygen_echo` | 5 kinds of malformed echoes, a cancellation | accepted echoes are complete; everybody gets a key unless somebody fails |
| `dkls_keygen_liar` | a liar | **violated**: an honest dealer is named |
| `ecdsa_keygen` | 2 parties, 1 faulty or too slow, concurrent calls, replays | the barrier; failure is final; a key means nobody failed and is delivered once, fully checked; everybody delivers one unless a round fails |
| `scripts` | 23 protocols; 3 parties, or committees of 2 and 2; nobody or one party faulty; one cancellation | errors have causes; results are sound, and agreed where there is an echo; nothing is revealed too early; what is erased has been handed over; one outcome; no blocked send; nobody is stuck |
| `scripts_live` | the same, nobody faulty; committees of 2 to 4, single new members, overlaps | everybody finishes; the rules of `ScriptRules` hold |
| `ristretto_dual` | a dual party of a ristretto255 resharing | **violated**: it may fail although nobody did anything wrong |

Two or three parties are enough for the broker-driven protocols because a
callback looks at all peers in the same way: one peer is honest, one is not,
and one is somebody else to disagree with. The proofs remove the bound for
safety. `ecdsa_keygen` has two parties so that concurrent calls, replays, a
faulty party and a timeout fit into one run with its liveness; that a barrier of
more parties holds is `BarrierRefinement`.

Not every setup makes sense for every protocol. Resharing on the legacy engine
and in `ecdsatss` runs with disjoint committees only: a dual legacy party plays
both roles in lock step on one engine, and a dual `ecdsatss` party connects two
collectors for one type, neither of which a script expresses. A dual party of
ristretto255 resharing has the race that `ristretto_dual` shows. In `eddsatss`
and `frosttss` resharing a dual party is in the run without faults only; what
can happen to it is the subject of `eddsa_resharing_dual`. `dklstss` resharing
has dual parties in both runs.

Deadlock checking is off where the system really stops: when all parties are
done, or wait for a party that has failed and tells nobody.

### Fairness
Liveness assumes that every party is started, that the broker delivers each
message once, and that Go runs goroutines that can run. The README of the
library leaves "timeouts and errors" to the application, so nothing is assumed
about cancellation. `ErasureLeadsToDelivery` needs no assumption on
cancellation because the last callback of a new party does not look at the
context. It is stated for disjoint committees: with a dual party whose context
is cancelled between its round 4 and its last callback it does not hold.
`EverybodyFinishes` of the scripts is about the behaviours in which nobody is
faulty, no context is done and the rejection sampling of ML-DSA has luck.

### Disagreements with comments in the code
* `collector_null`: `json.go:71-72` promises the callback once everything has
  been collected; a null packet leaves its slot empty and is counted.
* `eddsa_resharing_dual`: `resharing.go:494-495` says that `round5Old` "will
  deliver newKey". If the acknowledgements of the others come first it sends
  nil, and the once-guard drops the key.
* `dkls_keygen_liar`: `echo.go:45-47` and `doc.go:32-34` say that a mismatch
  identifies the equivocating dealer. The code cannot tell a dealer that
  equivocates from an echoer that is wrong, and names the dealer.
* `ristretto_dual`: `resharing.go:362-365` seeds the party's own ephemeral key
  in `round2New` so that `round3Old` finds it. The two run from different
  collectors, and if the messages of the other new members are complete first,
  `round3Old` ends with "missing new-party EphPub".

The liveness properties of the form "unless somebody fails" are checked in the
runs with faults and cancellations; the behaviours in which nobody fails are
the ones they are about.

## 4. The proofs

All theorems hold for every value of the constants that satisfies the named
assumptions of the modules.

**`JsonExpectProofs`** (assuming that no message decodes to nil):
`TypeCorrect`, `CallbackCorrect`, `CounterCorrect`, `FirstPacketKept`,
`CollectorImplemented`.
The invariant says who holds the lock and where: only the holder is past
`Lock`, a found slot is empty and belongs to the sender, and `missing` is the
number of empty slots except that it is 0 exactly when a callback is due or has
run. Without the part about the lock, two goroutines could fill one slot.

**`EddsaResharingProofs`**: `TypeCorrect`, `KeyNeverLost`,
`CommitBeforeReveal`, `CollectiveSuccess`, for all committees (disjoint,
overlapping, equal), faulty dealers and cancellations. The properties are not
inductive because they follow from messages: the invariant adds that an
acknowledgement in `net` or in a slot was sent by a party that has what it
acknowledges (`NetInv`), which senders every collector waits for (`WantInv`),
that a stored slice is complete (`StoredInv`), and that a key was built from
the shares of the whole old committee (`KeyInv`). `JoinSound` (the callback that
joins finds both slices, whichever it is) and `ExclusiveOutcome` need to know
how far a party has come when it fails: `Progress` says which callbacks are
behind a party of each committee, so that an error excludes the steps that
would send a result.

**`EddsaResharingScriptProofs`**: `ScriptImplemented`, the refinement of section
2, for all committees, faulty dealers and cancellations. There is one lemma per
action: the step is the script's `Handle`, `Fail`, `Deviate` or `Cancel` of the
handler that ends with it, or it leaves the mapped state alone. Most steps do:
deliveries, the first half of a round 3 callback, and the count that does not
join. To show that a handler of the script is ready, its messages must be in
`net` where the code has them in slots; that it checks the same contents needs
that nobody deals twice (`MailInv`), that a party collected round 1 from the
whole old committee and accepted what all of them sent (`OfferInv`), and that
contents have a standing (`ContentInv`); `CallInv` says that a handler that has
ended ran once. These invariants are about the code's variables alone and are
proved with the others in `EddsaResharingProofs` (`RefInvariance`). `RunStep` and `FailedStep` turn a change of the code's variables
into the one handler that the mapping adds.

**`PresignProofs`**: `TypeCorrect`, `NoNonceSignsTwice`, `MisuseIsHarmless`,
`DurableRefinement`, for any number of callers, copies and crashes. A nonce that
only durable calls use signs once whatever happens; one that is used from memory
does so as long as it has one copy and the process lives. The invariant has a
part for each: the store knows the nonce before anybody may sign with it and
lets one caller through (`ActiveInv`, `SigsInv`); the flag does the same until a
crash (`FlagInv`). `BurnInv` says that a call under way has passed the tests of
its own entry point; with the guards of the two steps that spend something it
gives `MisuseBurnsNothing`, a property of steps.

**`DklsKeygenProofs`**: `KeygenTypes`, `EchoAgreement`, `KeyAgreement`,
`SharesVerified`, for any parties, equivocators, liars and wrong echoes. The
invariant says that an honest party's messages carry what it holds (`NetInv`),
what each collector waits for (`WantInv`), that stored halves of round 1 are
what was received (`StoreInv`), that a party that passed has an echo of
everybody equal to its own view (`PassedInv`), and that a key needs an answer
of every honest party, which is sent only after passing (`DoneInv`). The lemma
`EchoesBind` turns equal digests into equal views. `CompleteEchoes` adds that a
collector keeps one message of each sender (`FirstInv`), so that the echoes a
party accepted are the ones it still holds, one of every other party and each
with an entry for every dealer (`HeardInv`). `Attribution` says that the party
an error names is faulty as long as nobody lies about what it received
(`Liar = {}`): that is the case in which the comment of the finding
`dkls_keygen_liar` is right.

**`EcdsaKeygenProofs`**: `TypeCorrect`, `KeyIsSavedOnce`, `KeyMeansNobodyFails`,
`FailureIsFinal`, `BarrierRefinement`, for any number of parties, faulty
parties, goroutines and replays. That a party fails has to be read off the
messages of others: the invariant says that a message was sent by a party that
entered its round and did not fail there (`NetInv`), that nobody sends twice
(`UniqueInv`), which messages the slots hold (`StoreInv`), that whoever counts
as heard has its messages there (`OkInv`), and that everything of the rounds
behind a party is there and verified (`PastInv`).

**`RoundScriptProofs`**, **`RoundScriptSoundness`**: every safety property of
the run `scripts`, for every script and setup that keep the rules of
`ScriptRules`, committees of any size, any faulty parties and any cancellations.
A protocol that is added or changed needs its rules evaluated, and no new proof.

| Theorem | Property | Rules it uses |
|---|---|---|
| `RevealIsProtected` | `RevealAfterCommit` | `RevealRule` |
| `KeyIsHandedOver` | `HandedOver` | `HandoverRule`, `ShareRule` |
| `OutcomeIsUnique` | `OneOutcome` | `OutcomeRule` |
| `ErrorsHaveCauses` | `ErrorHasCause` | `NeedsRule` |
| `SendsDoNotBlock` | `NoBlockedSend` | `RawRule` |
| `HonestPartiesAgree` | `Agreement` | `BindRule`, `AgreedRule`, `FlowRule` |
| `ResultsAreSound` | `SoundResult` | `SoundRule`, `FlowRule` |
| `NobodyWaitsForEver` | `NeverStuck` | `WaitRule` |

They rest on one invariant, `Engine`: a party has run what comes before the
handlers it has run, and collected what they collect (`History`); a message
comes from a statement of a handler that its sender has begun (`Origin`); nobody
sends two messages of one type to one party (`Unique`); wrong content goes back
to a faulty party (`Values`). `Agreement` adds that what was compared stays
equal (`BindInv`), which holds because a complete collector gets nothing more
(`FlowRule`). `SoundResult` adds that nothing wrong passes a verification
(`PureInv`) or a test of the result (`GateInv`, `SealInv`). `SendsDoNotBlock`
adds that a handler without checks fails only in the handler it calls
(`QuietInv`). `KeyIsHandedOver` adds that every failure has a reason, the context
or wrong content that the handler looked into (`ReasonInv`); with `ShareRule`,
after the share has been verified only new members can have sent that content.

`NobodyWaitsForEver` is the part of liveness that needs no fairness: a state in
which no handler can run and nobody has reported an error is one in which
everybody has a result. It adds that a party that has run a handler has sent all
that the handler sends, and has called the join when all it joins has run
(`ProgressInv`). A handler that is missing then lacks an earlier handler or the
message of one; `WaitRule` orders the handlers, so the first that is missing
lacks nothing. Fairness does the rest, and stays with
`scripts_live`.

Only model-checked: liveness (`CallbackEventually`, `ErasureLeadsToDelivery`,
`RecordedNonceSigns`, `EverybodyGetsKey`, `EverybodySaves`, and
`EverybodyFinishes` of both modules), which is out of the prover's reach; and
that the scripts keep the rules of `ScriptRules`, which TLC evaluates for each
protocol and cast.

## 5. What is not modelled

* Arithmetic: curves, Paillier, proofs, OT, secret sharing, lattice operations.
  It is out of TLC's reach at the sizes at which it means anything, and has no
  state; the protocols use its verdicts.
* The concurrent search for safe primes (`common/safe_prime.go`). Only its
  timeout matters to the protocols, and is in `EcdsaKeygen`.
* The protocols of `dklstss` that one call computes for all parties, and the
  trusted dealer of `mldsatss`: nothing is exchanged.
* Dual parties of `ecdsatss` and of legacy resharing (section 3).
* Attempts of ML-DSA signing side by side: the attempt id is part of every
  message type, so two attempts share no message.
* A broker that drops a message whose type nobody has connected yet, and a
  repeated message of the legacy engine with other content than the first
  (`StoreMessage` overwrites): `EcdsaKeygen` repeats messages as they were.
* What `Err` of `ecdsatss` does to a party whose context is done: it has room for
  one error and two callbacks may write. `NoBlockedSend` is about the others.
* What a faulty party does out of the order of the protocol. The collectors
  refuse unknown types, strangers and duplicates (`JsonExpect`).
* Memory: zeroisation is modelled only where a property needs it (old shares).
* Bounded `out` and `end` channels, and a broker that delivers synchronously
  from within a callback; both belong to the application.
* Key import, serialisation, parameters, logging and generated code.
