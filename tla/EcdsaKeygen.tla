------------------------------ MODULE EcdsaKeygen ------------------------------
(***************************************************************************)
(* Package ecdsa/keygen: the four rounds of GG18 key generation on the     *)
(* round engine.  Messages: "r1" (commitment, Paillier key, DLN proofs),   *)
(* "r2m1" (a share, to one party), "r2m2" (decommitment, modulus proof),   *)
(* "r3" (Paillier proof); all but r2m1 are broadcast, with one content for *)
(* all.  A message is "good" if the next round can verify it.              *)
(***************************************************************************)
EXTENDS RoundEngine

CONSTANT MayTimeOut \* parties whose pre-parameters may not be ready in time

ASSUME TimeOutAssumption == MayTimeOut \subseteq Party

vars == engine

Init == EngineInit

\* A message of type t and value v from p to all; p's own copy is good.
Broadcast(t, p, v) == {Msg(t, p, q, IF q = p THEN "good" ELSE v) : q \in Party}

\* What the Start of a round does when it succeeds: it sends msgs, keeping the
\* ones to p itself.
Sent(p, slots, msgs) ==
  /\ net' = net \cup {m \in msgs : m.to # p}
  /\ store' = [store EXCEPT ![p] = slots \cup {m \in msgs : m.to = p}]

\* A Start that returns an error has sent nothing; the round stays, started.
Abort(p, slots) ==
  /\ failed' = failed \cup {p}
  /\ store' = [store EXCEPT ![p] = slots]
  /\ UNCHANGED <<net, saved>>

\* round1.Start, called by BaseStart: deal and commit, unless the
\* pre-parameters cannot be generated before the timeout.
Start(p) ==
  /\ MayStart(p)
  /\ rnd' = [rnd EXCEPT ![p] = 1]
  /\ started' = started \cup {p}
  /\ ok' = [ok EXCEPT ![p] = {}]
  /\ \/ /\ \E v \in Value(p) : Sent(p, store[p], Broadcast("r1", p, v))
        /\ UNCHANGED <<failed, saved>>
     \/ p \in MayTimeOut /\ Abort(p, store[p])
  /\ UNCHANGED calls

\* round2.Start: check everybody's parameters and proofs, send the shares and
\* the decommitment.
StartRound2(p, slots) ==
  IF SomeBad(slots, {"r1"})
  THEN Abort(p, slots)
  ELSE /\ \E bad \in IF p \in Faulty THEN SUBSET (Party \ {p}) ELSE {{}}, v \in Value(p) :
            Sent(p, slots, {Msg("r2m1", p, q, IF q \in bad THEN "bad" ELSE "good") : q \in Party}
                           \cup Broadcast("r2m2", p, v))
       /\ UNCHANGED <<failed, saved>>

\* round3.Start: verify decommitments, shares and proofs of everybody, compute
\* the key and prove the Paillier modulus.
StartRound3(p, slots) ==
  IF SomeBad(slots, {"r2m1", "r2m2"})
  THEN Abort(p, slots)
  ELSE /\ \E v \in Value(p) : Sent(p, slots, Broadcast("r3", p, v))
       /\ UNCHANGED <<failed, saved>>

\* Mutant: a Paillier proof that fails does not stop the round.
StartRound4Unchecked(p, slots) ==
  /\ saved' = [saved EXCEPT ![p] = @ + 1]
  /\ store' = [store EXCEPT ![p] = slots]
  /\ UNCHANGED <<net, failed>>

\* round4.Start: verify the Paillier proofs and hand over the key.
StartRound4(p, slots) ==
  IF SomeBad(slots, {"r3"})
  THEN Abort(p, slots)
  ELSE /\ saved' = [saved EXCEPT ![p] = @ + 1]
       /\ store' = [store EXCEPT ![p] = slots]
       /\ UNCHANGED <<net, failed>>

\* Update of each round: the parties it has now heard from.
UpdateRound1(slots) == Heard(slots, "r1")

UpdateRound2(slots) == Heard(slots, "r2m1") \cap Heard(slots, "r2m2")

UpdateRound3(slots) == Heard(slots, "r3")

\* The last round, and a party without a round, expect no messages.
Update(r, slots) ==
  CASE r = 1 -> UpdateRound1(slots)
    [] r = 2 -> UpdateRound2(slots)
    [] r = 3 -> UpdateRound3(slots)
    [] OTHER -> {}

\* Mutant: resetOK is forgotten.
OkKept(r, slots) == Party

\* The parties a round counts as heard when its Start has returned: none, but
\* round 4 sets ok itself.
OkAfterStart(r, slots) ==
  IF r < 4 THEN {} ELSE {m.from : m \in {x \in slots : x.type = "r3" /\ x.val = "good"}}

\* Mutant: the recursive call is forgotten.
AgainNever(p, m, recurse) == calls' = [calls EXCEPT ![p] = @ \ {m}]

\* Update returns, or releases the mutex to call itself again.
Again(p, m, recurse) ==
  calls' = [calls EXCEPT ![p] = IF recurse THEN @ \cup {m} ELSE @ \ {m}]

\* BaseUpdate, one pass from lock to unlock.
BaseUpdate(p, m) ==
  LET slots == StoreMessage(store[p], m)
      oks == ok[p] \cup Update(rnd[p], slots)
  IN
  /\ Handed(p, m)
  /\ \/ \* no round, or one that still waits for somebody
        /\ rnd[p] = 0 \/ oks # Party
        /\ store' = [store EXCEPT ![p] = slots]
        /\ ok' = IF rnd[p] = 0 THEN ok ELSE [ok EXCEPT ![p] = oks]
        /\ Again(p, m, FALSE)
        /\ UNCHANGED <<net, rnd, started, failed, saved>>
     \/ \* on to the next round
        /\ rnd[p] \in 1 .. 3
        /\ oks = Party
        /\ rnd' = [rnd EXCEPT ![p] = @ + 1]
        /\ ok' = [ok EXCEPT ![p] = OkAfterStart(rnd[p] + 1, slots)]
        /\ CASE rnd[p] = 1 -> StartRound2(p, slots)
             [] rnd[p] = 2 -> StartRound3(p, slots)
             [] rnd[p] = 3 -> StartRound4(p, slots)
        /\ Again(p, m, p \notin failed')
        /\ UNCHANGED started
     \/ \* after the last one there is none
        /\ rnd[p] = 4
        /\ oks = Party
        /\ rnd' = [rnd EXCEPT ![p] = 0]
        /\ store' = [store EXCEPT ![p] = slots]
        /\ Again(p, m, TRUE)
        /\ UNCHANGED <<net, started, ok, failed, saved>>

Next == \E p \in Party : Start(p) \/ \E m \in net : BaseUpdate(p, m)

Spec == Init /\ [][Next]_vars

\* Every party is started, every message is handed over once, and a call that
\* has begun runs to its end.
Fairness ==
  \A p \in Party :
    /\ WF_vars(Start(p))
    /\ WF_vars(\E m \in net : (m \in calls[p] \/ m \notin store[p]) /\ BaseUpdate(p, m))

FairSpec == Spec /\ Fairness
-----------------------------------------------------------------------------
MessageType == {"r1", "r2m1", "r2m2", "r3"}

Message == [type : MessageType, from : Party, to : Party, val : {"good", "bad"}]

\* The state of the engine has its types; in particular the end channel is
\* used at most once, and only parties that were started fail.
TypeOK ==
  /\ net \subseteq Message
  /\ store \in [Party -> SUBSET Message]
  /\ rnd \in [Party -> 0 .. 4]
  /\ started \subseteq Party
  /\ ok \in [Party -> SUBSET Party]
  /\ calls \in [Party -> SUBSET net]
  /\ failed \subseteq started
  /\ saved \in [Party -> 0 .. 1]

\* round4.Start: the key is handed over once, although several goroutines may
\* pass through the last rounds and call themselves again, and only if every
\* party has dealt and proved to this one.
SavedOnceAndVerified ==
  \A p \in Party : saved[p] > 0 =>
    /\ saved[p] = 1
    /\ \A t \in MessageType : Heard(store[p], t) = Party
    /\ ~SomeBad(store[p], MessageType)

\* An honest party has a key only if no party has given up or will give up:
\* a round that fails sends nothing, everybody waits for it, and the proofs of
\* the last round are the same for all.
SavedMeansNobodyFailed ==
  (\E p \in Party \ Faulty : saved[p] > 0) => failed = {}

\* A party whose Start returned an error stays in its round for good: messages
\* that arrive later are stored, but it sends nothing and delivers no key.
FailedIsFinal ==
  [][\A p \in failed : /\ rnd'[p] = rnd[p]
                       /\ saved'[p] = saved[p]
                       /\ \A m \in net' \ net : m.from # p]_vars

\* Messages may arrive before Start, which does not look at them; unless a
\* round fails every party still ends with a key and no round.
EverybodySaves == <>(failed # {} \/ \A p \in Party : saved[p] = 1 /\ rnd[p] = 0)

\* A party that has a key is through the last round.
Abstract == INSTANCE RoundBarrier
  WITH round <- [p \in Party |-> IF saved[p] > 0 THEN 4 ELSE rnd[p]], Last <- 4

\* BaseUpdate and CanProceed keep the parties in step: nobody enters a round
\* before everybody has entered the one before it.
ImplementsBarrier == Abstract!Spec
=============================================================================
