--------------------------- MODULE EcdsaKeygenProofs ---------------------------
(***************************************************************************)
(* The round engine with the rounds of ecdsa/keygen, for any number of     *)
(* parties, faulty parties, goroutines and replays: the rounds are a       *)
(* barrier, a party that failed stays where it is, and a key is delivered  *)
(* once, verified, and only if nobody fails.                               *)
(***************************************************************************)
EXTENDS EcdsaKeygen, TLAPS

\* The round that sends a message of type t.
Stage(t) == CASE t = "r1" -> 1 [] t = "r3" -> 3 [] OTHER -> 2

\* How far p has come.
Rank(p) == IF saved[p] > 0 THEN 4 ELSE rnd[p]

\* A party without a round has not begun or has its key; one in the last round
\* has its key or was given a proof that fails.
PhaseInv ==
  \A p \in Party :
    /\ p \notin started => rnd[p] = 0 /\ saved[p] = 0
    /\ p \in started /\ rnd[p] = 0 => saved[p] = 1
    /\ rnd[p] \in 1 .. 3 => saved[p] = 0
    /\ rnd[p] = 4 /\ saved[p] = 0 =>
         /\ p \in failed
         /\ ok[p] # Party
         /\ \E m \in store[p] : m.type = "r3" /\ m.val = "bad"
    /\ p \in failed => saved[p] = 0 /\ rnd[p] \in 1 .. 4

\* A message was sent by a party that entered its round, and did not fail there.
NetInv ==
  \A m \in net :
    /\ m.from # m.to
    /\ Rank(m.from) >= Stage(m.type)
    /\ m.from \in failed => Stage(m.type) < rnd[m.from]
    /\ m.val = "bad" => m.from \in Faulty

\* Nobody sends a message twice, and the last one says the same to everybody.
UniqueInv ==
  \A m, n \in net : m.type = n.type /\ m.from = n.from =>
    /\ m.to = n.to => m = n
    /\ m.type = "r3" => m.val = n.val

\* The slots of p hold messages from the net, and its own of the rounds it has
\* entered without failing.
StoreInv ==
  \A p \in Party : \A m \in store[p] :
    /\ m.to = p
    /\ m.from # p => m \in net
    /\ m.from = p => /\ m.val = "good"
                     /\ Rank(p) >= Stage(m.type)
                     /\ p \in failed => Stage(m.type) < rnd[p]

\* Whoever counts as heard has its messages of the round in the slots.
OkInv ==
  \A p \in Party : rnd[p] \in 1 .. 3 => ok[p] \subseteq Update(rnd[p], store[p])

\* Of the rounds behind p everything is there, and verified.
PastInv ==
  \A p \in Party, t \in MessageType : Stage(t) < Rank(p) =>
    /\ Heard(store[p], t) = Party
    /\ p \notin failed => \A m \in store[p] : m.type = t => m.val = "good"

IInv == TypeOK /\ PhaseInv /\ NetInv /\ UniqueInv /\ StoreInv /\ OkInv /\ PastInv

-----------------------------------------------------------------------------
\* What a step of p that starts no round does: X joins the slots.
Resting(p, X) ==
  /\ X \subseteq {m \in net : m.to = p}
  /\ store' = [store EXCEPT ![p] = @ \cup X]
  /\ \/ rnd' = rnd
     \/ rnd[p] = 4 /\ ok[p] = Party /\ rnd' = [rnd EXCEPT ![p] = 0]
  /\ ok' \in [Party -> SUBSET Party]
  /\ \A q \in Party \ {p} : ok'[q] = ok[q]
  /\ ok'[p] \subseteq ok[p] \cup Update(rnd[p], store[p] \cup X)
  /\ calls' \in [Party -> SUBSET net]
  /\ UNCHANGED <<net, started, failed, saved>>

\* What p must have, with X in its slots, to enter the next round.
Admitted(p, X) ==
  /\ X \subseteq {m \in net : m.to = p}
  /\ rnd[p] \in 0 .. 3
  /\ p \notin failed
  /\ p \notin started <=> rnd[p] = 0
  /\ \A t \in MessageType : Stage(t) = rnd[p] => Heard(store[p] \cup X, t) = Party

\* What has arrived for the round that p leaves verifies.
Proper(p, X) ==
  \A m \in store[p] \cup X : Stage(m.type) = rnd[p] => m.val = "good"

\* What p sends in its next round: to each party one message of a type.
Outgoing(p, M) ==
  /\ M \subseteq Message
  /\ \A m \in M : /\ m.from = p
                  /\ Stage(m.type) = rnd[p] + 1
                  /\ m.to = p => m.val = "good"
                  /\ m.val = "bad" => p \in Faulty
  /\ \A m, n \in M : m.type = n.type =>
       /\ m.to = n.to => m = n
       /\ m.type = "r3" /\ m.to # p /\ n.to # p => m.val = n.val

\* p enters the next round.
Moving(p) ==
  /\ rnd' = [rnd EXCEPT ![p] = @ + 1]
  /\ started' = started \cup {p}
  /\ ok' \in [Party -> SUBSET Party]
  /\ \A q \in Party \ {p} : ok'[q] = ok[q]
  /\ rnd[p] < 3 => ok'[p] = {}
  /\ calls' \in [Party -> SUBSET net]

\* It sends M; or it fails; or it has its key.
Sending(p, X, M) ==
  /\ Admitted(p, X) /\ Proper(p, X) /\ Outgoing(p, M) /\ Moving(p)
  /\ rnd[p] < 3
  /\ net' = net \cup {m \in M : m.to # p}
  /\ store' = [store EXCEPT ![p] = @ \cup X \cup {m \in M : m.to = p}]
  /\ UNCHANGED <<failed, saved>>

Failing(p, X) ==
  /\ Admitted(p, X) /\ Moving(p)
  /\ rnd[p] = 3 => /\ \E m \in store[p] \cup X : m.type = "r3" /\ m.val = "bad"
                   /\ ok'[p] # Party
  /\ store' = [store EXCEPT ![p] = @ \cup X]
  /\ failed' = failed \cup {p}
  /\ UNCHANGED <<net, saved>>

Saving(p, X) ==
  /\ Admitted(p, X) /\ Proper(p, X) /\ Moving(p)
  /\ rnd[p] = 3
  /\ store' = [store EXCEPT ![p] = @ \cup X]
  /\ saved' = [saved EXCEPT ![p] = 1]
  /\ UNCHANGED <<net, failed>>

-----------------------------------------------------------------------------
\* A message has one place in the slots of its receiver, and never replaces
\* another one there.
LEMMA StoreAdds ==
  ASSUME TypeOK, NetInv, UniqueInv, StoreInv, NEW p \in Party, NEW m \in net, m.to = p
  PROVE  StoreMessage(store[p], m) = store[p] \cup {m}
<1>1. ASSUME NEW x \in store[p], x.type = m.type, x.from = m.from PROVE x = m
  <2>1. x.to = p /\ x.from # p
    BY <1>1 DEF NetInv, StoreInv
  <2>2. x \in net
    BY <1>1, <2>1 DEF StoreInv
  <2>. QED  BY <1>1, <2>1, <2>2 DEF UniqueInv
<1>. QED  BY <1>1 DEF StoreMessage

\* More slots, more parties heard.
LEMMA HeardGrows ==
  ASSUME NEW A, NEW B, A \subseteq B
  PROVE  /\ \A t : Heard(A, t) \subseteq Heard(B, t)
         /\ \A r : Update(r, A) \subseteq Update(r, B)
<1>1. \A t : Heard(A, t) \subseteq Heard(B, t)
  BY DEF Heard
<1>. QED  BY <1>1 DEF Update, UpdateRound1, UpdateRound2, UpdateRound3

\* Where a round has heard from everybody, all messages of its stage are there.
LEMMA AllHeard ==
  ASSUME NEW A, NEW r \in 1 .. 3, Party \subseteq Update(r, A), A \subseteq Message
  PROVE  \A t \in MessageType : Stage(t) = r => Heard(A, t) = Party
<1>1. \A t : Heard(A, t) \subseteq Party
  BY DEF Heard, Message
<1>. QED  BY <1>1 DEF Update, UpdateRound1, UpdateRound2, UpdateRound3, Stage, MessageType

\* A party that has failed in one of the first rounds has not heard itself.
LEMMA FailedUnheard ==
  ASSUME TypeOK, NetInv, StoreInv, NEW p \in failed, rnd[p] \in 1 .. 3,
         NEW X, X \subseteq {m \in net : m.to = p}
  PROVE  p \notin Update(rnd[p], store[p] \cup X)
<1>0. p \in Party
  BY DEF TypeOK
<1>1. \A t \in MessageType : Stage(t) = rnd[p] => p \notin Heard(store[p] \cup X, t)
  BY <1>0 DEF Heard, NetInv, StoreInv, TypeOK
<1>. QED
  BY <1>1 DEF Update, UpdateRound1, UpdateRound2, UpdateRound3, Stage, MessageType

\* The Start of round 1, by the first step of a party.
LEMMA StartCases ==
  ASSUME IInv, NEW p \in Party, Start(p)
  PROVE  Failing(p, {}) \/ \E M : Sending(p, {}, M)
<1>. USE DEF IInv
<1>1. /\ rnd[p] = 0 /\ p \notin started /\ p \notin failed
      /\ rnd' = [rnd EXCEPT ![p] = 1]
      /\ started' = started \cup {p}
      /\ ok' = [ok EXCEPT ![p] = {}]
      /\ calls' = calls
  BY DEF Start, MayStart, PhaseInv, TypeOK
<1>2. Admitted(p, {})
  BY <1>1 DEF Admitted, Stage
<1>3. Moving(p)
  BY <1>1 DEF Moving, TypeOK
<1>4. CASE Abort(p, store[p])
  BY <1>1, <1>2, <1>3, <1>4 DEF Failing, Abort
<1>5. ASSUME NEW v \in Value(p), Sent(p, store[p], Broadcast("r1", p, v)),
             UNCHANGED <<failed, saved>>
      PROVE  Sending(p, {}, Broadcast("r1", p, v))
  <2> DEFINE M == Broadcast("r1", p, v)
  <2>0. v \in {"good", "bad"} /\ (v = "bad" => p \in Faulty)
    BY <1>5 DEF Value
  <2>1. Outgoing(p, M)
    BY <1>1, <2>0 DEF Outgoing, Broadcast, Msg, Message, MessageType, Stage
  <2>2. Proper(p, {})
    BY <1>1 DEF Proper, Stage
  <2>3. net' = net \cup {m \in M : m.to # p}
    BY <1>5 DEF Sent
  <2>4. store' = [store EXCEPT ![p] = @ \cup {} \cup {m \in M : m.to = p}]
    BY <1>5 DEF Sent
  <2>. QED  BY <1>1, <1>2, <1>3, <1>5, <2>1, <2>2, <2>3, <2>4 DEF Sending
<1>. QED  BY <1>4, <1>5 DEF Start

\* The Start of the other rounds, with the slots A.
LEMMA RoundCases ==
  ASSUME IInv, NEW p \in Party, NEW X, NEW A, A = store[p] \cup X,
         Admitted(p, X), Moving(p), rnd[p] \in 1 .. 3,
         rnd[p] = 3 =>
           ok'[p] = {m.from : m \in {x \in A : x.type = "r3" /\ x.val = "good"}},
         CASE rnd[p] = 1 -> StartRound2(p, A)
           [] rnd[p] = 2 -> StartRound3(p, A)
           [] rnd[p] = 3 -> StartRound4(p, A)
  PROVE  Failing(p, X) \/ Saving(p, X) \/ \E M : Sending(p, X, M)
<1>. USE DEF IInv
<1>a. A \subseteq Message
  BY DEF Admitted, TypeOK
<1>1. CASE rnd[p] = 1
  <2>0. StartRound2(p, A)
    BY <1>1
  <2>1. CASE SomeBad(A, {"r1"})
    BY <1>1, <2>0, <2>1 DEF StartRound2, Abort, Failing
  <2>2. CASE ~SomeBad(A, {"r1"})
    <3>1. PICK bad \in IF p \in Faulty THEN SUBSET (Party \ {p}) ELSE {{}}, v \in Value(p) :
            Sent(p, A, {Msg("r2m1", p, q, IF q \in bad THEN "bad" ELSE "good") : q \in Party}
                       \cup Broadcast("r2m2", p, v))
      BY <2>0, <2>2, Zenon DEF StartRound2
    <3> DEFINE M == {Msg("r2m1", p, q, IF q \in bad THEN "bad" ELSE "good") : q \in Party}
                      \cup Broadcast("r2m2", p, v)
    <3>2. /\ v \in {"good", "bad"} /\ (v = "bad" => p \in Faulty)
          /\ p \notin bad /\ (p \notin Faulty => bad = {})
      BY DEF Value
    <3>3. Outgoing(p, M)
      BY <1>1, <3>2 DEF Outgoing, Broadcast, Msg, Message, MessageType, Stage
    <3>4. Proper(p, X)
      BY <1>1, <1>a, <2>2 DEF Proper, SomeBad, Stage, Message, MessageType
    <3>5. /\ net' = net \cup {m \in M : m.to # p}
          /\ store' = [store EXCEPT ![p] = @ \cup X \cup {m \in M : m.to = p}]
      BY <3>1 DEF Sent
    <3>6. UNCHANGED <<failed, saved>>
      BY <2>0, <2>2 DEF StartRound2
    <3>7. Sending(p, X, M)
      BY <1>1, <3>3, <3>4, <3>5, <3>6 DEF Sending
    <3>. QED  BY <3>7
  <2>. QED  BY <2>1, <2>2
<1>2. CASE rnd[p] = 2
  <2>0. StartRound3(p, A)
    BY <1>2
  <2>1. CASE SomeBad(A, {"r2m1", "r2m2"})
    BY <1>2, <2>0, <2>1 DEF StartRound3, Abort, Failing
  <2>2. CASE ~SomeBad(A, {"r2m1", "r2m2"})
    <3>1. PICK v \in Value(p) : Sent(p, A, Broadcast("r3", p, v))
      BY <2>0, <2>2 DEF StartRound3
    <3> DEFINE M == Broadcast("r3", p, v)
    <3>2. v \in {"good", "bad"} /\ (v = "bad" => p \in Faulty)
      BY DEF Value
    <3>3. Outgoing(p, M)
      BY <1>2, <3>2 DEF Outgoing, Broadcast, Msg, Message, MessageType, Stage
    <3>4. Proper(p, X)
      BY <1>2, <1>a, <2>2 DEF Proper, SomeBad, Stage, Message, MessageType
    <3>5. /\ net' = net \cup {m \in M : m.to # p}
          /\ store' = [store EXCEPT ![p] = @ \cup X \cup {m \in M : m.to = p}]
      BY <3>1 DEF Sent
    <3>6. UNCHANGED <<failed, saved>>
      BY <2>0, <2>2 DEF StartRound3
    <3>7. Sending(p, X, M)
      BY <1>2, <3>3, <3>4, <3>5, <3>6 DEF Sending
    <3>. QED  BY <3>7
  <2>. QED  BY <2>1, <2>2
<1>3. CASE rnd[p] = 3
  <2>0. StartRound4(p, A)
    BY <1>3
  <2>1. CASE SomeBad(A, {"r3"})
    <3>1. PICK m \in A : m.type = "r3" /\ m.val = "bad"
      BY <2>1 DEF SomeBad
    <3>2. \A x \in A : x.type = "r3" /\ x.from = m.from => x = m
      BY <3>1, <1>a DEF Admitted, NetInv, UniqueInv, StoreInv, Message
    <3>3. m.from \in Party /\ m.from \notin ok'[p]
      BY <1>3, <3>1, <3>2, <1>a DEF Message
    <3>. QED  BY <1>3, <2>0, <2>1, <3>1, <3>3 DEF StartRound4, Abort, Failing
  <2>2. CASE ~SomeBad(A, {"r3"})
    <3>1. Proper(p, X)
      BY <1>3, <1>a, <2>2 DEF Proper, SomeBad, Stage, Message, MessageType
    <3>2. saved' = [saved EXCEPT ![p] = 1]
      BY <1>3, <2>0, <2>2 DEF StartRound4, PhaseInv, TypeOK
    <3>. QED  BY <1>3, <2>0, <2>2, <3>1, <3>2 DEF StartRound4, Saving
  <2>. QED  BY <2>1, <2>2
<1>. QED  BY <1>1, <1>2, <1>3

\* A pass of BaseUpdate stores, leaves the last round or enters the next.
LEMMA UpdateCases ==
  ASSUME IInv, NEW p \in Party, NEW m \in net, BaseUpdate(p, m)
  PROVE  \/ Resting(p, {m})
         \/ Failing(p, {m}) \/ Saving(p, {m}) \/ \E M : Sending(p, {m}, M)
<1>. USE DEF IInv
<1> DEFINE slots == StoreMessage(store[p], m)
           oks == ok[p] \cup Update(rnd[p], slots)
<1>1. m.to = p /\ slots = store[p] \cup {m}
  BY StoreAdds DEF BaseUpdate, Handed
<1>2. slots \subseteq Message
  BY <1>1 DEF TypeOK
<1>3. Update(rnd[p], slots) \subseteq Party
  BY <1>2 DEF Update, UpdateRound1, UpdateRound2, UpdateRound3, Heard, Message
<1>4. calls' \in [Party -> SUBSET net]
  <2>1. Again(p, m, FALSE) \/ Again(p, m, TRUE) \/ Again(p, m, p \notin failed')
    BY Zenon DEF BaseUpdate
  <2>2. calls' = [calls EXCEPT ![p] = @ \cup {m}] \/ calls' = [calls EXCEPT ![p] = @ \ {m}]
    BY <2>1 DEF Again
  <2>. QED  BY <2>2 DEF TypeOK
<1>5. CASE /\ rnd[p] = 0 \/ oks # Party
           /\ store' = [store EXCEPT ![p] = slots]
           /\ ok' = IF rnd[p] = 0 THEN ok ELSE [ok EXCEPT ![p] = oks]
           /\ UNCHANGED <<net, rnd, started, failed, saved>>
  <2>1. ok' \in [Party -> SUBSET Party] /\ ok'[p] \subseteq oks
    BY <1>3, <1>5 DEF TypeOK
  <2>2. \A q \in Party \ {p} : ok'[q] = ok[q]
    BY <1>5 DEF TypeOK
  <2>. QED  BY <1>1, <1>4, <1>5, <2>1, <2>2, Zenon DEF Resting
<1>6. CASE /\ rnd[p] = 4
           /\ oks = Party
           /\ rnd' = [rnd EXCEPT ![p] = 0]
           /\ store' = [store EXCEPT ![p] = slots]
           /\ UNCHANGED <<net, started, ok, failed, saved>>
  <2>1. oks = ok[p]
    BY <1>6 DEF Update
  <2>. QED  BY <1>1, <1>4, <1>6, <2>1, Zenon DEF Resting, TypeOK
<1>7. CASE /\ rnd[p] \in 1 .. 3
           /\ oks = Party
           /\ rnd' = [rnd EXCEPT ![p] = @ + 1]
           /\ ok' = [ok EXCEPT ![p] = OkAfterStart(rnd[p] + 1, slots)]
           /\ CASE rnd[p] = 1 -> StartRound2(p, slots)
                [] rnd[p] = 2 -> StartRound3(p, slots)
                [] rnd[p] = 3 -> StartRound4(p, slots)
           /\ UNCHANGED started
  <2>1. ok[p] \subseteq Update(rnd[p], slots)
    BY <1>1, <1>7, HeardGrows, Zenon DEF OkInv
  <2>2. \A t \in MessageType : Stage(t) = rnd[p] => Heard(slots, t) = Party
    BY <1>2, <1>7, <2>1, AllHeard
  <2>3. p \notin failed
    BY <1>1, <1>7, <2>1, FailedUnheard, Zenon
  <2>4. p \in started
    BY <1>7 DEF PhaseInv
  <2>5. Admitted(p, {m})
    BY <1>1, <1>7, <2>2, <2>3, <2>4 DEF Admitted
  <2>6. OkAfterStart(rnd[p] + 1, slots) \subseteq Party
    BY <1>2 DEF OkAfterStart, Message
  <2>7. /\ ok' \in [Party -> SUBSET Party]
        /\ \A q \in Party \ {p} : ok'[q] = ok[q]
        /\ ok'[p] = OkAfterStart(rnd[p] + 1, slots)
    BY <1>7, <2>6 DEF TypeOK
  <2>8. Moving(p)
    BY <1>4, <1>7, <2>4, <2>7 DEF Moving, OkAfterStart
  <2>9. rnd[p] = 3 =>
          ok'[p] = {x.from : x \in {y \in slots : y.type = "r3" /\ y.val = "good"}}
    BY <2>7 DEF OkAfterStart
  <2>. QED  BY <1>1, <1>7, <2>5, <2>8, <2>9, RoundCases, Zenon
<1>. QED  BY <1>5, <1>6, <1>7, Zenon DEF BaseUpdate

\* What a step of the engine can be.
LEMMA NextCases ==
  ASSUME IInv, Next
  PROVE  \E p \in Party, X \in SUBSET net :
           \/ Resting(p, X) \/ Failing(p, X) \/ Saving(p, X) \/ \E M : Sending(p, X, M)
<1>1. PICK p \in Party : Start(p) \/ \E m \in net : BaseUpdate(p, m)
  BY DEF Next
<1>2. CASE Start(p)
  BY <1>2, StartCases
<1>3. ASSUME NEW m \in net, BaseUpdate(p, m)
      PROVE  \E X \in SUBSET net :
               \/ Resting(p, X) \/ Failing(p, X) \/ Saving(p, X) \/ \E M : Sending(p, X, M)
  BY <1>3, UpdateCases, Zenon
<1>. QED  BY <1>1, <1>2, <1>3

-----------------------------------------------------------------------------
\* Of the rounds behind a party nothing new arrives.
LEMMA PastKept ==
  ASSUME IInv, NEW p \in Party, NEW X, X \subseteq {m \in net : m.to = p},
         NEW t \in MessageType, Stage(t) < Rank(p)
  PROVE  /\ Heard(store[p] \cup X, t) = Party
         /\ \A m \in X : m.type = t => m \in store[p]
<1>. USE DEF IInv
<1>1. Heard(store[p], t) = Party
  BY DEF PastInv
<1>2. ASSUME NEW m \in X, m.type = t PROVE m \in store[p]
  <2>1. m.from \in Party /\ m.from # p
    BY DEF TypeOK, Message, NetInv
  <2>2. PICK x \in store[p] : x.type = t /\ x.from = m.from
    BY <1>1, <2>1 DEF Heard
  <2>3. x \in net /\ x.to = p
    BY <2>1, <2>2 DEF StoreInv
  <2>. QED  BY <1>2, <2>2, <2>3 DEF UniqueInv
<1>3. Heard(store[p] \cup X, t) = Heard(store[p], t)
  BY <1>2 DEF Heard
<1>. QED  BY <1>1, <1>2, <1>3

\* A party that enters a round has everything of the rounds before, and if it
\* does not fail everything verifies.
LEMMA PastGrows ==
  ASSUME IInv, NEW p \in Party, NEW X, Admitted(p, X),
         NEW B, store[p] \cup X \subseteq B, B \subseteq Message,
         \A m \in B \ (store[p] \cup X) : Stage(m.type) = rnd[p] + 1,
         NEW t \in MessageType, Stage(t) <= rnd[p]
  PROVE  /\ Heard(B, t) = Party
         /\ Proper(p, X) => \A m \in B : m.type = t => m.val = "good"
<1>. USE DEF IInv
<1>0. /\ rnd[p] \in 0 .. 3 /\ saved[p] = 0 /\ Rank(p) = rnd[p] /\ p \notin failed
      /\ Stage(t) \in 1 .. 3 /\ X \subseteq {m \in net : m.to = p}
  BY DEF Admitted, PhaseInv, Rank, TypeOK, Stage
<1>1. Heard(store[p] \cup X, t) = Party
  <2>1. CASE Stage(t) = rnd[p]
    BY <2>1, Zenon DEF Admitted
  <2>2. CASE Stage(t) < rnd[p]
    BY <1>0, <2>2, PastKept
  <2>. QED  BY <1>0, <2>1, <2>2
<1>2. Heard(B, t) = Party
  <2>1. Heard(B, t) \subseteq Party
    BY DEF Heard, Message
  <2>. QED  BY <1>1, <2>1, HeardGrows, Zenon
<1>3. ASSUME Proper(p, X), NEW m \in B, m.type = t PROVE m.val = "good"
  <2>1. m \in store[p] \cup X
    BY <1>0, <1>3
  <2>2. CASE Stage(t) = rnd[p]
    BY <1>3, <2>1, <2>2 DEF Proper
  <2>3. CASE Stage(t) < rnd[p]
    <3>0. \A n \in X : n.type = t => n \in store[p]
      BY <1>0, <2>3, PastKept, Zenon
    <3>1. m \in store[p]
      BY <1>3, <2>1, <3>0
    <3>. QED  BY <1>0, <1>3, <2>3, <3>1 DEF PastInv
  <2>. QED  BY <1>0, <2>2, <2>3
<1>. QED  BY <1>2, <1>3

\* A step that starts no round keeps the invariant.
LEMMA RestingIInv ==
  ASSUME IInv, NEW p \in Party, NEW X, Resting(p, X)
  PROVE  IInv'
<1>. USE DEF IInv
<1>0. /\ X \subseteq net /\ \A m \in X : m.to = p
      /\ net' = net /\ started' = started /\ failed' = failed /\ saved' = saved
      /\ \A q \in Party \ {p} : store'[q] = store[q] /\ ok'[q] = ok[q] /\ rnd'[q] = rnd[q]
      /\ store'[p] = store[p] \cup X
      /\ rnd'[p] = rnd[p] \/ (rnd[p] = 4 /\ ok[p] = Party /\ rnd'[p] = 0)
  BY DEF Resting, TypeOK
<1>1. rnd[p] = 4 /\ ok[p] = Party => saved[p] = 1
  BY DEF PhaseInv, TypeOK
<1>2. TypeOK'
  BY DEF Resting, TypeOK
<1>3. \A q \in Party : Rank(q)' = Rank(q)
  BY <1>0, <1>1 DEF Rank, TypeOK
<1>4. PhaseInv'
  <2>1. rnd'[p] = 4 => ok'[p] \subseteq ok[p]
    BY <1>0 DEF Resting, Update
  <2>2. ok[p] \subseteq Party
    BY DEF TypeOK
  <2>3. rnd'[p] = 4 /\ saved[p] = 0 => ok'[p] # Party
    <3>1. rnd'[p] = 4 /\ saved[p] = 0 => rnd[p] = 4 /\ ok[p] # Party
      BY <1>0 DEF PhaseInv
    <3>. QED  BY <2>1, <2>2, <3>1
  <2>4. \A q \in Party : store[q] \subseteq store'[q]
    BY <1>0
  <2>5. \A q \in Party : q # p \/ rnd'[p] = rnd[p] => rnd'[q] = rnd[q]
    BY <1>0
  <2>6. rnd'[p] # rnd[p] => rnd'[p] = 0 /\ saved[p] = 1 /\ p \in started /\ p \notin failed
    BY <1>0, <1>1 DEF PhaseInv
  <2>7. \A q \in Party : rnd'[q] = 4 /\ saved[q] = 0 => ok'[q] # Party
    BY <1>0, <2>3 DEF PhaseInv
  <2>8. ASSUME NEW q \in Party, rnd'[q] = rnd[q]
        PROVE  /\ q \notin started => rnd'[q] = 0 /\ saved[q] = 0
               /\ q \in started /\ rnd'[q] = 0 => saved[q] = 1
               /\ rnd'[q] \in 1 .. 3 => saved[q] = 0
               /\ rnd'[q] = 4 /\ saved[q] = 0 =>
                    /\ q \in failed
                    /\ ok'[q] # Party
                    /\ \E m \in store'[q] : m.type = "r3" /\ m.val = "bad"
               /\ q \in failed => saved[q] = 0 /\ rnd'[q] \in 1 .. 4
    BY <2>4, <2>7, <2>8 DEF PhaseInv
  <2>. QED  BY <1>0, <2>5, <2>6, <2>8 DEF PhaseInv
<1>5. NetInv' /\ UniqueInv'
  <2>1. \A q \in failed : rnd'[q] = rnd[q]
    BY <1>0, <1>1 DEF PhaseInv, TypeOK
  <2>. QED  BY <1>0, <1>3, <2>1 DEF NetInv, UniqueInv, TypeOK, Message
<1>6. StoreInv'
  <2>1. \A q \in failed : rnd'[q] = rnd[q]
    BY <1>0, <1>1 DEF PhaseInv, TypeOK
  <2>. QED  BY <1>0, <1>3, <2>1 DEF StoreInv, NetInv, TypeOK
<1>7. OkInv'
  <2>1. ASSUME rnd'[p] \in 1 .. 3 PROVE ok'[p] \subseteq Update(rnd'[p], store'[p])
    <3>1. rnd'[p] = rnd[p] /\ ok[p] \subseteq Update(rnd[p], store[p])
      BY <1>0, <2>1 DEF OkInv
    <3>2. Update(rnd[p], store[p]) \subseteq Update(rnd[p], store[p] \cup X)
      BY HeardGrows, Zenon
    <3>. QED  BY <1>0, <3>1, <3>2, Zenon DEF Resting
  <2>. QED  BY <1>0, <2>1, Zenon DEF OkInv
<1>8. PastInv'
  <2>1. ASSUME NEW t \in MessageType, Stage(t) < Rank(p)
        PROVE  /\ Heard(store'[p], t) = Party
               /\ p \notin failed => \A m \in store'[p] : m.type = t => m.val = "good"
    <3>1. X \subseteq {m \in net : m.to = p}
      BY DEF Resting
    <3>2. /\ Heard(store[p] \cup X, t) = Party
          /\ \A m \in X : m.type = t => m \in store[p]
      BY <2>1, <3>1, PastKept, Zenon
    <3>. QED  BY <1>0, <2>1, <3>2 DEF PastInv
  <2>2. ASSUME NEW q \in Party \ {p}, NEW t \in MessageType, Stage(t) < Rank(q)
        PROVE  /\ Heard(store'[q], t) = Party
               /\ q \notin failed => \A m \in store'[q] : m.type = t => m.val = "good"
    BY <1>0, <2>2 DEF PastInv
  <2>3. \A q \in Party, t \in MessageType : Stage(t) < Rank(q) =>
          /\ Heard(store'[q], t) = Party
          /\ q \notin failed => \A m \in store'[q] : m.type = t => m.val = "good"
    BY <2>1, <2>2
  <2>4. \A q \in Party, t \in MessageType : Stage(t) < Rank(q)' =>
          /\ Heard(store'[q], t) = Party
          /\ q \notin failed' => \A m \in store'[q] : m.type = t => m.val = "good"
    BY <1>0, <1>3, <2>3
  <2>. QED  BY <2>4 DEF PastInv, Heard, Stage
<1>. QED  BY <1>2, <1>4, <1>5, <1>6, <1>7, <1>8

\* A round that fails, and the last round, send nothing: what a party that
\* enters a round keeps when only its slots, marks and number change.
LEMMA QuietIInv ==
  ASSUME IInv, NEW p \in Party, NEW X, Failing(p, X) \/ Saving(p, X)
  PROVE  IInv'
<1>. USE DEF IInv
<1>a. /\ Admitted(p, X) /\ Moving(p) /\ net' = net
      /\ store' = [store EXCEPT ![p] = @ \cup X]
  BY DEF Failing, Saving
<1>b. \A q \in Party \ {p} : saved'[q] = saved[q] /\ (q \in failed' <=> q \in failed)
  BY DEF Failing, Saving, TypeOK
<1>c. saved[p] = 0
  BY <1>a DEF Admitted, PhaseInv
<1>0. /\ Admitted(p, X) /\ Moving(p) /\ net' = net
      /\ X \subseteq net /\ \A m \in X : m.to = p
      /\ started' = started \cup {p}
      /\ \A q \in Party \ {p} :
           store'[q] = store[q] /\ ok'[q] = ok[q] /\ rnd'[q] = rnd[q] /\ saved'[q] = saved[q]
      /\ \A q \in Party \ {p} : q \in failed' <=> q \in failed
      /\ store'[p] = store[p] \cup X
      /\ rnd'[p] = rnd[p] + 1 /\ rnd[p] \in 0 .. 3 /\ p \notin failed /\ saved[p] = 0
  BY <1>a, <1>b, <1>c, Zenon DEF Admitted, Moving, TypeOK
<1>1. \/ p \in failed' /\ saved' = saved /\ Failing(p, X)
      \/ failed' = failed /\ saved'[p] = 1 /\ rnd[p] = 3 /\ Proper(p, X) /\ Saving(p, X)
  BY DEF Failing, Saving, TypeOK
<1>2. TypeOK'
  BY DEF Failing, Saving, Admitted, Moving, TypeOK
<1>3. /\ \A q \in Party \ {p} : Rank(q)' = Rank(q)
      /\ Rank(p) = rnd[p] /\ Rank(p)' = rnd[p] + 1
  BY <1>0, <1>1 DEF Rank
<1>4. PhaseInv'
  <2>1. \A q \in Party \ {p} : q \in started' <=> q \in started
    BY <1>0
  <2>2. p \in started' /\ rnd'[p] \in 1 .. 4
    BY <1>0
  <2>3. rnd'[p] = 4 /\ saved'[p] = 0 =>
          /\ p \in failed'
          /\ ok'[p] # Party
          /\ \E m \in store'[p] : m.type = "r3" /\ m.val = "bad"
    BY <1>0, <1>1 DEF Failing
  <2>4. /\ rnd'[p] \in 1 .. 3 => saved'[p] = 0
        /\ p \in failed' => saved'[p] = 0
    BY <1>0, <1>1
  <2>. QED  BY <1>0, <2>1, <2>2, <2>3, <2>4 DEF PhaseInv
<1>5. NetInv' /\ UniqueInv'
  <2>1. \A m \in net : /\ m.from \in Party
                       /\ Rank(m.from)' >= Stage(m.type)
                       /\ m.from \in failed' => Stage(m.type) < rnd'[m.from]
    BY <1>0, <1>3 DEF NetInv, TypeOK, Message, Stage
  <2>2. NetInv'
    BY <1>0, <2>1 DEF NetInv, Rank
  <2>. QED  BY <1>0, <2>2 DEF UniqueInv
<1>6. StoreInv'
  <2>1. ASSUME NEW m \in store'[p]
        PROVE  /\ m.to = p /\ (m.from # p => m \in net)
               /\ m.from = p => m.val = "good" /\ Stage(m.type) <= rnd[p]
    BY <1>0, <1>3 DEF StoreInv, NetInv
  <2>2. \A m \in store'[p] : m.type \in MessageType /\ Stage(m.type) \in 1 .. 3
    BY <1>0 DEF TypeOK, Message, Stage
  <2>3. ASSUME NEW q \in Party \ {p}, NEW m \in store'[q]
        PROVE  /\ m.to = q
               /\ m.from # q => m \in net
               /\ m.from = q => /\ m.val = "good"
                                /\ Rank(q) >= Stage(m.type)
                                /\ q \in failed' => Stage(m.type) < rnd'[q]
    BY <1>0, <2>3 DEF StoreInv
  <2>. QED  BY <1>0, <1>3, <2>1, <2>2, <2>3 DEF StoreInv, Rank
<1>7. OkInv'
  <2>1. rnd'[p] \in 1 .. 3 => ok'[p] = {}
    BY <1>0 DEF Moving
  <2>. QED  BY <1>0, <2>1 DEF OkInv
<1>8. PastInv'
  <2>1. ASSUME NEW t \in MessageType, Stage(t) < Rank(p)'
        PROVE  /\ Heard(store'[p], t) = Party
               /\ p \notin failed' => \A m \in store'[p] : m.type = t => m.val = "good"
    <3>1. store'[p] \subseteq Message /\ Stage(t) <= rnd[p]
      BY <1>0, <1>3, <2>1 DEF TypeOK, Stage
    <3>2. Heard(store'[p], t) = Party
      BY <1>0, <3>1, PastGrows
    <3>3. p \notin failed' => Proper(p, X)
      BY <1>0, <1>1
    <3>. QED  BY <1>0, <3>1, <3>2, <3>3, PastGrows
  <2>2. ASSUME NEW q \in Party \ {p}, NEW t \in MessageType, Stage(t) < Rank(q)'
        PROVE  /\ Heard(store'[q], t) = Party
               /\ q \notin failed' => \A m \in store'[q] : m.type = t => m.val = "good"
    BY <1>0, <1>3, <2>2 DEF PastInv
  <2>3. \A q \in Party, t \in MessageType : Stage(t) < Rank(q)' =>
          /\ Heard(store'[q], t) = Party
          /\ q \notin failed' => \A m \in store'[q] : m.type = t => m.val = "good"
    BY <2>1, <2>2
  <2>. QED  BY <2>3 DEF PastInv, Heard, Stage
<1>. QED  BY <1>2, <1>4, <1>5, <1>6, <1>7, <1>8

\* A round that sends keeps the invariant: what it sends is new.
LEMMA SendingIInv ==
  ASSUME IInv, NEW p \in Party, NEW X, NEW M, Sending(p, X, M)
  PROVE  IInv'
<1>. USE DEF IInv
<1> DEFINE Out == {m \in M : m.to # p}
           Own == {m \in M : m.to = p}
<1>a. /\ Admitted(p, X) /\ Proper(p, X) /\ Outgoing(p, M) /\ Moving(p) /\ rnd[p] < 3
      /\ net' = net \cup Out
      /\ store' = [store EXCEPT ![p] = @ \cup X \cup Own]
      /\ failed' = failed /\ saved' = saved
  BY DEF Sending
<1>b. saved[p] = 0
  BY <1>a DEF Admitted, PhaseInv
<1>0. /\ X \subseteq net /\ \A m \in X : m.to = p
      /\ started' = started \cup {p}
      /\ \A q \in Party \ {p} : store'[q] = store[q] /\ ok'[q] = ok[q] /\ rnd'[q] = rnd[q]
      /\ store'[p] = store[p] \cup X \cup Own
      /\ rnd'[p] = rnd[p] + 1 /\ rnd[p] \in 0 .. 2 /\ p \notin failed /\ saved[p] = 0
      /\ ok'[p] = {}
  BY <1>a, <1>b DEF Admitted, Moving, TypeOK
<1>1. \A m \in M : /\ m \in Message /\ m.from = p /\ Stage(m.type) = rnd[p] + 1
                   /\ m.to = p => m.val = "good"
                   /\ m.val = "bad" => p \in Faulty
  BY <1>a DEF Outgoing
<1>2. TypeOK'
  <2>1. Out \subseteq Message /\ Own \subseteq Message
    BY <1>1
  <2>2. net' \subseteq Message /\ net \subseteq net'
    BY <1>a, <2>1 DEF TypeOK
  <2>3. store' \in [Party -> SUBSET Message]
    BY <1>a, <1>0, <2>1 DEF TypeOK
  <2>4. calls' \in [Party -> SUBSET net']
    BY <1>a, <2>2 DEF Moving
  <2>5. rnd' \in [Party -> 0 .. 4] /\ ok' \in [Party -> SUBSET Party]
    BY <1>a, <1>0 DEF Moving, TypeOK
  <2>6. started' \subseteq Party /\ failed' \subseteq started' /\ saved' \in [Party -> 0 .. 1]
    BY <1>a, <1>0 DEF TypeOK
  <2>. QED  BY <2>2, <2>3, <2>4, <2>5, <2>6 DEF TypeOK
<1>3. /\ \A q \in Party \ {p} : Rank(q)' = Rank(q)
      /\ Rank(p) = rnd[p] /\ Rank(p)' = rnd[p] + 1
  BY <1>a, <1>0 DEF Rank
<1>4. PhaseInv'
  BY <1>a, <1>0 DEF PhaseInv
<1>5. NetInv'
  <2>1. \A m \in net : /\ m.from \in Party
                       /\ Rank(m.from)' >= Stage(m.type)
                       /\ m.from \in failed => Stage(m.type) < rnd'[m.from]
    BY <1>0, <1>3 DEF NetInv, TypeOK, Message, Stage
  <2>2. \A m \in Out : /\ m.from # m.to /\ m.from \notin failed
                       /\ Rank(m.from)' >= Stage(m.type)
                       /\ m.val = "bad" => m.from \in Faulty
    BY <1>0, <1>1, <1>3
  <2>3. \A m \in net' : /\ m.from # m.to
                        /\ Rank(m.from)' >= Stage(m.type)
                        /\ m.from \in failed' => Stage(m.type) < rnd'[m.from]
                        /\ m.val = "bad" => m.from \in Faulty
    BY <1>a, <2>1, <2>2 DEF NetInv
  <2>. QED  BY <2>3 DEF NetInv, Rank
<1>6. UniqueInv'
  <2>1. ASSUME NEW m \in net, NEW n \in Out, m.from = n.from PROVE m.type # n.type
    <3>1. Rank(p) >= Stage(m.type) /\ Stage(n.type) = rnd[p] + 1
      BY <1>1, <2>1 DEF NetInv
    <3>2. Stage(m.type) \in 1 .. 3
      BY DEF Stage
    <3>. QED  BY <1>0, <1>3, <3>1, <3>2
  <2>2. ASSUME NEW m \in Out, NEW n \in Out, m.type = n.type
        PROVE  (m.to = n.to => m = n) /\ (m.type = "r3" => m.val = n.val)
    BY <1>a, <2>2 DEF Outgoing
  <2>. QED  BY <1>a, <2>1, <2>2 DEF UniqueInv
<1>7. StoreInv'
  <2>1. \A m \in store'[p] : Stage(m.type) \in 1 .. 3
    BY DEF Stage
  <2>2. ASSUME NEW m \in store'[p]
        PROVE  /\ m.to = p /\ (m.from # p => m \in net')
               /\ m.from = p => m.val = "good" /\ Stage(m.type) <= rnd[p] + 1
    <3>1. CASE m \in store[p]
      BY <1>a, <1>0, <1>3, <2>1, <3>1 DEF StoreInv
    <3>2. CASE m \in X
      BY <1>a, <1>0, <3>2 DEF NetInv
    <3>3. CASE m \in Own
      BY <1>1, <1>0, <3>3
    <3>. QED  BY <1>0, <3>1, <3>2, <3>3
  <2>3. ASSUME NEW q \in Party \ {p}, NEW m \in store'[q]
        PROVE  /\ m.to = q
               /\ m.from # q => m \in net'
               /\ m.from = q => /\ m.val = "good"
                                /\ Rank(q) >= Stage(m.type)
                                /\ q \in failed' => Stage(m.type) < rnd'[q]
    <3>1. m \in store[q] /\ rnd'[q] = rnd[q] /\ failed' = failed /\ net \subseteq net'
      BY <1>a, <1>0, <2>3
    <3>. QED  BY <3>1 DEF StoreInv
  <2>4. \A q \in Party : \A m \in store'[q] :
          /\ m.to = q
          /\ m.from # q => m \in net'
          /\ m.from = q => /\ m.val = "good"
                           /\ Rank(q)' >= Stage(m.type)
                           /\ q \in failed' => Stage(m.type) < rnd'[q]
    BY <1>a, <1>0, <1>3, <2>1, <2>2, <2>3
  <2>. QED  BY <2>4 DEF StoreInv, Rank
<1>8. OkInv'
  BY <1>0 DEF OkInv
<1>9. PastInv'
  <2>1. ASSUME NEW t \in MessageType, Stage(t) < Rank(p)'
        PROVE  /\ Heard(store'[p], t) = Party
               /\ \A m \in store'[p] : m.type = t => m.val = "good"
    <3>1. Stage(t) <= rnd[p]
      BY <1>0, <1>3, <2>1 DEF Stage
    <3>2. /\ store[p] \cup X \subseteq store'[p] /\ store'[p] \subseteq Message
          /\ \A m \in store'[p] \ (store[p] \cup X) : Stage(m.type) = rnd[p] + 1
      BY <1>0, <1>1, <1>2 DEF TypeOK
    <3>. QED  BY <1>a, <3>1, <3>2, PastGrows
  <2>2. ASSUME NEW q \in Party \ {p}, NEW t \in MessageType, Stage(t) < Rank(q)'
        PROVE  /\ Heard(store'[q], t) = Party
               /\ q \notin failed' => \A m \in store'[q] : m.type = t => m.val = "good"
    BY <1>a, <1>0, <1>3, <2>2 DEF PastInv
  <2>3. \A q \in Party, t \in MessageType : Stage(t) < Rank(q)' =>
          /\ Heard(store'[q], t) = Party
          /\ q \notin failed' => \A m \in store'[q] : m.type = t => m.val = "good"
    BY <2>1, <2>2
  <2>. QED  BY <2>3 DEF PastInv, Heard, Stage
<1>. QED  BY <1>2, <1>4, <1>5, <1>6, <1>7, <1>8, <1>9

\* The invariant holds in every behaviour.
LEMMA Invariance == Spec => []IInv
<1>1. Init => IInv
  <2> SUFFICES ASSUME Init PROVE IInv
    OBVIOUS
  <2>1. TypeOK
    BY DEF Init, EngineInit, TypeOK
  <2>2. PhaseInv /\ NetInv /\ UniqueInv /\ StoreInv /\ OkInv
    BY DEF Init, EngineInit, PhaseInv, NetInv, UniqueInv, StoreInv, OkInv
  <2>3. PastInv
    BY DEF Init, EngineInit, PastInv, Rank, Stage
  <2>. QED  BY <2>1, <2>2, <2>3 DEF IInv
<1>2. IInv /\ [Next]_vars => IInv'
  <2>1. ASSUME IInv, Next PROVE IInv'
    BY <2>1, NextCases, RestingIInv, QuietIInv, SendingIInv
  <2>2. ASSUME IInv, UNCHANGED vars PROVE IInv'
    BY <2>2
    DEF vars, engine, IInv, TypeOK, PhaseInv, NetInv, UniqueInv, StoreInv, OkInv, PastInv, Rank
  <2>. QED  BY <2>1, <2>2
<1>. QED  BY <1>1, <1>2, PTL DEF Spec

-----------------------------------------------------------------------------
\* The state of the engine keeps its types; the end channel is used at most once.
THEOREM TypeCorrect == Spec => []TypeOK
<1>1. IInv => TypeOK
  BY DEF IInv
<1>. QED  BY <1>1, Invariance, PTL

\* round4.Start hands a key over once, and only when everybody's messages of
\* every round have been verified.
THEOREM KeyIsSavedOnce == Spec => []SavedOnceAndVerified
<1>1. ASSUME IInv, NEW p \in Party, saved[p] > 0
      PROVE  /\ saved[p] = 1
             /\ \A t \in MessageType : Heard(store[p], t) = Party
             /\ ~SomeBad(store[p], MessageType)
  <2>1. saved[p] = 1 /\ Rank(p) = 4 /\ p \notin failed
    BY <1>1 DEF IInv, TypeOK, PhaseInv, Rank
  <2>2. \A t \in MessageType : Stage(t) < Rank(p)
    BY <2>1 DEF Stage
  <2>3. \A t \in MessageType : /\ Heard(store[p], t) = Party
                               /\ \A m \in store[p] : m.type = t => m.val = "good"
    BY <1>1, <2>1, <2>2 DEF IInv, PastInv
  <2>. QED  BY <2>1, <2>3 DEF SomeBad
<1>2. IInv => SavedOnceAndVerified
  BY <1>1 DEF SavedOnceAndVerified
<1>. QED  BY <1>2, Invariance, PTL

\* An honest party has a key only if nobody has failed or will fail.
THEOREM KeyMeansNobodyFails == Spec => []SavedMeansNobodyFailed
<1>1. ASSUME IInv, NEW p \in Party \ Faulty, saved[p] > 0, NEW q \in failed PROVE FALSE
  <2>. USE <1>1 DEF IInv
  <2>0. q \in Party /\ Rank(p) = 4 /\ p \notin failed /\ p # q
    BY DEF TypeOK, PhaseInv, Rank
  <2>1. /\ Heard(store[p], "r3") = Party
        /\ \A m \in store[p] : m.type = "r3" => m.val = "good"
    BY <2>0 DEF PastInv, Stage, MessageType
  <2>2. PICK x \in store[p] : x.type = "r3" /\ x.from = q
    BY <2>0, <2>1 DEF Heard
  <2>3. x \in net
    BY <2>0, <2>2 DEF StoreInv
  <2>4. rnd[q] = 4 /\ saved[q] = 0
    BY <2>0, <2>2, <2>3 DEF NetInv, PhaseInv, TypeOK, Stage
  <2>5. PICK m \in store[q] : m.type = "r3" /\ m.val = "bad"
    BY <2>0, <2>4 DEF PhaseInv
  <2>6. m \in net /\ m.from \in Party /\ m.from # p
    BY <2>0, <2>5 DEF StoreInv, NetInv, TypeOK, Message
  <2>7. PICK y \in store[p] : y.type = "r3" /\ y.from = m.from
    BY <2>1, <2>6 DEF Heard
  <2>8. y \in net /\ y.val = "good"
    BY <2>0, <2>1, <2>6, <2>7 DEF StoreInv
  <2>. QED  BY <2>5, <2>6, <2>7, <2>8 DEF UniqueInv
<1>2. IInv => SavedMeansNobodyFailed
  BY <1>1 DEF SavedMeansNobodyFailed
<1>. QED  BY <1>2, Invariance, PTL

\* A party that failed stays in its round, sends nothing and delivers no key.
THEOREM FailureIsFinal == Spec => FailedIsFinal
<1>1. ASSUME IInv, Next, NEW q \in failed
      PROVE  /\ rnd'[q] = rnd[q]
             /\ saved'[q] = saved[q]
             /\ \A m \in net' \ net : m.from # q
  <2>0. q \in Party
    BY <1>1 DEF IInv, TypeOK
  <2>1. PICK p \in Party, X \in SUBSET net :
          \/ Resting(p, X) \/ Failing(p, X) \/ Saving(p, X) \/ \E M : Sending(p, X, M)
    BY <1>1, NextCases
  <2>2. CASE Resting(p, X)
    <3>1. rnd[q] = 4 => ok[q] # Party
      BY <1>1, <2>0 DEF IInv, PhaseInv
    <3>. QED  BY <1>1, <2>0, <2>2, <3>1 DEF Resting, IInv, TypeOK
  <2>3. CASE Failing(p, X) \/ Saving(p, X)
    BY <1>1, <2>0, <2>3 DEF Failing, Saving, Admitted, Moving, IInv, TypeOK
  <2>4. ASSUME NEW M, Sending(p, X, M)
        PROVE  /\ rnd'[q] = rnd[q]
               /\ saved'[q] = saved[q]
               /\ \A m \in net' \ net : m.from # q
    <3>1. q # p /\ rnd' = [rnd EXCEPT ![p] = @ + 1] /\ saved' = saved
      BY <1>1, <2>4 DEF Sending, Admitted, Moving
    <3>2. \A m \in net' \ net : m.from = p
      BY <2>4 DEF Sending, Outgoing
    <3>. QED  BY <2>0, <3>1, <3>2 DEF IInv, TypeOK
  <2>. QED  BY <2>1, <2>2, <2>3, <2>4
<1>2. IInv /\ [Next]_vars =>
        [\A p \in failed : /\ rnd'[p] = rnd[p]
                           /\ saved'[p] = saved[p]
                           /\ \A m \in net' \ net : m.from # p]_vars
  BY <1>1
<1>. QED  BY <1>2, Invariance, PTL DEF Spec, FailedIsFinal

\* The rounds are a barrier: Start and the passes of BaseUpdate that start a
\* round map to Enter, all the others stutter.
THEOREM BarrierRefinement == Spec => ImplementsBarrier
<1> DEFINE round == [p \in Party |-> IF saved[p] > 0 THEN 4 ELSE rnd[p]]
<1>1. Init => Abstract!Init
  BY DEF Init, EngineInit, Abstract!Init
<1>2. ASSUME IInv, Next PROVE Abstract!Next \/ round' = round
  <2>. USE <1>2 DEF IInv
  <2>1. PICK p \in Party, X \in SUBSET net :
          \/ Resting(p, X) \/ Failing(p, X) \/ Saving(p, X) \/ \E M : Sending(p, X, M)
    BY NextCases
  <2>2. CASE Resting(p, X)
    <3>1. rnd[p] = 4 /\ ok[p] = Party => saved[p] > 0
      BY DEF PhaseInv, TypeOK
    <3>2. \A q \in Party : round'[q] = round[q]
      BY <2>2, <3>1 DEF Resting, TypeOK
    <3>. QED  BY <3>2
  <2>3. CASE Failing(p, X) \/ Saving(p, X) \/ \E M : Sending(p, X, M)
    <3>1. Admitted(p, X) /\ rnd' = [rnd EXCEPT ![p] = @ + 1]
      BY <2>3 DEF Failing, Saving, Sending, Moving
    <3>2. rnd[p] \in 0 .. 3 /\ saved[p] = 0 /\ X \subseteq net
      BY <3>1 DEF Admitted, PhaseInv
    <3>3. saved' = saved \/ (saved' = [saved EXCEPT ![p] = 1] /\ rnd[p] = 3)
      BY <2>3 DEF Failing, Saving, Sending
    <3>4. \A q \in Party : round'[q] = IF q = p THEN round[p] + 1 ELSE round[q]
      BY <3>1, <3>2, <3>3 DEF TypeOK
    <3>5. ASSUME NEW q \in Party PROVE round[q] >= round[p]
      <4>1. CASE rnd[p] = 0 \/ q = p
        BY <3>2, <4>1 DEF TypeOK
      <4>2. CASE rnd[p] \in 1 .. 3 /\ q # p
        <5>1. PICK t \in MessageType : Stage(t) = rnd[p]
          BY <4>2 DEF Stage, MessageType
        <5>2. PICK m \in store[p] \cup X : m.type = t /\ m.from = q
          BY <3>1, <5>1 DEF Admitted, Heard
        <5>3. m \in net
          BY <3>2, <4>2, <5>2 DEF StoreInv
        <5>. QED  BY <3>2, <5>1, <5>2, <5>3 DEF NetInv, Rank
      <4>. QED  BY <3>2, <4>1, <4>2
    <3>6. round[p] < 4
      BY <3>2
    <3>7. round' = [round EXCEPT ![p] = @ + 1]
      BY <3>4, Zenon
    <3>. QED  BY <3>5, <3>6, <3>7, Zenon DEF Abstract!Next, Abstract!Enter
  <2>. QED  BY <2>1, <2>2, <2>3
<1>3. ASSUME IInv, UNCHANGED vars PROVE round' = round
  BY <1>3 DEF vars, engine
<1>4. IInv /\ [Next]_vars => [Abstract!Next]_round
  BY <1>2, <1>3
<1>. QED
  BY <1>1, <1>4, Invariance, PTL DEF Spec, ImplementsBarrier, Abstract!Spec
=============================================================================
