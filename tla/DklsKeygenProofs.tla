--------------------------- MODULE DklsKeygenProofs ---------------------------
(***************************************************************************)
(* The echo phase of dklstss keygen binds the views of all honest parties, *)
(* for every number of parties, of equivocating dealers and of liars.      *)
(***************************************************************************)
EXTENDS DklsKeygen, FiniteSetTheorems, TLAPS

\* What a message says about its sender.
NetInv ==
  \A m \in net :
    /\ m.from \in Party
    /\ m.type = "r1bc" => m.val \in Commitment /\ (m.from \notin Equivocator => m.val = Own)
    /\ m.type = "r1uc" => m.val \in Commitment
    /\ m.type = "echo" /\ m.from \notin Liar =>
         "r1bc" \in ran[m.from] /\ m.val = Echo(m.from)
    /\ m.type = "r2" => m.from \in passed

\* A collector expects every other party, and is connected at its stage.
WantInv ==
  \A p \in Party, t \in Phase, q \in Party :
    <<t, q>> \in want[p] =>
      /\ \A d \in Others(p) : <<t, d>> \in want[p]
      /\ t = "echo" => {"r1bc", "r1uc"} \subseteq ran[p]
      /\ t = "r2" => p \in passed /\ Rejected(p) = {}

\* A slice, once stored, is complete and is not stored again.
StoreInv ==
  /\ DOMAIN r1Bcasts = Party
  /\ DOMAIN r1Unicasts = Party
  /\ \A p \in Party :
       /\ r1Bcasts[p] # None => "r1bc" \in ran[p]
       /\ r1Unicasts[p] # None => "r1uc" \in ran[p]
       /\ "r1bc" \in ran[p] =>
            /\ r1Bcasts[p] \in [Others(p) -> Commitment]
            /\ \A d \in Others(p) \ Equivocator : r1Bcasts[p][d] = Own
       /\ "r1uc" \in ran[p] => r1Unicasts[p] \in [Others(p) -> Commitment]

PassedInv ==
  \A p \in passed :
    /\ {"r1bc", "r1uc"} \subseteq ran[p]
    /\ p \in Honest => \A q \in Honest : "r1bc" \in ran[q] /\ View(q) = View(p)

DoneInv ==
  \A p \in Party : done[p] # None =>
    /\ p \in passed
    /\ Others(p) \subseteq passed
    /\ Rejected(p) = {}
    /\ done[p] = View(p)

IInv == TypeOK /\ NetInv /\ WantInv /\ StoreInv /\ PassedInv /\ DoneInv

\* Every peer's payload in a complete collector is one of its messages.
LEMMA PayloadFromNet ==
  ASSUME TypeOK, WantInv, NEW p \in Party, NEW t \in Phase, Collected(p, t)
  PROVE  /\ \A d \in Others(p) : <<t, d>> \in want[p]
         /\ \A d \in Others(p) : \E m \in net :
              m.type = t /\ m.from = d /\ Payloads(p, t)[d] = m.val
<1>1. want[p] \subseteq Phase \X Party
  BY DEF TypeOK, SlotSet
<1>2. PICK w \in want[p] : w[1] = t
  BY DEF Collected, Expected
<1>3. <<t, w[2]>> \in want[p] /\ w[2] \in Party
  BY <1>1, <1>2
<1>4. \A d \in Others(p) : <<t, d>> \in want[p]
  BY <1>3 DEF WantInv
<1>a. \A d : <<t, d>> \in want[p] => d \in Expected(p, t)
  BY DEF Expected
<1>5. \A d \in Others(p) : d \in Expected(p, t)
  BY <1>4, <1>a, Zenon
<1>6. ASSUME NEW d \in Others(p)
      PROVE  \E m \in net : m.type = t /\ m.from = d /\ Payloads(p, t)[d] = m.val
  <2>1. \E m \in Of(p, t) : m.from = d
    BY <1>5 DEF Collected, Senders
  <2>. DEFINE m == CHOOSE m \in Of(p, t) : m.from = d
  <2>2. m \in Of(p, t) /\ m.from = d
    BY <2>1
  <2>3. Payloads(p, t)[d] = m.val
    BY DEF Payloads
  <2>. QED  BY <2>2, <2>3, Zenon DEF Of, TypeOK
<1>. QED  BY <1>4, <1>6

LEMMA ConnectSlots ==
  ASSUME NEW W \in SlotSet, NEW t \in Phase, NEW S \in SUBSET Party
  PROVE  Connect(W, t, S) \in SlotSet
BY DEF Connect, SlotSet

\* Echoes that agree with p's view report, on every dealer but their sender,
\* the commitments p holds.
LEMMA AgreementMeansEqual ==
  ASSUME NEW p \in Party, NEW q \in Others(p), NEW echoes, NEW view,
         DOMAIN view = Party, q \in DOMAIN echoes,
         EchoesAgree(p, echoes, Digests(view), Party)
  PROVE  \A d \in Others(q) : d \in DOMAIN echoes[q] /\ echoes[q][d] = <<d, view[d]>>
<1>1. Culprits(p, q, echoes[q], Digests(view), Party) = {}
  BY DEF EchoesAgree
<1>2. ~Incomplete(q, echoes[q], Party)
  BY <1>1 DEF Culprits
<1>3. Odd(q, echoes[q], Digests(view)) = {}
  BY <1>1, <1>2 DEF Culprits
<1>4. \A d \in Others(q) : d \in DOMAIN echoes[q]
  BY <1>2 DEF Incomplete, Others
<1>5. \A d \in Others(q) : echoes[q][d] = Digests(view)[d]
  BY <1>3, <1>4 DEF Odd
<1>. QED  BY <1>4, <1>5, Zenon DEF Digests, commitDigest, Others

LEMMA InitIInv == Init => IInv
<1>. SUFFICES ASSUME Init PROVE IInv
  OBVIOUS
<1>. USE DEF Init, RuntimeInit
<1>1. TypeOK
  BY DEF TypeOK, SlotSet
<1>. QED  BY <1>1 DEF IInv, NetInv, WantInv, StoreInv, PassedInv, DoneInv

\* Steps that store no slice, accept no echoes and deliver no key.
LEMMA Frame ==
  ASSUME IInv, UNCHANGED <<r1Bcasts, r1Unicasts, passed, done>>,
         \A p \in Party : ran[p] \subseteq ran'[p] /\ ran'[p] \cap {"r1bc", "r1uc"} \subseteq ran[p]
  PROVE  StoreInv' /\ PassedInv' /\ DoneInv'
<1>1. \A p : View(p)' = View(p) /\ Rejected(p)' = Rejected(p)
  BY DEF View, Rejected
<1>2. StoreInv'
  BY DEF IInv, StoreInv
<1>3. PassedInv'
  BY <1>1 DEF IInv, PassedInv, Honest, TypeOK
<1>4. DoneInv'
  BY <1>1 DEF IInv, DoneInv
<1>. QED  BY <1>2, <1>3, <1>4

LEMMA Round1Step ==
  ASSUME IInv, NEW p \in Party, Round1(p)
  PROVE  IInv'
<1>. USE KeygenAssumption DEF IInv
<1>1. PICK vs \in Sends(p, Own, Commitment, Equivocator),
           shares \in Sends(p, Own, Commitment, Equivocator) :
        net' = net \cup ToEach("r1bc", p, vs) \cup ToEach("r1uc", p, shares)
  BY DEF Round1
<1>2. /\ want' = [want EXCEPT ![p] = Connect(Connect(@, "r1bc", Others(p)), "r1uc", Others(p))]
      /\ started' = started \cup {p}
      /\ UNCHANGED <<got, ran, cancelled, done, failed, r1Bcasts, r1Unicasts, passed, culprit>>
  BY DEF Round1
<1>3. StoreInv' /\ PassedInv' /\ DoneInv'
  BY <1>2, Frame
<1>. DEFINE W1 == Connect(want[p], "r1bc", Others(p))
            W2 == Connect(W1, "r1uc", Others(p))
<1>4. want[p] \in SlotSet /\ "r1bc" \in Phase /\ "r1uc" \in Phase /\ Others(p) \in SUBSET Party
  BY Zenon DEF TypeOK, Phase, Others
<1>5. \A u, q : <<u, q>> \in W1 <=> \/ u = "r1bc" /\ q \in Others(p)
                                    \/ u # "r1bc" /\ <<u, q>> \in want[p]
  BY DEF Connect
<1>a. W1 \in SlotSet
  BY <1>4, ConnectSlots
<1>. HIDE DEF W1
<1>6. \A u, q : <<u, q>> \in W2 <=> \/ u = "r1uc" /\ q \in Others(p)
                                    \/ u # "r1uc" /\ <<u, q>> \in W1
  BY DEF Connect
<1>b. W2 \in SlotSet
  BY <1>4, <1>a, ConnectSlots
<1>. HIDE DEF W2
<1>7. want' = [want EXCEPT ![p] = W2]
  BY <1>2 DEF W1, W2
<1>8. net \subseteq net'
  BY <1>1
<1>9. TypeOK'
  BY <1>2, <1>b, <1>7, <1>8 DEF TypeOK
<1>10. WantInv'
  <2>1. \A q \in Party : Rejected(q)' = Rejected(q)
    BY <1>2 DEF Rejected
  <2>2. \A q \in Party \ {p} : want'[q] = want[q]
    BY <1>7 DEF TypeOK
  <2>3. want'[p] = W2
    BY <1>7 DEF TypeOK
  <2>. QED  BY <1>2, <1>5, <1>6, <2>1, <2>2, <2>3 DEF WantInv
<1>11. NetInv'
  <2>1. \A m \in ToEach("r1bc", p, vs) :
          m.type = "r1bc" /\ m.from = p /\ m.val \in Commitment /\ (p \notin Equivocator => m.val = Own)
    BY DEF ToEach, Sends
  <2>2. \A m \in ToEach("r1uc", p, shares) :
          m.type = "r1uc" /\ m.from = p /\ m.val \in Commitment
    BY DEF ToEach, Sends
  <2>3. \A q : Echo(q)' = Echo(q)
    BY <1>2 DEF Echo
  <2>. QED  BY <1>1, <1>2, <2>1, <2>2, <2>3 DEF NetInv
<1>. QED  BY <1>3, <1>9, <1>10, <1>11

LEMMA RuntimeStep ==
  ASSUME IInv, NEW p \in Party, Deliver(p) \/ CancelContext(p)
  PROVE  IInv'
<1>. USE MayCancelAssumption DEF IInv
<1>1. UNCHANGED <<net, want, ran, done, failed, keygen>>
  BY Zenon DEF Deliver, Receive, CancelContext, Cancel
<1>2. StoreInv' /\ PassedInv' /\ DoneInv'
  BY <1>1, Frame DEF keygen
<1>3. TypeOK'
  <2>1. got' \in [Party -> SUBSET net]
    <3>1. CASE Deliver(p)
      <4>1. PICK m \in net : got' = [got EXCEPT ![p] = @ \cup {m}]
        BY <3>1, Zenon DEF Deliver, Receive
      <4>. QED  BY <4>1 DEF TypeOK
    <3>2. CASE CancelContext(p)
      BY <3>2 DEF TypeOK, CancelContext, Cancel
    <3>. QED  BY <3>1, <3>2
  <2>2. cancelled' \subseteq MayCancel
    BY Zenon DEF TypeOK, Deliver, Receive, CancelContext, Cancel
  <2>. QED  BY <1>1, <2>1, <2>2 DEF TypeOK, keygen
<1>4. NetInv' /\ WantInv'
  BY <1>1 DEF NetInv, WantInv, Echo, Rejected, keygen
<1>. QED  BY <1>2, <1>3, <1>4

\* A callback of round 1: the slice it stores is complete, and only the second
\* callback echoes.
LEMMA OnR1Step ==
  ASSUME IInv, NEW p \in Party, NEW t \in {"r1bc", "r1uc"}, OnR1(p, t)
  PROVE  IInv'
<1>. USE KeygenAssumption DEF IInv
<1>1. /\ t \notin ran[p]
      /\ Collected(p, t)
      /\ ran' = [ran EXCEPT ![p] = @ \cup {t}]
      /\ UNCHANGED <<got, cancelled, done, started, passed, culprit>>
  BY DEF OnR1
<1>2. /\ t = "r1bc" => r1Unicasts' = r1Unicasts /\ r1Bcasts' = [r1Bcasts EXCEPT ![p] = Payloads(p, t)]
      /\ t = "r1uc" => r1Bcasts' = r1Bcasts /\ r1Unicasts' = [r1Unicasts EXCEPT ![p] = Payloads(p, t)]
  BY DEF OnR1
<1>3. t \in Phase
  BY DEF Phase
<1>4. p \notin passed
  BY <1>1 DEF PassedInv
<1>5. Payloads(p, t) \in [Others(p) -> Commitment]
  <2>1. \A d \in Others(p) : Payloads(p, t)[d] \in Commitment
    BY <1>1, <1>3, PayloadFromNet DEF NetInv
  <2>. QED  BY <2>1 DEF Payloads
<1>6. t = "r1bc" => \A d \in Others(p) \ Equivocator : Payloads(p, t)[d] = Own
  BY <1>1, <1>3, PayloadFromNet DEF NetInv
<1>7. StoreInv'
  <2>. DEFINE P == Payloads(p, t)
  <2>1. P \in [Others(p) -> Commitment] /\ (t = "r1bc" => \A d \in Others(p) \ Equivocator : P[d] = Own)
    BY <1>5, <1>6
  <2>2. /\ t = "r1bc" => r1Unicasts' = r1Unicasts /\ r1Bcasts' = [r1Bcasts EXCEPT ![p] = P]
        /\ t = "r1uc" => r1Bcasts' = r1Bcasts /\ r1Unicasts' = [r1Unicasts EXCEPT ![p] = P]
    BY <1>2
  <2>. HIDE DEF P
  <2>. QED  BY <1>1, <2>1, <2>2 DEF StoreInv, TypeOK
<1>8. \A q \in Party : "r1bc" \in ran[q] => r1Bcasts'[q] = r1Bcasts[q]
  BY <1>1, <1>2 DEF StoreInv
<1>9. \A q \in Party : {"r1bc", "r1uc"} \subseteq ran[q] =>
        r1Bcasts'[q] = r1Bcasts[q] /\ r1Unicasts'[q] = r1Unicasts[q]
  BY <1>1, <1>2 DEF StoreInv
<1>10. \A q \in Party : "r1bc" \in ran[q] => View(q)' = View(q) /\ Echo(q)' = Echo(q)
  BY <1>8 DEF View, Echo
<1>11. \A q \in passed : Rejected(q)' = Rejected(q)
  BY <1>9 DEF Rejected, PassedInv, TypeOK
<1>12. \A q \in Party : ran[q] \subseteq ran'[q]
  BY <1>1 DEF TypeOK
<1>13. PassedInv'
  BY <1>1, <1>10, <1>12 DEF PassedInv, Honest, TypeOK
<1>14. DoneInv'
  BY <1>1, <1>10, <1>11 DEF DoneInv, PassedInv, TypeOK
<1>15. /\ UNCHANGED net \/ \E echo \in Sends(p, Echo(p)', Lies \cup {Echo(p)'}, Liar) :
                             net' = net \cup ToEach("echo", p, echo)
       /\ UNCHANGED want \/ want' = [want EXCEPT ![p] = Connect(@, "echo", Others(p))]
       /\ Joined(p) \/ UNCHANGED <<net, want>>
       /\ failed' \in {failed, failed \cup {p}}
  BY Zenon DEF OnR1, StartEchoPhase, Fail
<1>16. Joined(p) => {"r1bc", "r1uc"} \subseteq ran'[p]
  BY <1>1, <1>7 DEF Joined, StoreInv
<1>17. NetInv'
  <2>1. ASSUME NEW m \in net
        PROVE  m.type = "echo" /\ m.from \notin Liar =>
                 "r1bc" \in ran'[m.from] /\ m.val = Echo(m.from)'
    BY <1>10, <1>12 DEF NetInv
  <2>2. CASE UNCHANGED net
    BY <1>1, <2>1, <2>2 DEF NetInv
  <2>3. CASE ~UNCHANGED net
    <3>1. PICK echo \in Sends(p, Echo(p)', Lies \cup {Echo(p)'}, Liar) :
            net' = net \cup ToEach("echo", p, echo)
      BY <1>15, <2>3
    <3>2. "r1bc" \in ran'[p]
      BY <1>15, <1>16, <2>3
    <3>3. \A m \in ToEach("echo", p, echo) :
            m.type = "echo" /\ m.from = p /\ (p \notin Liar => m.val = Echo(p)')
      BY DEF ToEach, Sends
    <3>. QED  BY <1>1, <2>1, <3>1, <3>2, <3>3 DEF NetInv
  <2>. QED  BY <2>2, <2>3
<1>. DEFINE W == Connect(want[p], "echo", Others(p))
<1>18. \A u, q : <<u, q>> \in W <=> \/ u = "echo" /\ q \in Others(p)
                                    \/ u # "echo" /\ <<u, q>> \in want[p]
  BY DEF Connect
<1>19. W \in SlotSet
  BY ConnectSlots, Zenon DEF TypeOK, Phase, Others
<1>20. want' = want \/ want' = [want EXCEPT ![p] = W]
  BY <1>15
<1>. HIDE DEF W
<1>21. WantInv'
  <2>1. \A q \in Party \ {p} : want'[q] = want[q]
    BY <1>20 DEF TypeOK
  <2>2. want'[p] = want[p] \/ (want'[p] = W /\ {"r1bc", "r1uc"} \subseteq ran'[p])
    BY <1>15, <1>16, <1>20 DEF TypeOK
  <2>3. ASSUME NEW q \in Party, NEW u \in Phase, NEW r \in Party, <<u, r>> \in want'[q]
        PROVE  /\ \A d \in Others(q) : <<u, d>> \in want'[q]
               /\ u = "echo" => {"r1bc", "r1uc"} \subseteq ran'[q]
               /\ u = "r2" => q \in passed' /\ Rejected(q)' = {}
    <3>1. CASE <<u, r>> \in want[q]
      <4>1. /\ \A d \in Others(q) : <<u, d>> \in want[q]
            /\ u = "echo" => {"r1bc", "r1uc"} \subseteq ran[q]
            /\ u = "r2" => q \in passed /\ Rejected(q) = {}
        BY <3>1 DEF WantInv
      <4>. QED  BY <1>1, <1>11, <1>12, <1>18, <2>1, <2>2, <4>1
    <3>2. CASE <<u, r>> \notin want[q]
      BY <1>18, <2>1, <2>2, <2>3, <3>2, ZenonT(60)
    <3>. QED  BY <3>1, <3>2
  <2>. QED  BY <2>3 DEF WantInv
<1>22. TypeOK'
  <2>1. net \subseteq net'
    BY <1>15
  <2>2. want' \in [Party -> SlotSet]
    BY <1>19, <1>20 DEF TypeOK
  <2>3. ran' \in [Party -> SUBSET Phase]
    BY <1>1, <1>3 DEF TypeOK
  <2>4. \A q \in Party : /\ r1Bcasts'[q] \in [Others(q) -> Commitment] \cup {None}
                         /\ r1Unicasts'[q] \in [Others(q) -> Commitment] \cup {None}
    BY <1>7 DEF StoreInv
  <2>. QED  BY <1>1, <1>15, <2>1, <2>2, <2>3, <2>4 DEF TypeOK
<1>. QED  BY <1>7, <1>13, <1>14, <1>17, <1>21, <1>22

\* The heart of the proof: echoes that agree make two honest views equal.
LEMMA EchoesBind ==
  ASSUME IInv, NEW p \in Honest, NEW q \in Honest, Collected(p, "echo"),
         EchoesAgree(p, Payloads(p, "echo"), Digests(View(p)), Party),
         "r1bc" \in ran[p]
  PROVE  "r1bc" \in ran[q] /\ View(q) = View(p)
<1>. USE DEF IInv
<1>0. p \in Party /\ q \in Party /\ q \notin Liar /\ q \notin Equivocator /\ p \notin Equivocator
  BY DEF Honest
<1>1. CASE q = p
  BY <1>1
<1>2. CASE q # p
  <2>1. q \in Others(p) /\ p \in Others(q) /\ "echo" \in Phase
    BY <1>0, <1>2 DEF Others, Phase
  <2>2. PICK m \in net : m.type = "echo" /\ m.from = q /\ Payloads(p, "echo")[q] = m.val
    BY <1>0, <2>1, PayloadFromNet
  <2>3. "r1bc" \in ran[q] /\ m.val = Echo(q)
    BY <1>0, <2>2 DEF NetInv
  <2>4. DOMAIN View(p) = Party /\ q \in DOMAIN Payloads(p, "echo")
    BY <2>1 DEF View, Payloads
  <2>5. \A d \in Others(q) : Echo(q)[d] = <<d, View(p)[d]>>
    BY <1>0, <2>1, <2>2, <2>3, <2>4, AgreementMeansEqual
  <2>6. \A d \in Others(q) : Echo(q)[d] = <<d, r1Bcasts[q][d]>>
    BY DEF Echo, Digests, commitDigest
  <2>7. \A d \in Others(q) : r1Bcasts[q][d] = View(p)[d]
    <3>1. ASSUME NEW d \in Others(q) PROVE r1Bcasts[q][d] = View(p)[d]
      <4>1. <<d, r1Bcasts[q][d]>> = <<d, View(p)[d]>>
        BY <2>5, <2>6
      <4>. QED  BY <4>1
    <3>. QED  BY <3>1
  <2>8. r1Bcasts[p][q] = Own
    BY <1>0, <2>1 DEF StoreInv
  <2>9. \A d \in Party : View(q)[d] = View(p)[d]
    <3>1. ASSUME NEW d \in Party PROVE View(q)[d] = View(p)[d]
      <4>1. CASE d = q
        BY <1>2, <2>8, <4>1 DEF View
      <4>2. CASE d # q
        BY <2>7, <4>2 DEF View, Others
      <4>. QED  BY <4>1, <4>2
    <3>. QED  BY <3>1, Zenon
  <2>. QED  BY <2>3, <2>9 DEF View
<1>. QED  BY <1>1, <1>2

\* The echo collector is connected when both halves of round 1 are stored.
LEMMA EchoAfterRound1 ==
  ASSUME IInv, NEW p \in Party, Collected(p, "echo")
  PROVE  {"r1bc", "r1uc"} \subseteq ran[p]
<1>1. want[p] \subseteq Phase \X Party
  BY DEF IInv, TypeOK, SlotSet
<1>2. PICK w \in want[p] : w[1] = "echo"
  BY DEF Collected, Expected
<1>3. <<"echo", w[2]>> \in want[p] /\ w[2] \in Party /\ "echo" \in Phase
  BY <1>1, <1>2 DEF Phase
<1>. QED  BY <1>3 DEF IInv, WantInv

LEMMA OnEchoStep ==
  ASSUME IInv, NEW p \in Party, OnEcho(p)
  PROVE  IInv'
<1>. USE KeygenAssumption DEF IInv
<1>1. /\ Collected(p, "echo")
      /\ ran' = [ran EXCEPT ![p] = @ \cup {"echo"}]
      /\ UNCHANGED <<got, cancelled, done, started, r1Bcasts, r1Unicasts>>
  BY DEF OnEcho
<1>2. \A q \in Party : ran[q] \subseteq ran'[q] /\ ran'[q] \cap {"r1bc", "r1uc"} \subseteq ran[q]
  BY <1>1 DEF TypeOK
<1>3. /\ \A q : View(q)' = View(q) /\ Echo(q)' = Echo(q) /\ Rejected(q)' = Rejected(q)
      /\ ran' \in [Party -> SUBSET Phase]
  BY <1>1 DEF View, Echo, Rejected, TypeOK, Phase
<1>4. CASE UNCHANGED <<net, want, passed>> /\ Fail(p)
  <2>1. StoreInv' /\ PassedInv' /\ DoneInv'
    BY <1>1, <1>2, <1>4, Frame
  <2>2. culprit' \in [Party -> Party \cup {None}]
    <3>1. CASE UNCHANGED culprit
      BY <3>1 DEF TypeOK
    <3>2. CASE ~UNCHANGED culprit
      <4>1. PICK c \in EchoCulprits(p, Payloads(p, "echo"), Digests(View(p)), Party) :
              culprit' = [culprit EXCEPT ![p] = c]
        BY <3>2 DEF OnEcho
      <4>2. PICK e \in DOMAIN Payloads(p, "echo") :
              c \in Culprits(p, e, Payloads(p, "echo")[e], Digests(View(p)), Party)
        BY <4>1 DEF EchoCulprits
      <4>3. e \in Party
        BY <4>2 DEF Payloads, Others
      <4>4. DOMAIN Digests(View(p)) = Party
        BY DEF Digests, View
      <4>5. \A d : Blamed(p, e, d, Digests(View(p))) \in Party
        BY <4>3, <4>4 DEF Blamed
      <4>6. c \in Party
        BY <4>2, <4>3, <4>5, Zenon DEF Culprits
      <4>. QED  BY <4>1, <4>6 DEF TypeOK
    <3>. QED  BY <3>1, <3>2, ZenonT(60)
  <2>3. TypeOK'
    BY <1>1, <1>3, <1>4, <2>2 DEF TypeOK, Fail
  <2>4. NetInv' /\ WantInv'
    BY <1>2, <1>3, <1>4 DEF NetInv, WantInv
  <2>. QED  BY <2>1, <2>3, <2>4
<1>5. CASE /\ EchoesAgree(p, Payloads(p, "echo"), Digests(View(p)), Party)
           /\ passed' = passed \cup {p}
           /\ Round2(p)
           /\ UNCHANGED culprit
  <2>1. {"r1bc", "r1uc"} \subseteq ran[p]
    BY <1>1, EchoAfterRound1, ZenonT(60)
  <2>2. PassedInv'
    <3>1. p \in Honest => \A q \in Honest : "r1bc" \in ran[q] /\ View(q) = View(p)
      BY <1>1, <1>5, <2>1, EchoesBind
    <3>. QED  BY <1>2, <1>3, <1>5, <2>1, <3>1 DEF PassedInv, Honest, TypeOK
  <2>3. StoreInv'
    BY <1>1, <1>2, Zenon DEF StoreInv
  <2>4. DoneInv'
    BY <1>1, <1>3, <1>5 DEF DoneInv
  <2>5. /\ net \subseteq net'
        /\ \A m \in net' \ net : m.type = "r2" /\ m.from = p
    <3>1. PICK answer : \E A : net' = net \cup {m \in ToEach("r2", p, answer) : m.to \in A}
      BY <1>5, Zenon DEF Round2
    <3>2. \A m \in ToEach("r2", p, answer) : m.type = "r2" /\ m.from = p
      BY DEF ToEach
    <3>. QED  BY <3>1, <3>2
  <2>6. NetInv'
    BY <1>2, <1>3, <1>5, <2>5, Zenon DEF NetInv
  <2>. DEFINE W == Connect(want[p], "r2", Others(p))
  <2>7. \A u, q : <<u, q>> \in W <=> \/ u = "r2" /\ q \in Others(p)
                                     \/ u # "r2" /\ <<u, q>> \in want[p]
    BY DEF Connect
  <2>8. W \in SlotSet
    BY ConnectSlots, Zenon DEF TypeOK, Phase, Others
  <2>9. /\ want' = want \/ (want' = [want EXCEPT ![p] = W] /\ Rejected(p) = {})
        /\ failed' \in {failed, failed \cup {p}}
    BY <1>5, Zenon DEF Round2, Fail
  <2>. HIDE DEF W
  <2>10. WantInv'
    <3>1. \A q \in Party \ {p} : want'[q] = want[q]
      BY <2>9 DEF TypeOK
    <3>2. want'[p] = want[p] \/ (want'[p] = W /\ Rejected(p) = {})
      BY <2>9, Zenon DEF TypeOK
    <3>. QED  BY <1>2, <1>3, <1>5, <2>7, <3>1, <3>2, Zenon DEF WantInv
  <2>11. TypeOK'
    <3>1. want' \in [Party -> SlotSet]
      <4>1. want \in [Party -> SlotSet]
        BY DEF TypeOK
      <4>. QED  BY <2>8, <2>9, <4>1
    <3>. QED  BY <1>1, <1>3, <1>5, <2>5, <2>9, <3>1, Zenon DEF TypeOK
  <2>. QED  BY <2>2, <2>3, <2>4, <2>6, <2>10, <2>11
<1>. QED  BY <1>4, <1>5 DEF OnEcho

LEMMA FinalizeStep ==
  ASSUME IInv, NEW p \in Party, Finalize(p)
  PROVE  IInv'
<1>. USE DEF IInv
<1>1. /\ Collected(p, "r2")
      /\ ran' = [ran EXCEPT ![p] = @ \cup {"r2"}]
      /\ UNCHANGED <<net, want, got, cancelled, keygen>>
      /\ \/ UNCHANGED done /\ Fail(p)
         \/ SendDone(p, View(p)) /\ UNCHANGED failed
  BY Zenon DEF Finalize
<1>2. \A q \in Party : ran[q] \subseteq ran'[q] /\ ran'[q] \cap {"r1bc", "r1uc"} \subseteq ran[q]
  BY <1>1, ZenonT(60) DEF TypeOK
<1>3. /\ \A q : View(q)' = View(q) /\ Echo(q)' = Echo(q) /\ Rejected(q)' = Rejected(q)
      /\ ran' \in [Party -> SUBSET Phase]
      /\ "r2" \in Phase
  BY <1>1 DEF View, Echo, Rejected, TypeOK, Phase, keygen
<1>4. NetInv' /\ WantInv' /\ StoreInv' /\ PassedInv'
  <2>1. NetInv'
    BY <1>1, <1>2, <1>3, Zenon DEF NetInv, keygen
  <2>2. WantInv'
    BY <1>1, <1>2, <1>3, ZenonT(60) DEF WantInv, keygen
  <2>3. StoreInv'
    BY <1>1, <1>2, Zenon DEF StoreInv, keygen
  <2>4. PassedInv'
    BY <1>1, <1>2, <1>3 DEF PassedInv, keygen, Honest
  <2>. QED  BY <2>1, <2>2, <2>3, <2>4
<1>5. p \in passed /\ Rejected(p) = {}
  <2>1. want[p] \subseteq Phase \X Party
    BY DEF TypeOK, SlotSet
  <2>2. PICK w \in want[p] : w[1] = "r2"
    BY <1>1 DEF Collected, Expected
  <2>3. <<"r2", w[2]>> \in want[p] /\ w[2] \in Party
    BY <2>1, <2>2
  <2>. QED  BY <1>3, <2>3 DEF WantInv
<1>6. Others(p) \subseteq passed
  <2>1. ASSUME NEW d \in Others(p) PROVE d \in passed
    <3>0. \A q \in Others(p) : \E m \in net :
            m.type = "r2" /\ m.from = q /\ Payloads(p, "r2")[q] = m.val
      <4>1. TypeOK /\ WantInv /\ "r2" \in Phase /\ Collected(p, "r2")
        BY <1>1, <1>3
      <4>. HIDE DEF IInv
      <4>. QED  BY <4>1, PayloadFromNet
    <3>1. PICK m \in net : m.type = "r2" /\ m.from = d
      BY <2>1, <3>0
    <3>. QED  BY <3>1 DEF NetInv
  <2>. QED  BY <2>1
<1>7. View(p) \in [Party -> Commitment]
  BY <1>5, KeygenAssumption, Zenon DEF View, PassedInv, StoreInv, Others
<1>8. DoneInv' /\ done' \in [Party -> [Party -> Commitment] \cup {None}]
  <2>1. done \in [Party -> [Party -> Commitment] \cup {None}] /\ passed' = passed
    BY <1>1 DEF TypeOK, keygen
  <2>2. CASE UNCHANGED done
    BY <1>3, <2>1, <2>2 DEF DoneInv
  <2>3. CASE SendDone(p, View(p))
    <3>1. /\ \A q \in Party \ {p} : done'[q] = done[q]
          /\ done'[p] \in {done[p], View(p)}
          /\ done' \in [Party -> [Party -> Commitment] \cup {None}]
      BY <1>7, <2>1, <2>3 DEF SendDone
    <3>2. ASSUME NEW q \in Party, done'[q] # None
          PROVE  /\ q \in passed /\ Others(q) \subseteq passed
                 /\ Rejected(q) = {} /\ done'[q] = View(q)
      <4>1. CASE q # p
        BY <3>1, <3>2, <4>1 DEF DoneInv
      <4>2. CASE q = p
        <5>1. done[p] # None => done[p] = View(p)
          BY ZenonT(60) DEF DoneInv
        <5>. QED  BY <1>5, <1>6, <3>1, <3>2, <4>2, <5>1, ZenonT(60)
      <4>. QED  BY <4>1, <4>2
    <3>. QED  BY <1>3, <2>1, <3>1, <3>2 DEF DoneInv
  <2>. QED  BY <1>1, <2>2, <2>3
<1>9. TypeOK'
  BY <1>1, <1>3, <1>8 DEF TypeOK, Fail, keygen
<1>. QED  BY <1>4, <1>8, <1>9

LEMMA NextIInv == IInv /\ [Next]_vars => IInv'
<1>. SUFFICES ASSUME IInv, [Next]_vars PROVE IInv'
  OBVIOUS
<1>1. CASE UNCHANGED vars
  <2>. USE <1>1 DEF vars, runtime, keygen, IInv
  <2>1. TypeOK'
    BY DEF TypeOK
  <2>2. NetInv'
    BY DEF NetInv, View, Echo
  <2>3. WantInv'
    BY DEF WantInv, Rejected
  <2>4. StoreInv'
    BY DEF StoreInv
  <2>5. PassedInv'
    BY DEF PassedInv, View
  <2>6. DoneInv'
    BY DEF DoneInv, View, Rejected
  <2>. QED  BY <2>1, <2>2, <2>3, <2>4, <2>5, <2>6, ZenonT(60)
<1>. QED
  BY <1>1, Round1Step, RuntimeStep, OnR1Step, OnEchoStep, FinalizeStep DEF Next, Callback

LEMMA Invariance == Spec => []IInv
<1>. QED  BY NextIInv, InitIInv, PTL DEF Spec

\* No value of the state leaves its type; in particular an error never names
\* anybody but a party of the protocol.
THEOREM KeygenTypes == Spec => []TypeOK
BY Invariance, PTL DEF IInv

\* onEcho: whoever accepts the echoes holds the same commitments as every
\* honest party, for any number of equivocating dealers and lying echoers.
THEOREM EchoAgreement == Spec => []EchoesBindViews
<1>1. IInv => EchoesBindViews
  BY DEF IInv, PassedInv, EchoesBindViews
<1>. QED  BY <1>1, Invariance, PTL

\* finalize: two honest parties never hold keys that do not fit together, and a
\* key exists only if every honest party accepted its commitments.
THEOREM KeyAgreement == Spec => []KeyMeansAgreement
<1>1. IInv => KeyMeansAgreement
  BY Zenon DEF IInv, PassedInv, DoneInv, KeyMeansAgreement, Honest, Others
<1>. QED  BY <1>1, Invariance, PTL

\* round2: every share in a delivered key was verified against the commitments
\* the key is built from.
THEOREM SharesVerified == Spec => []KeySharesVerified
<1>1. ASSUME IInv, NEW p \in Party, done[p] # None, NEW d \in Others(p)
      PROVE  r1Unicasts[p][d] = done[p][d]
  <2>1. Rejected(p) = {} /\ done[p] = View(p)
    BY <1>1 DEF IInv, DoneInv
  <2>2. r1Unicasts[p][d] = r1Bcasts[p][d]
    BY <2>1 DEF Rejected
  <2>. QED  BY <2>1, <2>2 DEF View, Others
<1>2. IInv => KeySharesVerified
  BY <1>1 DEF KeySharesVerified
<1>. QED  BY <1>2, Invariance, PTL
---------------------------------------------------------------------------
\* A collector expects peers only and keeps the first message of each.
FirstInv ==
  \A p \in Party :
    /\ \A t \in Phase, q \in Party : <<t, q>> \in want[p] => q \in Others(p)
    /\ \A m \in got[p] : m.from \in Others(p)
    /\ \A m, n \in got[p] : m.type = n.type /\ m.from = n.from => m = n

\* The echoes of a party that has accepted them are all there, and complete.
HeardInv ==
  \A p \in passed :
    /\ Others(p) \subseteq Senders(p, "echo")
    /\ \A m \in Of(p, "echo") : DOMAIN m.val = Others(m.from)

EchoInv == FirstInv /\ HeardInv

\* The payload of a peer is the value of the one message it sent.
LEMMA PayloadIsFirst ==
  ASSUME FirstInv, NEW p \in Party, NEW t, NEW m \in Of(p, t)
  PROVE  m.from \in DOMAIN Payloads(p, t) /\ Payloads(p, t)[m.from] = m.val
<1>1. m \in got[p] /\ m.type = t /\ m.from \in Others(p)
  BY DEF Of, FirstInv
<1>. DEFINE n == CHOOSE n \in Of(p, t) : n.from = m.from
<1>2. n \in Of(p, t) /\ n.from = m.from
  OBVIOUS
<1>3. n = m
  BY <1>1, <1>2 DEF Of, FirstInv
<1>4. Payloads(p, t)[m.from] = n.val
  BY <1>1 DEF Payloads
<1>. QED  BY <1>1, <1>3, <1>4, Zenon DEF Payloads

\* Echoes that agree mention every dealer but their sender, and nobody else.
LEMMA AgreementMeansComplete ==
  ASSUME NEW p, NEW echoes, NEW view, DOMAIN view = Party, NEW e \in DOMAIN echoes,
         EchoesAgree(p, echoes, Digests(view), Party)
  PROVE  DOMAIN echoes[e] = Others(e)
<1>1. Culprits(p, e, echoes[e], Digests(view), Party) = {}
  BY DEF EchoesAgree
<1>2. ~Incomplete(e, echoes[e], Party)
  BY <1>1 DEF Culprits
<1>3. Odd(e, echoes[e], Digests(view)) = {}
  BY <1>1, <1>2 DEF Culprits
<1>4. DOMAIN Digests(view) = Party
  BY DEF Digests
<1>. QED  BY <1>2, <1>3, <1>4 DEF Incomplete, Odd, Others

\* What connecting a collector for all peers does to the slots.
LEMMA PeerSlots ==
  ASSUME NEW W, NEW t, NEW p, \A u \in Phase, q \in Party : <<u, q>> \in W => q \in Others(p)
  PROVE  \A u \in Phase, q \in Party : <<u, q>> \in Connect(W, t, Others(p)) => q \in Others(p)
BY DEF Connect

\* A step that receives nothing and accepts no echoes.
LEMMA EchoFrame ==
  ASSUME IInv, EchoInv, UNCHANGED <<got, passed>>,
         \A p \in Party, t \in Phase, q \in Party : <<t, q>> \in want'[p] => q \in Others(p)
  PROVE  EchoInv'
<1>1. FirstInv'
  BY DEF EchoInv, FirstInv
<1>2. HeardInv'
  BY DEF EchoInv, HeardInv, Senders, Of
<1>. QED  BY <1>1, <1>2 DEF EchoInv

LEMMA DeliverEcho ==
  ASSUME IInv, EchoInv, NEW p \in Party, Deliver(p)
  PROVE  EchoInv'
<1>. USE DEF IInv
<1>1. PICK m \in net : /\ <<m.type, m.from>> \in want[p]
                       /\ m.from \notin Senders(p, m.type)
                       /\ got' = [got EXCEPT ![p] = @ \cup {m}]
  BY Zenon DEF Deliver, Receive
<1>2. want' = want /\ passed' = passed
  BY DEF Deliver, Receive, keygen
<1>3. got'[p] = got[p] \cup {m} /\ \A q \in Party \ {p} : got'[q] = got[q]
  BY <1>1 DEF TypeOK
<1>4. m.type \in Phase /\ m.from \in Others(p)
  <2>1. want[p] \subseteq Phase \X Party
    BY DEF TypeOK, SlotSet
  <2>2. m.type \in Phase /\ m.from \in Party
    BY <1>1, <2>1
  <2>. QED  BY <1>1, <2>2 DEF EchoInv, FirstInv
<1>5. FirstInv'
  <2>1. \A n \in got[p] : ~(n.type = m.type /\ n.from = m.from)
    BY <1>1 DEF Senders, Of
  <2>2. \A q \in Party :
          /\ \A t \in Phase, r \in Party : <<t, r>> \in want'[q] => r \in Others(q)
          /\ \A n \in got'[q] : n.from \in Others(q)
    BY <1>2, <1>3, <1>4 DEF EchoInv, FirstInv
  <2>3. \A q \in Party : \A n, o \in got'[q] : n.type = o.type /\ n.from = o.from => n = o
    BY <1>3, <2>1 DEF EchoInv, FirstInv
  <2>. QED  BY <2>2, <2>3 DEF FirstInv
<1>6. HeardInv'
  <2>1. ASSUME NEW q \in passed
        PROVE  Of(q, "echo")' = Of(q, "echo")
    <3>1. q \in Party
      BY DEF TypeOK
    <3>2. CASE q # p
      BY <1>3, <3>1, <3>2 DEF Of
    <3>3. CASE q = p
      <4>1. m.type # "echo"
        BY <1>1, <1>4, <2>1, <3>3 DEF EchoInv, HeardInv
      <4>. QED  BY <1>3, <3>3, <4>1 DEF Of
    <3>. QED  BY <3>2, <3>3
  <2>. QED  BY <1>2, <2>1 DEF EchoInv, HeardInv, Senders
<1>. QED  BY <1>5, <1>6 DEF EchoInv

LEMMA OnEchoHeard ==
  ASSUME IInv, EchoInv, NEW p \in Party, OnEcho(p)
  PROVE  EchoInv'
<1>. USE DEF IInv
<1>1. got' = got /\ Collected(p, "echo")
  BY Zenon DEF OnEcho
<1>2. \A q \in Party, t \in Phase, r \in Party : <<t, r>> \in want'[q] => r \in Others(q)
  <2>1. \A q \in Party : want'[q] = want[q] \/ (q = p /\ want'[q] = Connect(want[p], "r2", Others(p)))
    BY Zenon DEF OnEcho, Round2, TypeOK
  <2>2. \A q \in Party, t \in Phase, r \in Party : <<t, r>> \in want[q] => r \in Others(q)
    BY Zenon DEF EchoInv, FirstInv
  <2>3. \A t \in Phase, r \in Party :
          <<t, r>> \in Connect(want[p], "r2", Others(p)) => r \in Others(p)
    BY <2>2, PeerSlots
  <2>. QED  BY <2>1, <2>2, <2>3, Zenon
<1>3. CASE passed' = passed
  BY <1>1, <1>2, <1>3, EchoFrame
<1>4. CASE passed' # passed
  <2>1. /\ EchoesAgree(p, Payloads(p, "echo"), Digests(View(p)), Party)
        /\ passed' = passed \cup {p}
    BY <1>4 DEF OnEcho
  <2>2. Others(p) \subseteq Senders(p, "echo")
    <3>1. "echo" \in Phase
      BY DEF Phase
    <3>2. \A d \in Others(p) : <<"echo", d>> \in want[p]
      BY <1>1, <3>1, PayloadFromNet
    <3>a. \A d : <<"echo", d>> \in want[p] => d \in Expected(p, "echo")
      BY DEF Expected
    <3>3. \A d \in Others(p) : d \in Expected(p, "echo")
      BY <3>2, <3>a, Zenon
    <3>. QED  BY <1>1, <3>3 DEF Collected
  <2>3. ASSUME NEW m \in Of(p, "echo") PROVE DOMAIN m.val = Others(m.from)
    <3>1. m.from \in DOMAIN Payloads(p, "echo") /\ Payloads(p, "echo")[m.from] = m.val
      BY PayloadIsFirst DEF EchoInv
    <3>2. DOMAIN View(p) = Party
      BY DEF View
    <3>. QED  BY <2>1, <3>1, <3>2, AgreementMeansComplete
  <2>4. HeardInv'
    BY <1>1, <2>1, <2>2, <2>3 DEF EchoInv, HeardInv, Senders, Of
  <2>5. FirstInv'
    BY <1>1, <1>2 DEF EchoInv, FirstInv
  <2>. QED  BY <2>4, <2>5 DEF EchoInv
<1>. QED  BY <1>3, <1>4

LEMMA EchoInvariance == Spec => [](IInv /\ EchoInv)
<1>1. Init => EchoInv
  BY DEF Init, RuntimeInit, EchoInv, FirstInv, HeardInv
<1>2. IInv /\ EchoInv /\ [Next]_vars => EchoInv'
  <2>. SUFFICES ASSUME IInv, EchoInv, [Next]_vars PROVE EchoInv'
    OBVIOUS
  <2>0. \A p \in Party, t \in Phase, q \in Party : <<t, q>> \in want[p] => q \in Others(p)
    BY Zenon DEF EchoInv, FirstInv
  <2>1. ASSUME NEW p \in Party, Round1(p) PROVE EchoInv'
    <3>1. /\ \A q \in Party \ {p} : want'[q] = want[q]
          /\ want'[p] = Connect(Connect(want[p], "r1bc", Others(p)), "r1uc", Others(p))
          /\ UNCHANGED <<got, passed>>
      BY <2>1, Zenon DEF Round1, IInv, TypeOK
    <3>2. \A t \in Phase, q \in Party :
            <<t, q>> \in Connect(want[p], "r1bc", Others(p)) => q \in Others(p)
      BY <2>0, PeerSlots
    <3>3. \A t \in Phase, q \in Party : <<t, q>> \in want'[p] => q \in Others(p)
      BY <3>1, <3>2, PeerSlots
    <3>. QED  BY <2>0, <3>1, <3>3, EchoFrame, ZenonT(60)
  <2>2. ASSUME NEW p \in Party, NEW t \in {"r1bc", "r1uc"}, OnR1(p, t) PROVE EchoInv'
    <3>1. /\ \A q \in Party \ {p} : want'[q] = want[q]
          /\ want'[p] \in {want[p], Connect(want[p], "echo", Others(p))}
          /\ UNCHANGED <<got, passed>>
      BY <2>2, Zenon DEF OnR1, StartEchoPhase, IInv, TypeOK
    <3>2. \A u \in Phase, q \in Party : <<u, q>> \in want'[p] => q \in Others(p)
      <4>1. \A u \in Phase, q \in Party :
              <<u, q>> \in Connect(want[p], "echo", Others(p)) => q \in Others(p)
        BY <2>0, PeerSlots
      <4>2. want'[p] = want[p] \/ want'[p] = Connect(want[p], "echo", Others(p))
        BY <3>1, Zenon
      <4>. QED  BY <2>0, <4>1, <4>2, Zenon
    <3>. QED  BY <2>0, <3>1, <3>2, EchoFrame, Zenon
  <2>3. ASSUME NEW p \in Party, Finalize(p) \/ CancelContext(p) PROVE EchoInv'
    BY <2>0, <2>3, EchoFrame, Zenon DEF Finalize, CancelContext, Cancel, keygen
  <2>4. CASE UNCHANGED vars
    BY <2>0, <2>4, EchoFrame DEF vars, runtime, keygen
  <2>. QED  BY <2>1, <2>2, <2>3, <2>4, DeliverEcho, OnEchoHeard DEF Next, Callback
<1>3. IInv /\ [Next]_vars => IInv'
  BY NextIInv
<1>. QED  BY <1>1, <1>2, <1>3, InitIInv, PTL DEF Spec

\* verifyEchoes: whoever accepts the echoes has one of every peer, and each of
\* them vouches for every dealer but its sender, whatever the liars send.
THEOREM CompleteEchoes == Spec => []EchoesAreComplete
<1>1. EchoInv => EchoesAreComplete
  BY Zenon DEF EchoInv, HeardInv, EchoesAreComplete
<1>. QED  BY <1>1, EchoInvariance, PTL
---------------------------------------------------------------------------
\* What an honest echoer reports differs from an honest verifier's view only on
\* a dealer that equivocated, and then the verifier blames that dealer.
LEMMA BlameIsFair ==
  ASSUME IInv, Liar = {}, NEW p \in Honest, Collected(p, "echo"), "r1bc" \in ran[p],
         NEW c \in EchoCulprits(p, Payloads(p, "echo"), Digests(View(p)), Party)
  PROVE  c \in Equivocator
<1>. USE DEF IInv
<1>0. p \in Party /\ p \notin Equivocator
  BY DEF Honest
<1>1. PICK e \in DOMAIN Payloads(p, "echo") :
        c \in Culprits(p, e, Payloads(p, "echo")[e], Digests(View(p)), Party)
  BY DEF EchoCulprits
<1>2. e \in Others(p) /\ e \in Party /\ "echo" \in Phase
  BY <1>1 DEF Payloads, Others, Phase
<1>3. PICK m \in net : m.type = "echo" /\ m.from = e /\ Payloads(p, "echo")[e] = m.val
  <2>1. TypeOK /\ WantInv
    OBVIOUS
  <2>2. \A d \in Others(p) : \E m \in net :
          m.type = "echo" /\ m.from = d /\ Payloads(p, "echo")[d] = m.val
    BY <1>0, <1>2, <2>1, PayloadFromNet, ZenonT(60)
  <2>. QED  BY <1>2, <2>2, Zenon
<1>4. "r1bc" \in ran[e] /\ Payloads(p, "echo")[e] = Echo(e)
  BY <1>3, Zenon DEF NetInv
<1>5. DOMAIN Echo(e) = Others(e) /\ DOMAIN Digests(View(p)) = Party
  BY Zenon DEF Echo, Digests, View
<1>6. ~Incomplete(e, Echo(e), Party)
  <2>1. Cardinality(Others(e)) <= Cardinality(Party)
    BY PartyAssumption, FS_Subset DEF Others
  <2>2. Cardinality(Others(e)) \in Nat /\ Cardinality(Party) \in Nat
    BY PartyAssumption, FS_Subset, FS_CardinalityType, Zenon DEF Others
  <2>3. ~(Cardinality(Others(e)) > Cardinality(Party))
    BY <2>1, <2>2
  <2>4. Party \ {e} \subseteq Others(e)
    BY Zenon DEF Others
  <2>. QED  BY <1>5, <2>3, <2>4, Zenon DEF Incomplete
<1>7. PICK d \in Odd(e, Echo(e), Digests(View(p))) : c = Blamed(p, e, d, Digests(View(p)))
  BY <1>1, <1>4, <1>6, Zenon DEF Culprits
<1>8. d \in Others(e) /\ d \in Party /\ d # e /\ Echo(e)[d] # Digests(View(p))[d]
  BY <1>5, <1>7, Zenon DEF Odd, Others
<1>9. Echo(e)[d] = <<d, r1Bcasts[e][d]>> /\ Digests(View(p))[d] = <<d, View(p)[d]>>
  BY <1>8, Zenon DEF Echo, Digests, commitDigest, View
<1>10. r1Bcasts[e][d] # View(p)[d]
  BY <1>8, <1>9, Zenon
<1>11. d \notin Equivocator => r1Bcasts[e][d] = Own /\ View(p)[d] = Own
  <2>. SUFFICES ASSUME d \notin Equivocator PROVE r1Bcasts[e][d] = Own /\ View(p)[d] = Own
    BY Zenon
  <2>1. r1Bcasts[e][d] = Own
    BY <1>2, <1>4, <1>8, Zenon DEF StoreInv
  <2>2. CASE d = p
    BY <2>1, <2>2, <1>0, Zenon DEF View
  <2>3. CASE d # p
    <3>1. d \in Others(p) \ Equivocator
      BY <1>8, <2>3, Zenon DEF Others
    <3>. QED  BY <2>1, <2>3, <3>1, <1>0, <1>8, Zenon DEF StoreInv, View
  <2>. QED  BY <2>2, <2>3, Zenon
<1>12. d \in Equivocator /\ d # p
  BY <1>0, <1>10, <1>11
<1>. QED  BY <1>5, <1>7, <1>8, <1>12 DEF Blamed

\* verifyEchoes names the equivocating dealer, as its comment says, as long as
\* nobody lies about what it received: with a liar the comment is wrong, as the
\* run dkls_keygen_liar shows.
THEOREM Attribution ==
  ASSUME Liar = {}
  PROVE  Spec => []CulpritIsFaulty
<1>1. Init => CulpritIsFaulty
  BY ZenonT(60) DEF Init, CulpritIsFaulty, Honest
<1>2. IInv /\ CulpritIsFaulty /\ [Next]_vars => CulpritIsFaulty'
  <2>. SUFFICES ASSUME IInv, CulpritIsFaulty, [Next]_vars, culprit' # culprit
                PROVE  CulpritIsFaulty'
    BY DEF CulpritIsFaulty
  <2>1. PICK p \in Party : OnEcho(p)
    BY DEF Next, Callback, vars, runtime, keygen, Round1, Deliver, CancelContext, OnR1, Finalize
  <2>2. PICK c \in EchoCulprits(p, Payloads(p, "echo"), Digests(View(p)), Party) :
          culprit' = [culprit EXCEPT ![p] = c]
    BY <2>1 DEF OnEcho
  <2>3. Collected(p, "echo")
    BY <2>1 DEF OnEcho
  <2>4. "r1bc" \in ran[p]
    BY <2>3, EchoAfterRound1
  <2>5. p \in Honest => c \in Equivocator
    BY <2>2, <2>3, <2>4, BlameIsFair, Liar = {}
  <2>6. culprit'[p] = c /\ \A q \in Party \ {p} : culprit'[q] = culprit[q]
    BY <2>2, Zenon DEF IInv, TypeOK
  <2>. SUFFICES ASSUME NEW q \in Honest PROVE culprit'[q] \in Equivocator \cup Liar \cup {None}
    BY Zenon DEF CulpritIsFaulty
  <2>7. CASE q = p
    BY <2>5, <2>6, <2>7, Zenon
  <2>8. CASE q # p
    BY <2>6, <2>8, Zenon DEF CulpritIsFaulty, Honest
  <2>. QED  BY <2>7, <2>8
<1>. QED  BY <1>1, <1>2, Invariance, NextIInv, PTL DEF Spec
=============================================================================
