------------------------- MODULE EddsaResharingProofs -------------------------
(***************************************************************************)
(* The hand-over of eddsatss is safe for every pair of committees, any     *)
(* number of faulty old parties and any cancellations.                     *)
(***************************************************************************)
EXTENDS EddsaResharing, TLAPS

\* Where a message of the broker comes from.
NetInv ==
  /\ \A p \in Party : got[p] \subseteq net
  /\ \A m \in net :
       /\ m.type = "round2" => m.from \in New /\ eddsaPub[m.from] # None
       /\ m.type \in Round3 => m.from \in dealt
       /\ m.type = "round4" => m.from \in newKey

\* A collector that is connected expects the whole committee it waits for.
WantInv ==
  /\ \A o \in Old \cap started : \A q \in New \ {o} : <<"round2", q>> \in want[o]
  /\ \A o \in dealt : \A q \in New \ {o} : <<"round4", q>> \in want[o]
  /\ \A n \in New, t \in Round3 :
       (\E q \in Party : <<t, q>> \in want[n]) => \A q \in Old : <<t, q>> \in want[n]
  /\ \A n \in New \ Old :
       (\E q \in Party : <<"round4", q>> \in want[n])
       => n \in newKey /\ \A q \in New \ {n} : <<"round4", q>> \in want[n]

\* A stored slice holds a message of every old party.
StoredInv ==
  \A n \in New : \A t \in stored[n] : Old \subseteq Senders(n, t)

\* A key is built from the dealings of the whole old committee.
KeyInv == newKey # {} => Old \subseteq dealt

Safety == /\ SharesFollowCommitments
          /\ HandedOverBeforeErasure
          /\ SuccessIsCollective

IInv == TypeOK /\ NetInv /\ WantInv /\ StoredInv /\ KeyInv /\ Safety

LEMMA ConnectSlots ==
  ASSUME NEW W \in SlotSet, NEW t \in MessageType,
         NEW S \in SUBSET Party
  PROVE  /\ Connect(W, t, S) \in SlotSet
         /\ \A u \in MessageType, q \in Party :
              <<u, q>> \in Connect(W, t, S)
              <=> \/ u = t /\ q \in S
                  \/ u # t /\ <<u, q>> \in W
BY DEF Connect, SlotSet

\* A message has a content.
LEMMA Contents ==
  ASSUME TypeOK, NEW p \in Party, NEW m \in got[p]
  PROVE  m.val \in Value /\ m.val # None
<1>1. m \in Message
  BY DEF TypeOK
<1>2. None \notin Value
  BY NoneAssumption DEF Value
<1>. QED  BY <1>1, <1>2 DEF Message

\* A complete collector has a message, kept by the broker, of every sender.
LEMMA CollectedSenders ==
  ASSUME TypeOK, NEW p \in Party, NEW t \in MessageType, Collected(p, t)
  PROVE  /\ \E q \in Party : <<t, q>> \in want[p]
         /\ \A q : <<t, q>> \in want[p] => q \in Senders(p, t)
<1>1. want[p] \subseteq MessageType \X Party
  BY DEF TypeOK, SlotSet
<1>2. PICK w \in want[p] : w[1] = t
  BY DEF Collected, Expected
<1>3. <<t, w[2]>> \in want[p] /\ w[2] \in Party
  BY <1>1, <1>2
<1>4. \A q : <<t, q>> \in want[p] => q \in Expected(p, t)
  BY DEF Expected
<1>. QED  BY <1>3, <1>4 DEF Collected

LEMMA SenderMessage ==
  ASSUME NetInv, NEW p \in Party, NEW t \in MessageType, NEW q \in Senders(p, t)
  PROVE  \E m \in net : m.type = t /\ m.from = q
BY DEF NetInv, Senders, Of

LEMMA ToAllMessage ==
  ASSUME NEW t \in MessageType, NEW p \in Party, NEW S \in SUBSET Party, NEW v \in Value
  PROVE  /\ ToAll(t, p, S, v) \in SUBSET Message
         /\ \A m \in ToAll(t, p, S, v) : m.type = t /\ m.from = p
BY DEF ToAll, Message

LEMMA Types ==
  /\ "round1" \in MessageType /\ "round2" \in MessageType /\ "round4" \in MessageType
  /\ "round3-1" \in MessageType /\ "round3-2" \in MessageType
  /\ Round3 \subseteq MessageType
  /\ {"pub", "other", "ack", "ok", "bad"} \subseteq Value
BY DEF MessageType, Round3, Value

LEMMA InitIInv == Init => IInv
<1>. SUFFICES ASSUME Init PROVE IInv
  OBVIOUS
<1>. USE DEF Init, RuntimeInit
<1>1. TypeOK
  BY DEF TypeOK, SlotSet
<1>2. NetInv /\ StoredInv /\ KeyInv
  BY DEF NetInv, StoredInv, KeyInv
<1>3. WantInv
  BY CommitteeAssumption DEF WantInv
<1>4. Safety
  BY NoneAssumption, CommitteeAssumption, Zenon
  DEF Safety, SharesFollowCommitments, HandedOverBeforeErasure, SuccessIsCollective
<1>. QED  BY <1>1, <1>2, <1>3, <1>4 DEF IInv

LEMMA TypeStep ==
  ASSUME TypeOK, [Next]_vars
  PROVE  TypeOK'
<1>. USE CommitteeAssumption, MayCancelAssumption, Types DEF TypeOK
<1>1. ASSUME NEW p \in Party, Start(p) PROVE TypeOK'
  <2>1. Connect({}, "round2", New \ {p}) \in SlotSet /\ Connect({}, "round1", Old) \in SlotSet
    BY ConnectSlots DEF SlotSet
  <2>2. want' \in [Party -> SlotSet]
    <3>. DEFINE W == (IF p \in Old THEN Connect({}, "round2", New \ {p}) ELSE {})
                     \cup (IF p \in New THEN Connect({}, "round1", Old) ELSE {})
    <3>1. W \in SlotSet
      BY <2>1, Zenon DEF SlotSet
    <3>2. want' = [want EXCEPT ![p] = W]
      BY <1>1 DEF Start
    <3>. HIDE DEF W
    <3>. QED  BY <3>1, <3>2
  <2>3. net' \subseteq Message
    BY <1>1, ToAllMessage DEF Start
  <2>. QED  BY <1>1, <2>2, <2>3 DEF Start
<1>2. ASSUME NEW p \in Party, Deliver(p) PROVE TypeOK'
  BY <1>2 DEF Deliver, Receive
<1>3. ASSUME NEW p \in Party, CancelContext(p) PROVE TypeOK'
  BY <1>3 DEF CancelContext, Cancel
<1>4. ASSUME NEW p \in Party, Round2New(p) PROVE TypeOK'
  <2>0. want[p] \in SlotSet
    OBVIOUS
  <2>1. Connect(want[p], "round3-1", Old) \in SlotSet
    BY <2>0, ConnectSlots
  <2>2. Connect(Connect(want[p], "round3-1", Old), "round3-2", Old) \in SlotSet
    BY <2>1, ConnectSlots
  <2>3. net' \subseteq Message
    BY <1>4, ToAllMessage DEF Round2New
  <2>4. {m.val : m \in Of(p, "round1")} \subseteq Value
    BY DEF Of, Message
  <2>5. want' \in [Party -> SlotSet]
    BY <1>4, <2>2 DEF Round2New
  <2>6. eddsaPub' \in [New -> Value \cup {None}]
    BY <1>4, <2>4 DEF Round2New
  <2>. QED  BY <1>4, <2>3, <2>5, <2>6 DEF Round2New, Fail
<1>5. ASSUME NEW p \in Party, Round3Old(p) PROVE TypeOK'
  <2>1. Connect(want[p], "round4", New \ {p}) \in SlotSet
    BY ConnectSlots
  <2>2. net' \subseteq Message
    <3>1. CASE net' = net
      BY <3>1
    <3>2. CASE net' # net
      <4>1. PICK bad \in SUBSET New, opening \in {"ok", "bad"} :
              net' = net \cup ToAll("round3-1", p, New \ bad, "ok")
                         \cup ToAll("round3-1", p, bad, "bad")
                         \cup ToAll("round3-2", p, New, opening)
        BY <1>5, <3>2, Zenon DEF Round3Old
      <4>. QED  BY <4>1, ToAllMessage
    <3>. QED  BY <3>1, <3>2
  <2>3. want' \in [Party -> SlotSet]
    BY <1>5, <2>1 DEF Round3Old
  <2>. QED  BY <1>5, <2>2, <2>3 DEF Round3Old, Fail
<1>6. ASSUME NEW p \in New, NEW t \in Round3, StoreRound3(p, t) PROVE TypeOK'
  BY <1>6 DEF StoreRound3
<1>7. ASSUME NEW p \in New, NEW t \in Round3, CountRound3(p, t) PROVE TypeOK'
  BY <1>7 DEF CountRound3, runtime
<1>8. ASSUME NEW p \in New, NEW t \in Round3, Round4New(p, t) PROVE TypeOK'
  <2>1. Connect(want[p], "round4", New \ {p}) \in SlotSet
    BY ConnectSlots
  <2>2. net' \subseteq Message
    BY <1>8, ToAllMessage DEF Round4New, Acked
  <2>3. want' \in [Party -> SlotSet]
    BY <1>8, <2>1 DEF Round4New
  <2>4. done' \in [Party -> {None, "nil", "key"}]
    BY <1>8 DEF Round4New, SendDone
  <2>5. failed' \subseteq Party /\ newKey' \subseteq New
    BY <1>8 DEF Round4New, Fail
  <2>6. counted' \in [New -> SUBSET Round3] /\ joiner' \in [New -> Round3 \cup {None}]
    BY <1>8 DEF Round4New
  <2>7. UNCHANGED <<got, ran, cancelled, started, eddsaPub, dealt, stored, erased>>
    BY <1>8 DEF Round4New
  <2>8. got' \in [Party -> SUBSET Message]
    BY <2>7
  <2>. QED  BY <2>2, <2>3, <2>4, <2>5, <2>6, <2>7, <2>8
<1>9. ASSUME NEW p \in Party, FinishNew(p) PROVE TypeOK'
  BY <1>9 DEF FinishNew, SendDone
<1>10. ASSUME NEW p \in Party, Round5Old(p) PROVE TypeOK'
  BY <1>10 DEF Round5Old, SendDone, Fail
<1>11. CASE UNCHANGED vars
  BY <1>11 DEF vars, runtime
<1>. QED
  BY <1>1, <1>2, <1>3, <1>4, <1>5, <1>6, <1>7, <1>8, <1>9, <1>10, <1>11, Zenon
  DEF Next, Callback

\* The part of the invariant beyond types.
Rest == NetInv /\ WantInv /\ StoredInv /\ KeyInv /\ Safety

LEMMA StartStep ==
  ASSUME IInv, NEW p \in Party, Start(p)
  PROVE  Rest'
<1>. USE CommitteeAssumption, Types DEF IInv
<1>1. p \notin started /\ started' = started \cup {p}
  BY DEF Start
<1>2. UNCHANGED <<got, ran, done, eddsaPub, dealt, stored, newKey, erased>>
  BY DEF Start
<1>3. \A m \in net' : m \in net \/ m.type = "round1"
  BY ToAllMessage DEF Start
<1>4. net \subseteq net'
  BY DEF Start
<1>5. NetInv'
  BY <1>2, <1>3, <1>4 DEF NetInv, Round3
<1>6. WantInv'
  <2>1. \A q \in Party \ {p} : want'[q] = want[q]
    BY DEF Start, TypeOK
  <2>2. \A u \in MessageType, q \in Party :
          <<u, q>> \in want'[p]
          <=> \/ p \in Old /\ u = "round2" /\ q \in New \ {p}
              \/ p \in New /\ u = "round1" /\ q \in Old
    <3>1. /\ \A u \in MessageType, q \in Party :
               <<u, q>> \in Connect({}, "round2", New \ {p}) <=> u = "round2" /\ q \in New \ {p}
          /\ \A u \in MessageType, q \in Party :
               <<u, q>> \in Connect({}, "round1", Old) <=> u = "round1" /\ q \in Old
      BY DEF Connect
    <3>2. want'[p] = (IF p \in Old THEN Connect({}, "round2", New \ {p}) ELSE {})
                     \cup (IF p \in New THEN Connect({}, "round1", Old) ELSE {})
      BY DEF Start, TypeOK
    <3>. QED  BY <3>1, <3>2, Zenon
  <2>3. p \notin dealt
    BY <1>1 DEF TypeOK
  <2>4. \A t \in Round3 : t # "round1" /\ t # "round2" /\ t \in MessageType
    BY DEF Round3
  <2>. QED  BY <1>1, <1>2, <2>1, <2>2, <2>3, <2>4, ZenonT(60) DEF WantInv, TypeOK
<1>7. StoredInv' /\ KeyInv'
  BY <1>2 DEF StoredInv, KeyInv, Senders, Of
<1>8. Safety'
  BY <1>2 DEF Safety, SharesFollowCommitments, HandedOverBeforeErasure, SuccessIsCollective
<1>. QED  BY <1>5, <1>6, <1>7, <1>8 DEF Rest

LEMMA DeliverStep ==
  ASSUME IInv, NEW p \in Party, Deliver(p)
  PROVE  Rest'
<1>. USE DEF IInv
<1>1. PICK m \in net : got' = [got EXCEPT ![p] = @ \cup {m}]
  BY Zenon DEF Deliver, Receive
<1>2. UNCHANGED <<net, want, ran, done, started, eddsaPub, dealt, stored, newKey, erased>>
  BY DEF Deliver, Receive
<1>3. NetInv'
  BY <1>1, <1>2 DEF NetInv, TypeOK
<1>4. StoredInv'
  <2>1. \A q \in Party : got[q] \subseteq got'[q]
    BY <1>1 DEF TypeOK
  <2>. QED  BY <1>2, <2>1, CommitteeAssumption DEF StoredInv, Senders, Of
<1>5. WantInv' /\ KeyInv' /\ Safety'
  BY <1>2, Zenon DEF WantInv, KeyInv, Safety, SharesFollowCommitments, HandedOverBeforeErasure,
              SuccessIsCollective
<1>. QED  BY <1>3, <1>4, <1>5 DEF Rest

LEMMA Round2Step ==
  ASSUME IInv, NEW p \in Party, Round2New(p)
  PROVE  Rest'
<1>. USE CommitteeAssumption, Types DEF IInv
<1>0. p \in New
  BY DEF Round2New
<1>1. UNCHANGED <<got, done, started, dealt, stored, newKey, erased>>
  BY DEF Round2New
<1>2. CASE UNCHANGED <<net, want, eddsaPub>>
  BY <1>1, <1>2 DEF Rest, NetInv, WantInv, StoredInv, Senders, Of, KeyInv, Safety,
     SharesFollowCommitments, HandedOverBeforeErasure, SuccessIsCollective
<1>3. CASE ~UNCHANGED <<net, want, eddsaPub>>
  <2>1. PICK pub \in {m.val : m \in Of(p, "round1")} : eddsaPub' = [eddsaPub EXCEPT ![p] = pub]
    BY <1>3 DEF Round2New
  <2>2. /\ net' = net \cup ToAll("round2", p, Old \ {p}, "ack")
        /\ want' = [want EXCEPT ![p] = Connect(Connect(@, "round3-1", Old), "round3-2", Old)]
    BY <1>3, Zenon DEF Round2New
  <2>3. pub # None
    BY NoneAssumption DEF Of, TypeOK, Message, Value
  <2>4. \A n \in New : eddsaPub[n] # None => eddsaPub'[n] # None
    BY <2>1, <2>3 DEF TypeOK
  <2>5. NetInv'
    <3>1. \A m \in net' : m \in net \/ (m.type = "round2" /\ m.from = p)
      BY <2>2, ToAllMessage
    <3>2. eddsaPub'[p] # None
      BY <1>0, <2>1, <2>3 DEF TypeOK
    <3>. QED  BY <1>0, <1>1, <2>2, <2>4, <3>1, <3>2, Zenon DEF NetInv, Round3
  <2>6. WantInv'
    <3>1. \A q \in Party \ {p} : want'[q] = want[q]
      BY <2>2 DEF TypeOK
    <3>2. want[p] \in SlotSet /\ Connect(want[p], "round3-1", Old) \in SlotSet
      BY ConnectSlots DEF TypeOK
    <3>3. \A u \in MessageType, q \in Party :
            <<u, q>> \in want'[p]
            <=> \/ u \in Round3 /\ q \in Old
                \/ u \notin Round3 /\ <<u, q>> \in want[p]
      <4>1. want'[p] = Connect(Connect(want[p], "round3-1", Old), "round3-2", Old)
        BY <2>2 DEF TypeOK
      <4>2. \A u \in MessageType, q \in Party :
              <<u, q>> \in Connect(want[p], "round3-1", Old)
              <=> \/ u = "round3-1" /\ q \in Old
                  \/ u # "round3-1" /\ <<u, q>> \in want[p]
        BY DEF Connect
      <4>3. \A u \in MessageType, q \in Party :
              <<u, q>> \in want'[p]
              <=> \/ u = "round3-2" /\ q \in Old
                  \/ u # "round3-2" /\ <<u, q>> \in Connect(want[p], "round3-1", Old)
        BY <4>1 DEF Connect
      <4>4. \A u : u \in Round3 <=> u = "round3-1" \/ u = "round3-2"
        BY DEF Round3
      <4>. QED  BY <4>2, <4>3, <4>4, Zenon
    <3>4. "round2" \notin Round3 /\ "round4" \notin Round3
      BY DEF Round3
    <3>. QED  BY <1>1, <3>1, <3>3, <3>4, Zenon DEF WantInv, TypeOK
  <2>7. StoredInv' /\ KeyInv'
    BY <1>1 DEF StoredInv, KeyInv, Senders, Of
  <2>8. Safety'
    BY <1>1, <2>4 DEF Safety, SharesFollowCommitments, HandedOverBeforeErasure,
                      SuccessIsCollective
  <2>. QED  BY <2>5, <2>6, <2>7, <2>8 DEF Rest
<1>. QED  BY <1>2, <1>3

LEMMA Round3Step ==
  ASSUME IInv, NEW p \in Party, Round3Old(p)
  PROVE  Rest'
<1>. USE CommitteeAssumption, Types DEF IInv
<1>0. p \in Old \cap started
  BY DEF Round3Old
<1>1. UNCHANGED <<got, done, started, eddsaPub, stored, newKey, erased>>
  BY DEF Round3Old
<1>2. CASE UNCHANGED <<net, want, dealt>>
  BY <1>1, <1>2 DEF Rest, NetInv, WantInv, StoredInv, Senders, Of, KeyInv, Safety,
     SharesFollowCommitments, HandedOverBeforeErasure, SuccessIsCollective
<1>3. CASE ~UNCHANGED <<net, want, dealt>>
  <2>1. /\ want' = [want EXCEPT ![p] = Connect(@, "round4", New \ {p})]
        /\ dealt' = dealt \cup {p}
    BY <1>3 DEF Round3Old
  <2>2. net \subseteq net' /\ \A m \in net' : m \in net \/ (m.type \in Round3 /\ m.from = p)
    <3>1. PICK bad \in SUBSET New, opening \in {"ok", "bad"} :
            net' = net \cup ToAll("round3-1", p, New \ bad, "ok")
                       \cup ToAll("round3-1", p, bad, "bad")
                       \cup ToAll("round3-2", p, New, opening)
      BY <1>3, Zenon DEF Round3Old
    <3>. QED  BY <3>1, ToAllMessage DEF Round3
  <2>3. NetInv'
    <3>1. "round2" \notin Round3 /\ "round4" \notin Round3
      BY DEF Round3
    <3>. QED  BY <1>1, <2>1, <2>2, <3>1 DEF NetInv
  <2>4. WantInv'
    <3>1. \A q \in Party \ {p} : want'[q] = want[q]
      BY <2>1 DEF TypeOK
    <3>2. \A u \in MessageType, q \in Party :
            <<u, q>> \in want'[p]
            <=> \/ u = "round4" /\ q \in New \ {p}
                \/ u # "round4" /\ <<u, q>> \in want[p]
      <4>1. want'[p] = Connect(want[p], "round4", New \ {p})
        BY <2>1 DEF TypeOK
      <4>. QED  BY <4>1 DEF Connect
    <3>3. "round4" \notin Round3
      BY DEF Round3
    <3>4. \A o \in Old \cap started : \A q \in New \ {o} : <<"round2", q>> \in want'[o]
      BY <1>0, <3>1, <3>2, Zenon DEF WantInv
    <3>5. \A o \in dealt' : \A q \in New \ {o} : <<"round4", q>> \in want'[o]
      BY <1>0, <1>1, <2>1, <3>1, <3>2, Zenon DEF WantInv, TypeOK
    <3>6. \A n \in New, u \in Round3 :
            (\E q \in Party : <<u, q>> \in want'[n]) => \A q \in Old : <<u, q>> \in want'[n]
      BY <3>1, <3>2, <3>3 DEF WantInv
    <3>7. \A n \in New \ Old :
            (\E q \in Party : <<"round4", q>> \in want'[n])
            => n \in newKey' /\ \A q \in New \ {n} : <<"round4", q>> \in want'[n]
      BY <1>0, <1>1, <2>1, <3>1, <3>2 DEF WantInv
    <3>. QED  BY <1>1, <3>4, <3>5, <3>6, <3>7 DEF WantInv
  <2>5. StoredInv' /\ KeyInv'
    BY <1>1, <2>1 DEF StoredInv, KeyInv, Senders, Of
  <2>6. \A q \in New \ {p} : eddsaPub[q] # None
    <3>. SUFFICES ASSUME NEW q \in New \ {p} PROVE eddsaPub[q] # None
      OBVIOUS
    <3>1. Collected(p, "round2")
      BY DEF Round3Old, AcksIn
    <3>2. q \in Senders(p, "round2")
      BY <1>0, <3>1, CollectedSenders, Zenon DEF WantInv
    <3>3. \E m \in net : m.type = "round2" /\ m.from = q
      BY <3>2, SenderMessage
    <3>. QED  BY <3>3 DEF NetInv
  <2>7. Safety'
    BY <1>1, <2>1, <2>6 DEF Safety, SharesFollowCommitments, HandedOverBeforeErasure,
                      SuccessIsCollective
  <2>. QED  BY <2>3, <2>4, <2>5, <2>7 DEF Rest
<1>. QED  BY <1>2, <1>3

LEMMA StoreStep ==
  ASSUME IInv, NEW p \in New, NEW t \in Round3, StoreRound3(p, t)
  PROVE  Rest'
<1>. USE CommitteeAssumption, Types DEF IInv
<1>1. UNCHANGED <<net, want, got, done, started, eddsaPub, dealt, newKey, erased>>
  BY DEF StoreRound3
<1>2. stored' = [stored EXCEPT ![p] = @ \cup {t}]
  BY DEF StoreRound3
<1>3. Old \subseteq Senders(p, t)
  <2>1. Collected(p, t)
    BY DEF StoreRound3
  <2>2. \A q \in Old : <<t, q>> \in want[p]
    BY <2>1, CollectedSenders DEF WantInv
  <2>. QED  BY <2>1, <2>2, CollectedSenders, Zenon
<1>4. StoredInv'
  BY <1>1, <1>2, <1>3, ZenonT(60) DEF StoredInv, Senders, Of, TypeOK
<1>5. NetInv' /\ WantInv' /\ KeyInv' /\ Safety'
  BY <1>1, Zenon DEF NetInv, WantInv, KeyInv, Safety, SharesFollowCommitments,
              HandedOverBeforeErasure, SuccessIsCollective
<1>. QED  BY <1>4, <1>5 DEF Rest

LEMMA Round4Step ==
  ASSUME IInv, NEW p \in New, NEW t \in Round3, Round4New(p, t)
  PROVE  Rest'
<1>. USE CommitteeAssumption, Types DEF IInv
<1>1. UNCHANGED <<got, started, eddsaPub, dealt, stored, erased>>
  BY DEF Round4New
<1>2. CASE UNCHANGED <<net, want, done, newKey>>
  BY <1>1, <1>2, Zenon DEF Rest, NetInv, WantInv, StoredInv, Senders, Of, KeyInv, Safety,
     SharesFollowCommitments, HandedOverBeforeErasure, SuccessIsCollective
<1>3. CASE ~UNCHANGED <<net, want, done, newKey>>
  <2>1. /\ Verified(p)
        /\ newKey' = newKey \cup {p}
        /\ net' = net \cup ToAll("round4", p, Acked(p), "ack")
        /\ want' = [want EXCEPT ![p] = IF p \in Old THEN @ ELSE Connect(@, "round4", New \ {p})]
        /\ IF p \notin Old /\ New = {p} THEN SendDone(p, "key") ELSE UNCHANGED done
    BY <1>3 DEF Round4New
  <2>2. Old \subseteq dealt
    <3>. SUFFICES ASSUME NEW q \in Old PROVE q \in dealt
      OBVIOUS
    <3>1. q \in Senders(p, "round3-1")
      BY <2>1 DEF Verified, StoredInv, Round3
    <3>2. \E m \in net : m.type = "round3-1" /\ m.from = q
      BY <3>1, SenderMessage
    <3>. QED  BY <3>2 DEF NetInv, Round3
  <2>3. NetInv'
    <3>1. \A m \in net' : m \in net \/ (m.type = "round4" /\ m.from = p)
      BY <2>1, ToAllMessage DEF Acked
    <3>. QED  BY <1>1, <2>1, <3>1 DEF NetInv, Round3
  <2>4. WantInv'
    <3>1. \A q \in Party \ {p} : want'[q] = want[q]
      BY <2>1 DEF TypeOK
    <3>2. \A u \in MessageType, q \in Party :
            <<u, q>> \in want'[p]
            <=> IF p \in Old THEN <<u, q>> \in want[p]
                ELSE \/ u = "round4" /\ q \in New \ {p}
                     \/ u # "round4" /\ <<u, q>> \in want[p]
      <4>1. want'[p] = IF p \in Old THEN want[p] ELSE Connect(want[p], "round4", New \ {p})
        BY <2>1 DEF TypeOK
      <4>. QED  BY <4>1 DEF Connect
    <3>3. "round4" \notin Round3
      BY DEF Round3
    <3>4. \A o \in Old \cap started : \A q \in New \ {o} : <<"round2", q>> \in want'[o]
      BY <3>1, <3>2, Zenon DEF WantInv
    <3>5. \A o \in dealt' : \A q \in New \ {o} : <<"round4", q>> \in want'[o]
      BY <1>1, <2>1, <3>1, <3>2, Zenon DEF WantInv, TypeOK
    <3>6. \A n \in New, u \in Round3 :
            (\E q \in Party : <<u, q>> \in want'[n]) => \A q \in Old : <<u, q>> \in want'[n]
      BY <3>1, <3>2, <3>3 DEF WantInv
    <3>7. \A n \in New \ Old :
            (\E q \in Party : <<"round4", q>> \in want'[n])
            => n \in newKey' /\ \A q \in New \ {n} : <<"round4", q>> \in want'[n]
      BY <1>1, <2>1, <3>1, <3>2, Zenon DEF WantInv
    <3>. QED  BY <1>1, <3>4, <3>5, <3>6, <3>7, Zenon DEF WantInv
  <2>5. StoredInv' /\ KeyInv'
    BY <1>1, <2>1, <2>2 DEF StoredInv, KeyInv, Senders, Of
  <2>6. Safety'
    <3>1. SuccessIsCollective'
      BY <1>1, <2>1, <2>2 DEF Safety, SuccessIsCollective, SendDone, TypeOK
    <3>. QED  BY <1>1, <2>1, <3>1 DEF Safety, SharesFollowCommitments, HandedOverBeforeErasure
  <2>. QED  BY <2>3, <2>4, <2>5, <2>6 DEF Rest
<1>. QED  BY <1>2, <1>3

\* A complete round 4 collector: every other new party has built its key.
LEMMA AcksMeanKeys ==
  ASSUME IInv, NEW p \in Party, Collected(p, "round4"),
         \A q \in New \ {p} : <<"round4", q>> \in want[p]
  PROVE  New \ {p} \subseteq newKey
<1>. SUFFICES ASSUME NEW q \in New \ {p} PROVE q \in newKey
  OBVIOUS
<1>1. q \in Senders(p, "round4")
  BY Types, CollectedSenders, Zenon DEF IInv
<1>2. \E m \in net : m.type = "round4" /\ m.from = q
  BY <1>1, Types, SenderMessage DEF IInv
<1>. QED  BY <1>2 DEF IInv, NetInv

LEMMA FinishStep ==
  ASSUME IInv, NEW p \in Party, FinishNew(p)
  PROVE  Rest'
<1>. USE CommitteeAssumption, Types DEF IInv
<1>1. UNCHANGED <<net, want, got, started, eddsaPub, dealt, stored, newKey, erased>>
  BY DEF FinishNew
<1>2. p \in New \ Old /\ Collected(p, "round4")
  BY DEF FinishNew
<1>3. p \in newKey /\ New \ {p} \subseteq newKey
  BY <1>2, CollectedSenders, AcksMeanKeys, Zenon DEF WantInv
<1>4. SuccessIsCollective'
  BY <1>1, <1>3 DEF FinishNew, SendDone, Safety, SuccessIsCollective, KeyInv, TypeOK
<1>. QED
  BY <1>1, <1>4, Zenon DEF Rest, NetInv, WantInv, StoredInv, Senders, Of, KeyInv, Safety,
     SharesFollowCommitments, HandedOverBeforeErasure

LEMMA Round5Step ==
  ASSUME IInv, NEW p \in Party, Round5Old(p)
  PROVE  Rest'
<1>. USE CommitteeAssumption DEF IInv
<1>1. UNCHANGED <<net, want, got, started, eddsaPub, dealt, stored, newKey>>
  BY DEF Round5Old
<1>2. p \in dealt /\ p \in Old
  BY DEF Round5Old, TypeOK
<1>3. New \ {p} \subseteq newKey
  <2>1. CASE New \subseteq {p}
    BY <2>1
  <2>2. CASE Collected(p, "round4")
    BY <1>2, <2>2, AcksMeanKeys DEF WantInv
  <2>. QED  BY <2>1, <2>2 DEF Round5Old, AcksIn
<1>4. erased' \subseteq erased \cup {p}
  BY DEF Round5Old
<1>5. HandedOverBeforeErasure'
  BY <1>1, <1>3, <1>4 DEF Safety, HandedOverBeforeErasure
<1>6. SuccessIsCollective'
  <2>1. \A n \in New \ Old : done'[n] = done[n]
    BY <1>2 DEF Round5Old, SendDone, TypeOK
  <2>. QED  BY <1>1, <2>1 DEF Safety, SuccessIsCollective
<1>. QED
  BY <1>1, <1>5, <1>6 DEF Rest, NetInv, WantInv, StoredInv, Senders, Of, KeyInv, Safety,
     SharesFollowCommitments

LEMMA QuietStep ==
  ASSUME IInv,
         UNCHANGED <<net, want, got, done, started, eddsaPub, dealt, stored, newKey, erased>>
  PROVE  Rest'
BY DEF IInv, Rest, NetInv, WantInv, StoredInv, Senders, Of, KeyInv, Safety,
       SharesFollowCommitments, HandedOverBeforeErasure, SuccessIsCollective

LEMMA NextIInv ==
  ASSUME IInv, [Next]_vars
  PROVE  IInv'
<1>1. TypeOK'
  BY TypeStep DEF IInv
<1>2. Rest'
  <2>1. ASSUME NEW p \in Party, Start(p) \/ Deliver(p) PROVE Rest'
    BY <2>1, StartStep, DeliverStep
  <2>2. ASSUME NEW p \in Party, CancelContext(p) PROVE Rest'
    BY <2>2, QuietStep DEF CancelContext, Cancel
  <2>3. ASSUME NEW p \in Party, Callback(p) PROVE Rest'
    <3>1. ASSUME NEW t \in Round3, p \in New, CountRound3(p, t) PROVE Rest'
      BY <3>1, QuietStep DEF CountRound3, runtime
    <3>. QED
      BY <2>3, <3>1, Round2Step, Round3Step, StoreStep, Round4Step, FinishStep, Round5Step
      DEF Callback
  <2>4. CASE UNCHANGED vars
    BY <2>4, QuietStep DEF vars, runtime
  <2>. QED  BY <2>1, <2>2, <2>3, <2>4 DEF Next
<1>. QED  BY <1>1, <1>2 DEF IInv, Rest

LEMMA Invariance == Spec => []IInv
<1>. QED  BY InitIInv, NextIInv, PTL DEF Spec

\* The types of the model are respected by every step.
THEOREM TypeCorrect == Spec => []TypeOK
<1>1. IInv => TypeOK
  BY DEF IInv
<1>. QED  BY <1>1, Invariance, PTL

\* round5Old erases an old share only after every other new party holds a
\* verified share, whatever the committees, faults, delays and cancellations.
THEOREM KeyNeverLost == Spec => []HandedOverBeforeErasure
<1>1. IInv => HandedOverBeforeErasure
  BY DEF IInv, Safety
<1>. QED  BY <1>1, Invariance, PTL

\* round3Old reveals shares only after the other new parties accepted the
\* commitments of round 1.
THEOREM CommitBeforeReveal == Spec => []SharesFollowCommitments
<1>1. IInv => SharesFollowCommitments
  BY DEF IInv, Safety
<1>. QED  BY <1>1, Invariance, PTL

\* A pure new party that reports success belongs to a committee that holds the
\* whole key, dealt by the whole old committee.
THEOREM CollectiveSuccess == Spec => []SuccessIsCollective
<1>1. IInv => SuccessIsCollective
  BY DEF IInv, Safety
<1>. QED  BY <1>1, Invariance, PTL
---------------------------------------------------------------------------
\* A callback counts after it has published its slice.
JoinInv == \A n \in New : counted[n] \subseteq stored[n]

\* How far a new party has come: round2New accepts one public key and connects
\* the round 3 collectors, a slice is stored, both callbacks have counted, the
\* key is built.  An error of a pure new party ends it in round2New or round4New.
NewProgress ==
  \A n \in New :
    /\ eddsaPub[n] # None => "round1" \in ran[n]
    /\ (\E t \in Round3, q \in Party : <<t, q>> \in want[n]) => eddsaPub[n] # None
    /\ stored[n] # {} => eddsaPub[n] # None
    /\ n \in newKey => counted[n] = Round3
    /\ n \notin Old =>
         /\ done[n] # None => n \in newKey
         /\ n \in failed => /\ n \notin newKey /\ "round1" \in ran[n]
                            /\ counted[n] = Round3 \/ eddsaPub[n] = None

\* How far a pure old party has come: an error ends it in round3Old, before it
\* has dealt, or in round5Old, instead of the result.
OldProgress ==
  \A o \in Old \ New :
    /\ o \in dealt => "round2" \in ran[o]
    /\ done[o] # None => o \in dealt /\ "round4" \in ran[o]
    /\ o \in failed => /\ "round2" \in ran[o] /\ done[o] = None
                       /\ o \in dealt => "round4" \in ran[o]

Progress == JoinInv /\ NewProgress /\ OldProgress

LEMMA InitProgress == Init => Progress
BY CommitteeAssumption DEF Init, RuntimeInit, Progress, JoinInv, NewProgress, OldProgress

\* What a step leaves alone is no progress.
LEMMA ProgressFrame ==
  ASSUME Progress,
         UNCHANGED <<want, ran, done, failed, eddsaPub, dealt, stored, counted, newKey>>
  PROVE  Progress'
BY DEF Progress, JoinInv, NewProgress, OldProgress

\* NewResharing connects no round 3 collector.
LEMMA StartProgress ==
  ASSUME IInv, Progress, NEW p \in Party, Start(p)
  PROVE  Progress'
<1>. USE CommitteeAssumption, Types DEF IInv
<1>1. UNCHANGED <<ran, done, failed, eddsaPub, dealt, stored, counted, newKey>>
  BY DEF Start
<1>2. \A q \in Party \ {p} : want'[q] = want[q]
  BY DEF Start, TypeOK
<1>3. \A t \in Round3, q \in Party : <<t, q>> \notin want'[p]
  <2>1. want'[p] = (IF p \in Old THEN Connect({}, "round2", New \ {p}) ELSE {})
                   \cup (IF p \in New THEN Connect({}, "round1", Old) ELSE {})
    BY DEF Start, TypeOK
  <2>2. \A t \in Round3 : t # "round1" /\ t # "round2"
    BY DEF Round3
  <2>. QED  BY <2>1, <2>2 DEF Connect
<1>4. NewProgress'
  BY <1>1, <1>2, <1>3 DEF Progress, NewProgress
<1>. QED  BY <1>1, <1>4 DEF Progress, JoinInv, OldProgress

\* round2New runs once, before a slice is stored.
LEMMA Round2Progress ==
  ASSUME IInv, Progress, NEW p \in Party, Round2New(p)
  PROVE  Progress'
<1>. USE CommitteeAssumption, Types DEF IInv
<1>0. p \in New /\ "round1" \notin ran[p] /\ ran' = [ran EXCEPT ![p] = @ \cup {"round1"}]
  BY DEF Round2New
<1>1. UNCHANGED <<done, dealt, stored, counted, newKey>>
  BY Zenon DEF Round2New
<1>2. /\ \A q \in Party \ {p} : want'[q] = want[q] /\ (q \in failed' <=> q \in failed)
      /\ \A q \in New \ {p} : eddsaPub'[q] = eddsaPub[q]
      /\ \A q \in Party : ran[q] \subseteq ran'[q]
      /\ \A q \in Party \ {p} : ran'[q] = ran[q]
      /\ "round1" \in ran'[p]
  <2>1. \A q \in Party \ {p} : want'[q] = want[q]
    BY Zenon DEF Round2New, TypeOK
  <2>2. \A q \in Party \ {p} : q \in failed' <=> q \in failed
    BY Zenon DEF Round2New, Fail
  <2>3. \A q \in New \ {p} : eddsaPub'[q] = eddsaPub[q]
    BY Zenon DEF Round2New, TypeOK
  <2>4. /\ \A q \in Party : ran[q] \subseteq ran'[q]
        /\ \A q \in Party \ {p} : ran'[q] = ran[q]
        /\ "round1" \in ran'[p]
    BY <1>0 DEF TypeOK
  <2>. QED  BY <2>1, <2>2, <2>3, <2>4, Zenon
<1>3. eddsaPub[p] = None /\ stored[p] = {} /\ counted[p] = {} /\ p \notin newKey
  <2>1. eddsaPub[p] = None /\ stored[p] = {}
    BY <1>0 DEF Progress, NewProgress
  <2>2. counted[p] = {}
    BY <1>0, <2>1 DEF Progress, JoinInv
  <2>. QED  BY <1>0, <2>1, <2>2, Zenon DEF Progress, NewProgress, Round3
<1>4. \/ UNCHANGED <<want, eddsaPub>>
      \/ eddsaPub'[p] # None /\ failed' = failed
  <2>1. CASE UNCHANGED <<want, eddsaPub>>
    BY <2>1
  <2>2. CASE ~UNCHANGED <<want, eddsaPub>>
    <3>1. PICK pub \in {m.val : m \in Of(p, "round1")} : eddsaPub' = [eddsaPub EXCEPT ![p] = pub]
      BY <2>2 DEF Round2New
    <3>2. pub # None
      BY Contents, Zenon DEF Of
    <3>3. failed' = failed
      BY <2>2 DEF Round2New
    <3>. QED  BY <1>0, <3>1, <3>2, <3>3, Zenon DEF TypeOK
  <2>. QED  BY <2>1, <2>2
<1>5. p \notin Old => p \notin failed /\ done[p] = None
  BY <1>0, <1>3, ZenonT(60) DEF Progress, NewProgress
<1>6. NewProgress'
  <2>. SUFFICES ASSUME NEW n \in New
                PROVE /\ eddsaPub'[n] # None => "round1" \in ran'[n]
                      /\ (\E t \in Round3, q \in Party : <<t, q>> \in want'[n]) => eddsaPub'[n] # None
                      /\ stored'[n] # {} => eddsaPub'[n] # None
                      /\ n \in newKey' => counted'[n] = Round3
                      /\ n \notin Old =>
                           /\ done'[n] # None => n \in newKey'
                           /\ n \in failed' => /\ n \notin newKey' /\ "round1" \in ran'[n]
                                               /\ counted'[n] = Round3 \/ eddsaPub'[n] = None
    BY Zenon DEF NewProgress
  <2>1. CASE n = p
    BY <2>1, <1>1, <1>2, <1>3, <1>4, <1>5, Zenon DEF Progress, NewProgress
  <2>2. CASE n # p
    BY <2>2, <1>1, <1>2 DEF Progress, NewProgress
  <2>. QED  BY <2>1, <2>2
<1>7. OldProgress'
  BY <1>0, <1>1, <1>2 DEF Progress, OldProgress
<1>. QED  BY <1>1, <1>6, <1>7 DEF Progress, JoinInv
\* round3Old runs once, and moves a pure old party only.
LEMMA Round3Progress ==
  ASSUME IInv, Progress, NEW p \in Party, Round3Old(p)
  PROVE  Progress'
<1>. USE CommitteeAssumption, Types DEF IInv
<1>0. p \in Old /\ "round2" \notin ran[p] /\ ran' = [ran EXCEPT ![p] = @ \cup {"round2"}]
  BY DEF Round3Old
<1>1. UNCHANGED <<done, eddsaPub, stored, counted, newKey>>
  BY Zenon DEF Round3Old
<1>2. /\ \A q \in Party \ {p} : /\ q \in failed' <=> q \in failed
                                /\ q \in dealt' <=> q \in dealt
                                /\ ran'[q] = ran[q]
      /\ \A q \in Party : ran[q] \subseteq ran'[q]
      /\ "round2" \in ran'[p]
      /\ ~(p \in failed' \ failed /\ p \in dealt' \ dealt)
  BY <1>0 DEF Round3Old, TypeOK, Fail
<1>3. \A n \in New, t \in Round3, q \in Party : <<t, q>> \in want'[n] => <<t, q>> \in want[n]
  <2>1. \A n \in Party : \/ want'[n] = want[n]
                         \/ want'[n] = Connect(want[n], "round4", New \ {p})
    BY ZenonT(60) DEF Round3Old, TypeOK
  <2>2. "round4" \notin Round3
    BY ZenonT(60) DEF Round3
  <2>. QED  BY <2>1, <2>2 DEF Connect
<1>4. NewProgress'
  BY <1>0, <1>1, <1>2, <1>3 DEF Progress, NewProgress
<1>5. p \notin New => p \notin failed /\ p \notin dealt /\ done[p] = None
  BY <1>0 DEF Progress, OldProgress
<1>6. OldProgress'
  BY <1>0, <1>1, <1>2, <1>5 DEF Progress, OldProgress
<1>. QED  BY <1>1, <1>4, <1>6 DEF Progress, JoinInv

\* A slice is stored once its collector is complete, so after round2New.
LEMMA StoreProgress ==
  ASSUME IInv, Progress, NEW p \in New, NEW t \in Round3, StoreRound3(p, t)
  PROVE  Progress'
<1>. USE CommitteeAssumption, Types DEF IInv
<1>1. UNCHANGED <<want, done, failed, eddsaPub, dealt, counted, newKey>>
  BY DEF StoreRound3
<1>2. \A q \in Party : ran[q] \subseteq ran'[q] /\ (q # p => ran'[q] = ran[q])
  BY DEF StoreRound3, TypeOK
<1>3. \A n \in New : stored[n] \subseteq stored'[n] /\ (n # p => stored'[n] = stored[n])
  BY Zenon DEF StoreRound3, TypeOK
<1>4. eddsaPub[p] # None
  <2>1. Collected(p, t)
    BY DEF StoreRound3
  <2>2. \E q \in Party : <<t, q>> \in want[p]
    BY <2>1, CollectedSenders, Zenon
  <2>. QED  BY <2>2 DEF Progress, NewProgress
<1>5. JoinInv'
  BY <1>1, <1>3 DEF Progress, JoinInv
<1>6. NewProgress'
  BY <1>1, <1>2, <1>3, <1>4, Zenon DEF Progress, NewProgress
<1>7. OldProgress'
  BY <1>1, <1>2 DEF Progress, OldProgress
<1>. QED  BY <1>5, <1>6, <1>7 DEF Progress

\* The callback that counts first leaves the party in the middle of round 3.
LEMMA CountProgress ==
  ASSUME IInv, Progress, NEW p \in New, NEW t \in Round3, CountRound3(p, t)
  PROVE  Progress'
<1>. USE CommitteeAssumption DEF IInv
<1>1. UNCHANGED <<want, ran, done, failed, eddsaPub, dealt, stored, newKey>>
  BY DEF CountRound3, runtime
<1>2. t \in stored[p] \ counted[p] /\ counted' = [counted EXCEPT ![p] = @ \cup {t}]
  BY DEF CountRound3
<1>3. /\ counted'[p] = counted[p] \cup {t}
      /\ \A n \in New \ {p} : counted'[n] = counted[n]
  BY <1>2, Zenon DEF TypeOK
<1>4. p \notin newKey /\ (p \notin Old => p \notin failed)
  BY <1>2 DEF Progress, NewProgress
<1>5. JoinInv'
  BY <1>1, <1>2, <1>3, Zenon DEF Progress, JoinInv
<1>6. NewProgress'
  BY <1>1, <1>3, <1>4, Zenon DEF Progress, NewProgress
<1>7. OldProgress'
  BY <1>1 DEF Progress, OldProgress
<1>. QED  BY <1>5, <1>6, <1>7 DEF Progress

\* round4New ends with a key or with an error, and is not called again.
LEMMA Round4Progress ==
  ASSUME IInv, Progress, NEW p \in New, NEW t \in Round3, Round4New(p, t)
  PROVE  Progress'
<1>. USE CommitteeAssumption, Types DEF IInv
<1>1. UNCHANGED <<ran, eddsaPub, dealt, stored>>
  BY DEF Round4New
<1>2. /\ t \in stored[p] \ counted[p] /\ counted[p] # {}
      /\ counted' = [counted EXCEPT ![p] = @ \cup {t}]
  BY Zenon DEF Round4New
<1>3. /\ counted'[p] = Round3 /\ counted'[p] \subseteq stored[p]
      /\ \A n \in New \ {p} : counted'[n] = counted[n]
  <2>1. counted'[p] = counted[p] \cup {t} /\ counted[p] \subseteq Round3
    BY <1>2 DEF TypeOK
  <2>2. counted[p] \subseteq stored[p]
    BY DEF Progress, JoinInv
  <2>3. counted'[p] = Round3
    BY <1>2, <2>1 DEF Round3
  <2>4. \A n \in New \ {p} : counted'[n] = counted[n]
    BY <1>2, Zenon DEF TypeOK
  <2>. QED  BY <1>2, <2>1, <2>2, <2>3, <2>4
<1>4. eddsaPub[p] # None /\ "round1" \in ran[p] /\ p \notin newKey
      /\ (p \notin Old => p \notin failed /\ done[p] = None)
  BY <1>2 DEF Progress, NewProgress
<1>5. \A n \in New, u \in Round3, q \in Party : <<u, q>> \in want'[n] => <<u, q>> \in want[n]
  <2>1. \A n \in Party : \/ want'[n] = want[n]
                         \/ want'[n] = Connect(want[n], "round4", New \ {p})
    BY DEF Round4New, TypeOK
  <2>2. "round4" \notin Round3
    BY Zenon DEF Round3
  <2>. QED  BY <2>1, <2>2 DEF Connect
<1>6. /\ \A q \in Party \ {p} : /\ q \in failed' <=> q \in failed
                                /\ q \in newKey' <=> q \in newKey
                                /\ done'[q] = done[q]
      /\ ~(p \in failed' \ failed /\ p \in newKey' \ newKey)
      /\ p \notin Old => (done'[p] # done[p] => p \in newKey')
  BY DEF Round4New, TypeOK, Fail, SendDone
<1>7. JoinInv'
  BY <1>1, <1>3, Zenon DEF Progress, JoinInv
<1>8. NewProgress'
  BY <1>1, <1>3, <1>4, <1>5, <1>6, Zenon DEF Progress, NewProgress
<1>9. OldProgress'
  BY <1>1, <1>6, Zenon DEF Progress, OldProgress
<1>. QED  BY <1>7, <1>8, <1>9 DEF Progress

\* A pure new party delivers the key it has built.
LEMMA FinishProgress ==
  ASSUME IInv, Progress, NEW p \in Party, FinishNew(p)
  PROVE  Progress'
<1>. USE CommitteeAssumption, Types DEF IInv
<1>1. UNCHANGED <<want, failed, eddsaPub, dealt, stored, counted, newKey>>
  BY DEF FinishNew
<1>2. p \in New \ Old /\ Collected(p, "round4")
  BY DEF FinishNew
<1>3. p \in newKey
  BY <1>2, CollectedSenders, Zenon DEF WantInv
<1>4. /\ \A q \in Party : ran[q] \subseteq ran'[q] /\ (q # p => ran'[q] = ran[q])
      /\ \A q \in Party \ {p} : done'[q] = done[q]
  BY Zenon DEF FinishNew, TypeOK, SendDone
<1>5. NewProgress'
  BY <1>1, <1>3, <1>4, Zenon DEF Progress, NewProgress
<1>6. OldProgress'
  BY <1>1, <1>2, <1>4 DEF Progress, OldProgress
<1>. QED  BY <1>1, <1>5, <1>6, Zenon DEF Progress, JoinInv

\* round5Old runs once, and ends with the result or with an error.
LEMMA Round5Progress ==
  ASSUME IInv, Progress, NEW p \in Party, Round5Old(p)
  PROVE  Progress'
<1>. USE CommitteeAssumption DEF IInv
<1>1. UNCHANGED <<want, eddsaPub, dealt, stored, counted, newKey>>
  BY DEF Round5Old
<1>2. p \in dealt /\ p \in Old /\ "round4" \notin ran[p]
  BY DEF Round5Old, TypeOK
<1>3. /\ \A q \in Party : ran[q] \subseteq ran'[q] /\ (q # p => ran'[q] = ran[q])
      /\ "round4" \in ran'[p]
      /\ \A q \in Party \ {p} : done'[q] = done[q] /\ (q \in failed' <=> q \in failed)
      /\ ~(done'[p] # done[p] /\ p \in failed' \ failed)
  BY DEF Round5Old, TypeOK, SendDone, Fail
<1>4. p \notin New => p \notin failed /\ done[p] = None
  BY <1>2, Zenon DEF Progress, OldProgress
<1>5. NewProgress'
  BY <1>1, <1>2, <1>3, Zenon DEF Progress, NewProgress
<1>6. OldProgress'
  BY <1>1, <1>2, <1>3, <1>4 DEF Progress, OldProgress
<1>. QED  BY <1>1, <1>5, <1>6 DEF Progress, JoinInv

LEMMA NextProgress ==
  ASSUME IInv, Progress, [Next]_vars
  PROVE  Progress'
<1>1. ASSUME NEW p \in Party, Deliver(p) \/ CancelContext(p) PROVE Progress'
  BY <1>1, ProgressFrame, Zenon DEF Deliver, Receive, CancelContext, Cancel
<1>2. ASSUME NEW p \in Party, Callback(p) PROVE Progress'
  BY <1>2, Round2Progress, Round3Progress, StoreProgress, CountProgress, Round4Progress,
     FinishProgress, Round5Progress DEF Callback
<1>3. CASE UNCHANGED vars
  BY <1>3, ProgressFrame DEF vars, runtime
<1>. QED  BY <1>1, <1>2, <1>3, StartProgress DEF Next

LEMMA ProgressInvariance == Spec => [](IInv /\ Progress)
<1>. QED  BY InitIInv, InitProgress, NextIInv, NextProgress, PTL DEF Spec

\* check(): whoever counts to 2 finds both slices stored, for any committees.
THEOREM JoinSound == Spec => []JoinSeesBothSlices
<1>1. IInv /\ Progress => JoinSeesBothSlices
  BY Zenon DEF IInv, Progress, TypeOK, JoinInv, JoinSeesBothSlices
<1>. QED  BY <1>1, ProgressInvariance, PTL

\* A party of one committee is told a result or an error, never both, whatever
\* its peers send and whenever its context is cancelled.
THEOREM ExclusiveOutcome == Spec => []OneOutcome
<1>1. IInv /\ Progress => OneOutcome
  <2>. SUFFICES ASSUME IInv, Progress, NEW p \in Party, p \in failed, done[p] # None,
                       p \notin Old \cap New
                PROVE  FALSE
    BY DEF OneOutcome
  <2>1. CASE p \in New \ Old
    BY <2>1 DEF Progress, NewProgress
  <2>2. CASE p \in Old \ New
    BY <2>2 DEF Progress, OldProgress
  <2>. QED  BY <2>1, <2>2, CommitteeAssumption
<1>. QED  BY <1>1, ProgressInvariance, PTL
---------------------------------------------------------------------------
\* What the refinement of the script needs to know besides.
Dealing == {"round1"} \cup Round3

\* A party holds messages that were sent to it; an old party deals to each new
\* one once.
MailInv ==
  /\ \A p \in Party : \A m \in got[p] : m.to = p
  /\ \A m \in net : m.type = "round1" => m.from \in Old \cap started
  /\ \A m, k \in net :
       m.type \in Dealing /\ m.type = k.type /\ m.from = k.from /\ m.to = k.to => m = k

\* A new party collects round 1 from the whole old committee, and the key it has
\* accepted is the one in all of these messages.
OfferInv ==
  \A n \in New :
    /\ \A q \in Party : <<"round1", q>> \in want[n] =>
         q \in Old /\ \A o \in Old : <<"round1", o>> \in want[n]
    /\ eddsaPub[n] # None =>
         Old \subseteq Senders(n, "round1") /\ \A m \in Of(n, "round1") : m.val = eddsaPub[n]

\* What a party has done its callbacks have run for.
CallInv ==
  /\ \A o \in Old : /\ o \in dealt => "round2" \in ran[o]
                    /\ o \in erased => "round4" \in ran[o]
  /\ \A n \in New : joiner[n] # None <=> counted[n] = Round3

RefInv == MailInv /\ OfferInv /\ CallInv

LEMMA InitRefInv == Init => RefInv
<1>. SUFFICES ASSUME Init PROVE RefInv
  OBVIOUS
<1>1. MailInv /\ OfferInv
  BY CommitteeAssumption DEF Init, RuntimeInit, MailInv, OfferInv
<1>2. CallInv
  BY CommitteeAssumption DEF Init, RuntimeInit, CallInv, Round3
<1>. QED  BY <1>1, <1>2, Zenon DEF RefInv

\* NewResharing sends round 1 for the first time.
LEMMA StartRefInv ==
  ASSUME IInv, RefInv, NEW p \in Party, Start(p)
  PROVE  RefInv'
<1>. USE CommitteeAssumption, Types DEF IInv
<1>1. UNCHANGED <<got, ran, eddsaPub, dealt, counted, joiner, erased>>
  BY DEF Start
<1>2. p \notin started /\ started' = started \cup {p}
  BY DEF Start
<1>3. PICK pub \in Value :
        net' = net \cup (IF p \in Old THEN ToAll("round1", p, New, pub) ELSE {})
  BY DEF Start
<1>4. \A m \in net' \ net : p \in Old /\ \E q \in New :
        m = [type |-> "round1", from |-> p, to |-> q, val |-> pub]
  BY <1>3 DEF ToAll
<1>5. MailInv'
  <2>1. \A p_1 \in Party : \A m \in got'[p_1] : m.to = p_1
    BY <1>1, Zenon DEF RefInv, MailInv
  <2>2. \A m \in net' : m.type = "round1" => m.from \in Old \cap started'
    BY <1>2, <1>4 DEF RefInv, MailInv
  <2>3. ASSUME NEW m \in net', NEW k \in net', m.type \in Dealing,
               m.type = k.type, m.from = k.from, m.to = k.to
        PROVE  m = k
    <3>1. \A x \in net : x.type = "round1" => x.from # p
      BY <1>2 DEF RefInv, MailInv
    <3>2. CASE m \in net /\ k \in net
      BY <2>3, <3>2 DEF RefInv, MailInv
    <3>3. CASE m \notin net /\ k \notin net
      BY <2>3, <3>3, <1>4
    <3>4. CASE m \notin net /\ k \in net
      BY <2>3, <3>1, <3>4, <1>4
    <3>5. CASE m \in net /\ k \notin net
      BY <2>3, <3>1, <3>5, <1>4
    <3>. QED  BY <3>2, <3>3, <3>4, <3>5
  <2>. QED  BY <2>1, <2>2, <2>3, Zenon DEF MailInv
<1>6. OfferInv'
  <2>1. \A q \in Party \ {p} : want'[q] = want[q]
    BY DEF Start, TypeOK
  <2>2. want'[p] = (IF p \in Old THEN Connect({}, "round2", New \ {p}) ELSE {})
                   \cup (IF p \in New THEN Connect({}, "round1", Old) ELSE {})
    BY Zenon DEF Start, TypeOK
  <2>3. p \in New => \A q \in Party : <<"round1", q>> \in want'[p] <=> q \in Old
    BY <2>2 DEF Connect
  <2>4. \A n \in New : \A q \in Party : <<"round1", q>> \in want'[n] =>
          q \in Old /\ \A o \in Old : <<"round1", o>> \in want'[n]
    BY <2>1, <2>3, Zenon DEF RefInv, OfferInv
  <2>. QED  BY <1>1, <2>4, Zenon DEF RefInv, OfferInv, Senders, Of
<1>7. CallInv'
  BY <1>1 DEF RefInv, CallInv
<1>. QED  BY <1>5, <1>6, <1>7 DEF RefInv

\* A collector that is full takes nothing more.
LEMMA DeliverRefInv ==
  ASSUME IInv, RefInv, NEW p \in Party, Deliver(p)
  PROVE  RefInv'
<1>. USE CommitteeAssumption, Types DEF IInv
<1>1. PICK m \in net : /\ m.to = p /\ <<m.type, m.from>> \in want[p]
                       /\ m.from \notin Senders(p, m.type)
                       /\ got' = [got EXCEPT ![p] = @ \cup {m}]
  BY Zenon DEF Deliver, Receive
<1>2. UNCHANGED <<net, want, ran, started, eddsaPub, dealt, counted, joiner, erased>>
  BY DEF Deliver, Receive
<1>3. \A q \in Party : got'[q] = IF q = p THEN got[p] \cup {m} ELSE got[q]
  BY <1>1, Zenon DEF TypeOK
<1>4. MailInv'
  BY <1>1, <1>2, <1>3 DEF RefInv, MailInv
<1>5. OfferInv'
  <2>1. ASSUME NEW n \in New, eddsaPub[n] # None
        PROVE  Of(n, "round1")' = Of(n, "round1")
    <3>1. CASE n = p /\ m.type = "round1"
      <4>1. m.from \in Party
        BY DEF TypeOK, Message
      <4>2. m.from \in Old
        BY <1>1, <3>1, <4>1, Zenon DEF RefInv, OfferInv
      <4>. QED  BY <1>1, <2>1, <3>1, <4>2 DEF RefInv, OfferInv
    <3>2. CASE ~(n = p /\ m.type = "round1")
      BY <1>3, <3>2 DEF Of
    <3>. QED  BY <3>1, <3>2, Zenon
  <2>2. \A n \in New : eddsaPub[n] # None => Senders(n, "round1")' = Senders(n, "round1")
    BY <2>1 DEF Senders
  <2>. QED  BY <1>2, <2>1, <2>2, Zenon DEF RefInv, OfferInv
<1>6. CallInv'
  BY <1>2 DEF RefInv, CallInv
<1>. QED  BY <1>4, <1>5, <1>6 DEF RefInv

\* The collector of round 1 is complete with the whole old committee.
LEMMA OffersOfAll ==
  ASSUME TypeOK, RefInv, NEW n \in New, Collected(n, "round1")
  PROVE  Old \subseteq Senders(n, "round1")
<1>. USE CommitteeAssumption, Types
<1>1. PICK q \in Party : <<"round1", q>> \in want[n]
  BY CollectedSenders
<1>2. \A o \in Old : <<"round1", o>> \in want[n]
  BY <1>1, Zenon DEF RefInv, OfferInv
<1>. QED  BY <1>2, CollectedSenders, Zenon

\* round2New accepts the one key of all old parties.
LEMMA Round2RefInv ==
  ASSUME IInv, RefInv, NEW p \in Party, Round2New(p)
  PROVE  RefInv'
<1>. USE CommitteeAssumption, Types DEF IInv
<1>0. p \in New /\ ran' = [ran EXCEPT ![p] = @ \cup {"round1"}] /\ Collected(p, "round1")
  BY DEF Round2New
<1>1. UNCHANGED <<got, started, dealt, counted, joiner, erased>>
  BY Zenon DEF Round2New
<1>2. /\ \A q \in Party \ {p} : want'[q] = want[q]
      /\ \A q \in New \ {p} : eddsaPub'[q] = eddsaPub[q]
      /\ \A q \in Party : ran[q] \subseteq ran'[q]
  <2>1. \A q \in Party \ {p} : want'[q] = want[q]
    BY Zenon DEF Round2New, TypeOK
  <2>2. \A q \in New \ {p} : eddsaPub'[q] = eddsaPub[q]
    BY Zenon DEF Round2New, TypeOK
  <2>3. \A q \in Party : ran[q] \subseteq ran'[q]
    BY <1>0 DEF TypeOK
  <2>. QED  BY <2>1, <2>2, <2>3, Zenon
<1>3. net \subseteq net' /\ \A m \in net' \ net : m.type = "round2"
  <2>1. \/ net' = net
        \/ net' = net \cup ToAll("round2", p, Old \ {p}, "ack")
    BY Zenon DEF Round2New
  <2>. QED  BY <2>1, ToAllMessage
<1>4. MailInv'
  BY <1>1, <1>3, Zenon DEF RefInv, MailInv, Dealing, Round3
<1>5. OfferInv'
  <2>1. \A q \in Party : <<"round1", q>> \in want'[p] <=> <<"round1", q>> \in want[p]
    <3>1. \/ want'[p] = want[p]
          \/ want'[p] = Connect(Connect(want[p], "round3-1", Old), "round3-2", Old)
      BY Zenon DEF Round2New, TypeOK
    <3>. QED  BY <3>1 DEF Connect
  <2>2. \A n \in New : \A q \in Party : <<"round1", q>> \in want'[n] =>
          q \in Old /\ \A o \in Old : <<"round1", o>> \in want'[n]
    BY <1>2, <2>1, Zenon DEF RefInv, OfferInv
  <2>3. eddsaPub'[p] = eddsaPub[p] \/ \A m \in Of(p, "round1") : m.val = eddsaPub'[p]
    <3>1. CASE UNCHANGED eddsaPub
      BY <3>1
    <3>2. CASE ~UNCHANGED eddsaPub
      <4>1. PICK pub \in {m.val : m \in Of(p, "round1")} :
              /\ {m.val : m \in Of(p, "round1")} = {pub}
              /\ eddsaPub' = [eddsaPub EXCEPT ![p] = pub]
        BY <3>2, Zenon DEF Round2New
      <4>. QED  BY <1>0, <4>1, Zenon DEF TypeOK
    <3>. QED  BY <3>1, <3>2
  <2>4. Old \subseteq Senders(p, "round1")
    BY <1>0, OffersOfAll
  <2>5. /\ \A n \in New : Of(n, "round1")' = Of(n, "round1")
        /\ \A n \in New : Senders(n, "round1")' = Senders(n, "round1")
    BY <1>1, Zenon DEF Senders, Of
  <2>6. \A n \in New : eddsaPub'[n] # None =>
          Old \subseteq Senders(n, "round1") /\ \A m \in Of(n, "round1") : m.val = eddsaPub'[n]
    BY <1>2, <2>3, <2>4 DEF RefInv, OfferInv
  <2>. QED  BY <2>2, <2>5, <2>6, Zenon DEF OfferInv
<1>6. CallInv'
  BY <1>1, <1>2, Zenon DEF RefInv, CallInv
<1>. QED  BY <1>4, <1>5, <1>6, Zenon DEF RefInv

\* What round3Old hands to the broker: one share and one decommitment for each
\* new party, right ones unless the party is faulty.
LEMMA Dealt ==
  ASSUME NEW p \in Party, Round3Old(p), p \notin cancelled
  PROVE  \E share \in [New -> {"ok", "bad"}], opening \in {"ok", "bad"} :
           /\ p \notin Faulty => opening = "ok" /\ \A q \in New : share[q] = "ok"
           /\ net' = net \cup {[type |-> "round3-1", from |-> p, to |-> q, val |-> share[q]] : q \in New}
                         \cup {[type |-> "round3-2", from |-> p, to |-> q, val |-> opening] : q \in New}
<1>1. PICK bad \in SUBSET New, opening \in {"ok", "bad"} :
        /\ p \notin Faulty => bad = {} /\ opening = "ok"
        /\ net' = net \cup ToAll("round3-1", p, New \ bad, "ok")
                      \cup ToAll("round3-1", p, bad, "bad")
                      \cup ToAll("round3-2", p, New, opening)
  BY Zenon DEF Round3Old
<1>. DEFINE share == [q \in New |-> IF q \in bad THEN "bad" ELSE "ok"]
<1>2. share \in [New -> {"ok", "bad"}] /\ (p \notin Faulty => \A q \in New : share[q] = "ok")
  BY <1>1
<1>3. ToAll("round3-1", p, New \ bad, "ok") \cup ToAll("round3-1", p, bad, "bad")
        = {[type |-> "round3-1", from |-> p, to |-> q, val |-> share[q]] : q \in New}
  BY Zenon DEF ToAll
<1>4. ToAll("round3-2", p, New, opening)
        = {[type |-> "round3-2", from |-> p, to |-> q, val |-> opening] : q \in New}
  BY DEF ToAll
<1>. HIDE DEF share
<1>. QED  BY <1>1, <1>2, <1>3, <1>4, ZenonT(60)

\* round3Old deals for the first time.
LEMMA Round3RefInv ==
  ASSUME IInv, RefInv, NEW p \in Party, Round3Old(p)
  PROVE  RefInv'
<1>. USE CommitteeAssumption, Types DEF IInv
<1>0. /\ p \in Old \cap started /\ "round2" \notin ran[p]
      /\ ran' = [ran EXCEPT ![p] = @ \cup {"round2"}]
  BY DEF Round3Old
<1>1. UNCHANGED <<got, started, eddsaPub, counted, joiner, erased>>
  BY Zenon DEF Round3Old
<1>2. /\ \A q \in Party \ {p} : want'[q] = want[q]
      /\ \A q \in Party : ran[q] \subseteq ran'[q]
      /\ "round2" \in ran'[p]
  BY <1>0 DEF Round3Old, TypeOK
<1>3. dealt' \subseteq dealt \cup {p} /\ p \notin dealt
  BY <1>0, Zenon DEF Round3Old, RefInv, CallInv
<1>4. /\ net \subseteq net'
      /\ \A m \in net' \ net : m.type \in Round3 /\ m.from = p
      /\ \A m, k \in net' \ net : m.type = k.type /\ m.to = k.to => m = k
  <2>1. CASE net' = net
    BY <2>1, Zenon
  <2>2. CASE p \notin cancelled
    <3>1. PICK share \in [New -> {"ok", "bad"}], opening \in {"ok", "bad"} :
            net' = net \cup {[type |-> "round3-1", from |-> p, to |-> q, val |-> share[q]] : q \in New}
                       \cup {[type |-> "round3-2", from |-> p, to |-> q, val |-> opening] : q \in New}
      BY <2>2, Dealt, ZenonT(60)
    <3>2. \A m \in net' \ net : \E q \in New :
            \/ m = [type |-> "round3-1", from |-> p, to |-> q, val |-> share[q]]
            \/ m = [type |-> "round3-2", from |-> p, to |-> q, val |-> opening]
      BY <3>1
    <3>3. \A m, k \in net' \ net : m.type = k.type /\ m.to = k.to => m = k
      BY <3>2
    <3>4. \A m \in net' \ net : m.type \in Round3 /\ m.from = p
      BY <3>2 DEF Round3
    <3>. QED  BY <3>1, <3>3, <3>4, Zenon
  <2>. QED  BY <2>1, <2>2 DEF Round3Old
<1>5. MailInv'
  <2>1. \A m \in net : m.type \in Round3 => m.from # p
    BY <1>3 DEF NetInv
  <2>2. "round1" \notin Round3
    BY DEF Round3
  <2>3. ASSUME NEW m \in net', NEW k \in net', m.type \in Dealing,
               m.type = k.type, m.from = k.from, m.to = k.to
        PROVE  m = k
    <3>1. CASE m \in net /\ k \in net
      BY <2>3, <3>1 DEF RefInv, MailInv
    <3>2. CASE m \notin net /\ k \notin net
      BY <2>3, <3>2, <1>4
    <3>3. CASE m \notin net /\ k \in net
      BY <2>1, <2>3, <3>3, <1>4
    <3>4. CASE m \in net /\ k \notin net
      BY <2>1, <2>3, <3>4, <1>4
    <3>. QED  BY <3>1, <3>2, <3>3, <3>4
  <2>4. \A m \in net' : m.type = "round1" => m.from \in Old \cap started'
    BY <1>1, <1>4, <2>2 DEF RefInv, MailInv
  <2>. QED  BY <1>1, <2>3, <2>4, Zenon DEF RefInv, MailInv
<1>6. OfferInv'
  <2>1. \A q \in Party : <<"round1", q>> \in want'[p] <=> <<"round1", q>> \in want[p]
    <3>1. want'[p] = want[p] \/ want'[p] = Connect(want[p], "round4", New \ {p})
      BY DEF Round3Old, TypeOK
    <3>. QED  BY <3>1, Zenon DEF Connect
  <2>2. \A n \in New : \A q \in Party : <<"round1", q>> \in want'[n] =>
          q \in Old /\ \A o \in Old : <<"round1", o>> \in want'[n]
    BY <1>2, <2>1, ZenonT(60) DEF RefInv, OfferInv
  <2>. QED  BY <1>1, <2>2, Zenon DEF RefInv, OfferInv, Senders, Of
<1>7. CallInv'
  BY <1>1, <1>2, <1>3, Zenon DEF RefInv, CallInv
<1>. QED  BY <1>5, <1>6, <1>7 DEF RefInv

\* Steps that connect no round 1 collector, deal nothing and count nothing.
LEMMA RefFrame ==
  ASSUME IInv, RefInv, UNCHANGED <<got, started, eddsaPub, dealt, counted, joiner>>,
         \A q \in Party : ran[q] \subseteq ran'[q],
         net \subseteq net', \A m \in net' \ net : m.type \notin Dealing,
         \A n \in New, q \in Party : <<"round1", q>> \in want'[n] <=> <<"round1", q>> \in want[n],
         \A o \in erased' : o \in erased \/ "round4" \in ran'[o]
  PROVE  RefInv'
<1>. USE CommitteeAssumption
<1>1. MailInv'
  BY ZenonT(60) DEF RefInv, MailInv, Dealing
<1>2. OfferInv'
  BY Zenon DEF RefInv, OfferInv, Senders, Of
<1>3. CallInv'
  BY DEF RefInv, CallInv
<1>. QED  BY <1>1, <1>2, <1>3 DEF RefInv

\* The two callbacks of round 3, counted.
LEMMA Counting ==
  ASSUME NEW S \in SUBSET Round3, NEW t \in Round3
  PROVE  /\ S # {} /\ t \notin S => S \cup {t} = Round3
         /\ S = {} => S # Round3 /\ S \cup {t} # Round3
<1>1. \A x : x \in Round3 <=> x = "round3-1" \/ x = "round3-2"
  BY DEF Round3
<1>2. "round3-1" # "round3-2"
  OBVIOUS
<1>3. ASSUME S # {}, t \notin S, NEW x PROVE x \in S \cup {t} <=> x \in Round3
  BY <1>1, <1>3
<1>4. ASSUME S = {} PROVE S # Round3 /\ S \cup {t} # Round3
  BY <1>1, <1>2, <1>4
<1>. QED  BY <1>3, <1>4, Zenon

\* The second callback that counts is the one that joins.
LEMMA CountRefInv ==
  ASSUME IInv, RefInv, NEW p \in New, NEW t \in Round3, CountRound3(p, t) \/ Round4New(p, t)
  PROVE  RefInv'
<1>. USE CommitteeAssumption, Types DEF IInv
<1>0. /\ t \notin counted[p] /\ counted' = [counted EXCEPT ![p] = @ \cup {t}]
      /\ UNCHANGED <<got, ran, started, eddsaPub, dealt, erased>>
  BY DEF CountRound3, Round4New, runtime
<1>1. net \subseteq net' /\ \A m \in net' \ net : m.type = "round4"
  <2>1. \/ net' = net
        \/ net' = net \cup ToAll("round4", p, Party \ {p}, "ack")
    BY Zenon DEF CountRound3, Round4New, runtime, Acked
  <2>. QED  BY <2>1, ToAllMessage
<1>2. MailInv'
  BY <1>0, <1>1 DEF RefInv, MailInv, Dealing, Round3
<1>3. OfferInv'
  <2>1. \A n \in New, q \in Party :
          <<"round1", q>> \in want'[n] <=> <<"round1", q>> \in want[n]
    <3>1. \A n \in New \ {p} : want'[n] = want[n]
      BY Zenon DEF CountRound3, Round4New, runtime, TypeOK
    <3>2. want'[p] = want[p] \/ want'[p] = Connect(want[p], "round4", New \ {p})
      BY DEF CountRound3, Round4New, runtime, TypeOK
    <3>3. \A q : <<"round1", q>> \in Connect(want[p], "round4", New \ {p}) <=> <<"round1", q>> \in want[p]
      BY DEF Connect
    <3>. QED  BY <3>1, <3>2, <3>3, Zenon
  <2>2. \A n \in New : \A q \in Party : <<"round1", q>> \in want'[n] =>
          q \in Old /\ \A o \in Old : <<"round1", o>> \in want'[n]
    BY <2>1, Zenon DEF RefInv, OfferInv
  <2>. QED  BY <1>0, <2>2, Zenon DEF RefInv, OfferInv, Senders, Of
<1>4. CallInv'
  <2>0. counted[p] \in SUBSET Round3
    BY Zenon DEF TypeOK
  <2>1. \A n \in New \ {p} : counted'[n] = counted[n] /\ joiner'[n] = joiner[n]
    <3>1. joiner' = joiner \/ joiner' = [joiner EXCEPT ![p] = t]
      BY Zenon DEF CountRound3, Round4New
    <3>. QED  BY <1>0, <3>1, Zenon DEF TypeOK
  <2>2. counted'[p] = counted[p] \cup {t}
    BY <1>0, Zenon DEF TypeOK
  <2>3. CASE CountRound3(p, t)
    <3>1. counted[p] = {} /\ joiner' = joiner
      BY <2>3, Zenon DEF CountRound3
    <3>2. counted[p] # Round3 /\ counted'[p] # Round3
      BY <2>0, <2>2, <3>1, Counting, Zenon
    <3>. QED  BY <1>0, <2>1, <3>1, <3>2, Zenon DEF RefInv, CallInv
  <2>4. CASE Round4New(p, t)
    <3>1. counted[p] # {} /\ joiner'[p] = t
      BY <2>4, Zenon DEF Round4New, TypeOK
    <3>2. counted'[p] = Round3
      BY <1>0, <2>0, <2>2, <3>1, Counting, Zenon
    <3>3. t # None
      BY NoneAssumption DEF Round3
    <3>. QED  BY <1>0, <2>1, <3>1, <3>2, <3>3, Zenon DEF RefInv, CallInv
  <2>. QED  BY <2>3, <2>4, Zenon
<1>. QED  BY <1>2, <1>3, <1>4, Zenon DEF RefInv

LEMMA NextRefInv == IInv /\ RefInv /\ [Next]_vars => RefInv'
<1>. SUFFICES ASSUME IInv, RefInv, [Next]_vars PROVE RefInv'
  BY Zenon
<1>. USE CommitteeAssumption, Types
<1>1. ASSUME NEW p \in Party, CancelContext(p) PROVE RefInv'
  BY <1>1, RefFrame, Zenon DEF CancelContext, Cancel
<1>2. ASSUME NEW p \in New, NEW t \in Round3, StoreRound3(p, t) PROVE RefInv'
  <2>1. \A q \in Party : ran[q] \subseteq ran'[q]
    BY <1>2, Zenon DEF StoreRound3, IInv, TypeOK
  <2>. QED  BY <1>2, <2>1, RefFrame, Zenon DEF StoreRound3
<1>3. ASSUME NEW p \in Party, FinishNew(p) PROVE RefInv'
  <2>1. \A q \in Party : ran[q] \subseteq ran'[q]
    BY <1>3, Zenon DEF FinishNew, IInv, TypeOK
  <2>. QED  BY <1>3, <2>1, RefFrame, Zenon DEF FinishNew
<1>4. ASSUME NEW p \in Party, Round5Old(p) PROVE RefInv'
  <2>1. (\A q \in Party : ran[q] \subseteq ran'[q]) /\ "round4" \in ran'[p]
    BY <1>4 DEF Round5Old, IInv, TypeOK
  <2>2. \A o \in erased' : o \in erased \/ "round4" \in ran'[o]
    BY <1>4, <2>1, Zenon DEF Round5Old
  <2>. QED  BY <1>4, <2>1, <2>2, RefFrame, Zenon DEF Round5Old
<1>5. CASE UNCHANGED vars
  BY <1>5, RefFrame, Zenon DEF vars, runtime
<1>6. ASSUME NEW p \in Party, Callback(p) PROVE RefInv'
  BY <1>2, <1>3, <1>4, <1>6, Round2RefInv, Round3RefInv, CountRefInv DEF Callback
<1>. QED  BY <1>1, <1>5, <1>6, StartRefInv, DeliverRefInv DEF Next

\* What the messages of the dealing carry.
ContentInv ==
  \A m \in net : /\ m.type = "round1" => m.val \in {"pub", "other"}
                 /\ m.type \in Round3 => m.val \in {"ok", "bad"}

LEMMA NextContentInv == IInv /\ ContentInv /\ [Next]_vars => ContentInv'
<1>. SUFFICES ASSUME IInv, ContentInv, [Next]_vars PROVE ContentInv'
  OBVIOUS
<1>. USE CommitteeAssumption, Types
<1>1. ASSUME NEW p \in Party, Start(p) PROVE ContentInv'
  <2>1. PICK pub \in {"pub", "other"} :
          net' = net \cup (IF p \in Old THEN ToAll("round1", p, New, pub) ELSE {})
    BY <1>1, Zenon DEF Start
  <2>2. \A m \in net' \ net : m.type = "round1" /\ m.val = pub
    BY <2>1 DEF ToAll
  <2>. QED  BY <2>2, Zenon DEF ContentInv, Round3
<1>2. ASSUME NEW p \in Party, Round3Old(p) PROVE ContentInv'
  <2>1. CASE net' = net
    BY <2>1 DEF ContentInv
  <2>2. CASE p \notin cancelled
    <3>1. PICK share \in [New -> {"ok", "bad"}], opening \in {"ok", "bad"} :
            net' = net \cup {[type |-> "round3-1", from |-> p, to |-> q, val |-> share[q]] : q \in New}
                       \cup {[type |-> "round3-2", from |-> p, to |-> q, val |-> opening] : q \in New}
      BY <1>2, <2>2, Dealt, ZenonT(60)
    <3>2. \A m \in net' \ net : m.type # "round1" /\ m.val \in {"ok", "bad"}
      BY <3>1
    <3>. QED  BY <3>2, Zenon DEF ContentInv
  <2>. QED  BY <1>2, <2>1, <2>2 DEF Round3Old
<1>3. ASSUME \A m \in net' \ net : m.type \notin Dealing PROVE ContentInv'
  BY <1>3 DEF ContentInv, Dealing
<1>4. ASSUME NEW p \in Party, Round2New(p) PROVE ContentInv'
  <2>1. net' = net \/ net' = net \cup ToAll("round2", p, Old \ {p}, "ack")
    BY <1>4, Zenon DEF Round2New
  <2>2. \A m \in net' \ net : m.type = "round2"
    BY <2>1, ToAllMessage
  <2>. QED  BY <1>3, <2>2, Zenon DEF Dealing, Round3
<1>5. ASSUME NEW p \in New, NEW t \in Round3, Round4New(p, t) PROVE ContentInv'
  <2>1. net' = net \/ net' = net \cup ToAll("round4", p, Party \ {p}, "ack")
    BY <1>5, Zenon DEF Round4New, Acked
  <2>2. \A m \in net' \ net : m.type = "round4"
    BY <2>1, ToAllMessage
  <2>. QED  BY <1>3, <2>2 DEF Dealing, Round3
<1>6. ASSUME UNCHANGED net PROVE ContentInv'
  BY <1>6, Zenon DEF ContentInv
<1>7. ASSUME NEW p \in Party, Callback(p) PROVE ContentInv'
  BY <1>2, <1>4, <1>5, <1>6, <1>7
  DEF Callback, StoreRound3, CountRound3, runtime, FinishNew, Round5Old
<1>. QED  BY <1>1, <1>6, <1>7, Zenon
          DEF Next, Deliver, Receive, CancelContext, Cancel, vars, runtime

Inv == IInv /\ Progress /\ RefInv /\ ContentInv

LEMMA RefInvariance == Spec => []Inv
<1>1. Init => Inv
  BY InitIInv, InitProgress, InitRefInv DEF Inv, ContentInv, Init, RuntimeInit
<1>2. Inv /\ [Next]_vars => Inv'
  BY NextIInv, NextProgress, NextRefInv, NextContentInv DEF Inv
<1>. QED  BY <1>1, <1>2, PTL DEF Spec
=============================================================================
