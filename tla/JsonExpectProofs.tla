--------------------------- MODULE JsonExpectProofs ---------------------------
(***************************************************************************)
(* The collector of json.go is correct for any number of parties,          *)
(* goroutines and messages, as long as no packet decodes to nil.           *)
(***************************************************************************)
EXTENDS JsonExpect, FiniteSetTheorems, TLAPS

\* No message carries a JSON null: what every sender of the library does.
NonNull == \A m \in Message : m.data # Nil

Empty == {n \in Slot : packet[n] = Nil}

\* A goroutine inside the critical section.
Inside(t) == pc[t] \in {"locked", "found", "complete"}

LockInv ==
  \A t \in Thread :
    /\ Inside(t) <=> lock = t
    /\ pc[t] # "idle" => msg[t] \in Message

CountInv == missing = Cardinality(Empty)

PhaseInv ==
  \A t \in Thread :
    /\ pc[t] = "found" => /\ slot[t] \in Empty
                          /\ msg[t].data \in Packet
                          /\ missing # 0
    /\ pc[t] = "complete" => missing = 0 /\ calls = << >>

CallsInv ==
  /\ calls # << >> => missing = 0
  /\ CallbackSeesEveryPacket

IInv == TypeOK /\ LockInv /\ CountInv /\ PhaseInv /\ CallsInv

LEMMA SlotFinite == IsFiniteSet(Slot)
<1>1. Len(From) \in Nat
  BY FromAssumption
<1>. QED  BY <1>1, FS_Interval DEF Slot

\* An array with no empty slot is one whose number of empty slots is 0.
LEMMA EmptyCount ==
  /\ IsFiniteSet(Empty)
  /\ Cardinality(Empty) \in Nat
  /\ Cardinality(Empty) = 0 <=> Empty = {}
<1>1. Empty \subseteq Slot
  BY DEF Empty
<1>2. IsFiniteSet(Empty)
  BY <1>1, SlotFinite, FS_Subset
<1>. QED  BY <1>2, FS_EmptySet, FS_CardinalityType

LEMMA InitIInv == Init => IInv
<1>. SUFFICES ASSUME Init PROVE IInv
  OBVIOUS
<1>0. Len(From) \in Nat
  BY FromAssumption
<1>1. TypeOK
  BY <1>0 DEF Init, TypeOK
<1>2. LockInv
  BY NilAssumption DEF Init, LockInv, Inside
<1>3. CountInv
  <2>1. Empty = Slot
    BY DEF Init, Empty
  <2>2. Cardinality(Slot) = Len(From)
    <3>1. Cardinality(1 .. Len(From))
            = IF 1 > Len(From) THEN 0 ELSE Len(From) - 1 + 1
      <4>1. 1 \in Int /\ Len(From) \in Int
        BY <1>0
      <4>. QED  BY <4>1, FS_Interval, Zenon
    <3>. QED  BY <1>0, <3>1 DEF Slot
  <2>. QED  BY <2>1, <2>2 DEF Init, CountInv
<1>4. PhaseInv /\ CallsInv
  BY DEF Init, PhaseInv, CallsInv, CallbackSeesEveryPacket
<1>. QED  BY <1>1, <1>2, <1>3, <1>4 DEF IInv

\* Steps that leave the array, the counter and the callback alone.
LEMMA OtherSteps ==
  ASSUME NonNull, IInv, NEW t \in Thread,
         Call(t) \/ WrongType(t) \/ Lock(t) \/ Refuse(t) \/ Find(t)
  PROVE  IInv'
<1>. USE DEF IInv
<1>0. UNCHANGED <<packet, missing, calls>>
  BY DEF Call, WrongType, Lock, Refuse, Find
<1>1. TypeOK'
  BY <1>0 DEF TypeOK, Call, WrongType, Lock, Refuse, Find, Unlock, Open, Slot
<1>2. LockInv'
  BY NilAssumption DEF TypeOK, LockInv, Inside, Call, WrongType, Lock, Refuse, Find, Unlock
<1>3. CountInv' /\ CallsInv'
  BY <1>0 DEF CountInv, CallsInv, CallbackSeesEveryPacket, Empty
<1>4. PhaseInv'
  <2>1. CASE Find(t)
    <3>1. PICK n \in Open(msg[t].from) : slot' = [slot EXCEPT ![t] = n]
      BY <2>1, Zenon DEF Find
    <3>2. n \in Empty
      BY DEF Open, Empty
    <3>3. msg[t] \in Message /\ msg[t].data \in Packet
      BY <2>1, NonNull DEF Find, LockInv, Packet, NonNull
    <3>. QED
      BY <1>0, <2>1, <3>1, <3>2, <3>3 DEF Find, PhaseInv, TypeOK, Empty
  <2>2. CASE Call(t) \/ WrongType(t) \/ Lock(t) \/ Refuse(t)
    BY <1>0, <2>2 DEF Call, WrongType, Lock, Refuse, Unlock, PhaseInv, TypeOK, Empty
  <2>. QED  BY <2>1, <2>2
<1>. QED  BY <1>1, <1>2, <1>3, <1>4

LEMMA FillStep ==
  ASSUME IInv, NEW t \in Thread, Fill(t)
  PROVE  IInv'
<1>. USE DEF IInv
<1>1. /\ slot[t] \in Slot /\ packet[slot[t]] = Nil
      /\ msg[t].data \in Packet
      /\ msg[t].data # Nil
      /\ missing \in 1 .. Len(From)
      /\ lock = t
  BY DEF Fill, PhaseInv, TypeOK, Empty, Packet, LockInv, Inside
<1>2. calls = << >>
  BY <1>1 DEF CallsInv
<1>3. Empty' = Empty \ {slot[t]} /\ slot[t] \in Empty
  BY <1>1 DEF Fill, Empty, TypeOK
<1>4. Cardinality(Empty') = Cardinality(Empty) - 1
  BY <1>3, EmptyCount, FS_RemoveElement, Zenon
<1>5. TypeOK'
  BY <1>1 DEF Fill, TypeOK, Unlock
<1>6. LockInv'
  BY <1>1, NilAssumption DEF Fill, LockInv, Inside, TypeOK, Unlock
<1>7. CountInv'
  BY <1>4, EmptyCount DEF Fill, CountInv
<1>8. PhaseInv'
  <2>1. \A u \in Thread \ {t} : pc[u] \notin {"found", "complete"}
    BY <1>1 DEF LockInv, Inside
  <2>. QED  BY <1>1, <1>2, <2>1 DEF Fill, PhaseInv, TypeOK, Unlock
<1>9. CallsInv'
  BY <1>2 DEF Fill, CallsInv, CallbackSeesEveryPacket
<1>. QED  BY <1>5, <1>6, <1>7, <1>8, <1>9

\* The callback finds every slot filled: missing = 0 leaves none empty.
LEMMA CallbackFacts ==
  ASSUME IInv, NEW t \in Thread, Callback(t)
  PROVE  /\ calls = << >> /\ calls' = <<packet>>
         /\ missing = 0
         /\ \A n \in Slot : packet[n] # Nil
<1>1. missing = 0 /\ calls = << >>
  BY DEF IInv, Callback, PhaseInv
<1>2. Empty = {}
  BY <1>1, EmptyCount DEF IInv, CountInv
<1>. QED  BY <1>1, <1>2 DEF Callback, Empty

LEMMA CallbackStep ==
  ASSUME IInv, NEW t \in Thread, Callback(t)
  PROVE  IInv'
<1>. USE DEF IInv
<1>1. /\ calls = << >> /\ calls' = <<packet>> /\ missing = 0
      /\ \A n \in Slot : packet[n] # Nil
  BY CallbackFacts
<1>2. lock = t
  BY DEF Callback, LockInv, Inside
<1>3. TypeOK'
  BY <1>1 DEF Callback, TypeOK, Unlock
<1>4. LockInv'
  BY <1>2, NilAssumption DEF Callback, LockInv, Inside, TypeOK, Unlock
<1>5. CountInv'
  BY DEF Callback, CountInv, Empty
<1>6. PhaseInv'
  <2>1. \A u \in Thread \ {t} : pc[u] \notin {"found", "complete"}
    BY <1>2 DEF LockInv, Inside
  <2>. QED  BY <2>1 DEF Callback, PhaseInv, TypeOK, Unlock
<1>7. CallsInv'
  BY <1>1 DEF Callback, CallsInv, CallbackSeesEveryPacket
<1>. QED  BY <1>3, <1>4, <1>5, <1>6, <1>7

LEMMA NextIInv ==
  ASSUME NonNull, IInv, [Next]_vars
  PROVE  IInv'
<1>1. ASSUME NEW t \in Thread, Call(t) \/ Receive(t) PROVE IInv'
  BY <1>1, OtherSteps, FillStep, CallbackStep, NonNull DEF Receive
<1>2. CASE UNCHANGED vars
  BY <1>2 DEF vars, IInv, TypeOK, LockInv, Inside, CountInv, Empty, PhaseInv,
              CallsInv, CallbackSeesEveryPacket
<1>. QED  BY <1>1, <1>2 DEF Next

\* The inductive invariant holds throughout.
LEMMA Invariance == ASSUME NonNull PROVE Spec => []IInv
<1>1. Init => IInv
  BY InitIInv
<1>2. IInv /\ [Next]_vars => IInv'
  BY NextIInv, NonNull
<1>. QED  BY <1>1, <1>2, PTL DEF Spec

\* Receive runs the callback at most once and only with the packet of every
\* expected party, whatever the goroutines of the broker do.
THEOREM CallbackCorrect ==
  ASSUME NonNull
  PROVE  Spec => []CallbackSeesEveryPacket
<1>1. IInv => CallbackSeesEveryPacket
  BY DEF IInv, CallsInv
<1>. QED  BY <1>1, Invariance, NonNull, PTL

\* The fields of the collector and the locals of its callers keep their types;
\* missing stays between zero and the number of senders.
THEOREM TypeCorrect ==
  ASSUME NonNull
  PROVE  Spec => []TypeOK
<1>1. IInv => TypeOK
  BY DEF IInv
<1>. QED  BY <1>1, Invariance, NonNull, PTL

\* missing is the number of empty slots whenever the lock is free (and inside
\* the critical section too, since Fill stores and counts in one step).
THEOREM CounterCorrect ==
  ASSUME NonNull
  PROVE  Spec => []MissingCountsEmptySlots
<1>1. IInv => MissingCountsEmptySlots
  BY DEF IInv, CountInv, MissingCountsEmptySlots, Empty
<1>. QED  BY <1>1, Invariance, NonNull, PTL

\* A packet, once collected, is never replaced by a later message.
THEOREM FirstPacketKept ==
  ASSUME NonNull
  PROVE  Spec => FirstPacketWins
<1>1. IInv /\ [Next]_vars
      => [\A n \in Slot : packet[n] # Nil => packet'[n] = packet[n]]_packet
  <2>. SUFFICES ASSUME IInv, [Next]_vars, packet' # packet
                PROVE  \A n \in Slot : packet[n] # Nil => packet'[n] = packet[n]
    OBVIOUS
  <2>1. PICK t \in Thread : Fill(t)
    BY DEF Next, Receive, vars, Call, WrongType, Lock, Refuse, Find, Callback
  <2>2. slot[t] \in Slot /\ packet[slot[t]] = Nil
    BY <2>1 DEF Fill, IInv, PhaseInv, Empty
  <2>. QED  BY <2>1, <2>2 DEF Fill, IInv, TypeOK
<1>. QED  BY <1>1, Invariance, NonNull, PTL DEF Spec, FirstPacketWins

\* The collector implements its abstract specification: a Fill collects one
\* packet, the callback delivers all of them, every other step stutters.
THEOREM CollectorImplemented ==
  ASSUME NonNull
  PROVE  Spec => ImplementsCollector
<1>1. Init => Abstract!Init
  BY DEF Init, Abstract!Init
<1>2. IInv /\ [Next]_vars => [Abstract!Next]_<<packet, calls>>
  <2>. SUFFICES ASSUME IInv, [Next]_vars, <<packet, calls>>' # <<packet, calls>>
                PROVE  Abstract!Next
    OBVIOUS
  <2>1. PICK t \in Thread : Fill(t) \/ Callback(t)
    BY DEF Next, Receive, vars, Call, WrongType, Lock, Refuse, Find
  <2>2. CASE Fill(t)
    <3>1. slot[t] \in Slot /\ packet[slot[t]] = Nil /\ msg[t].data \in Packet
      BY <2>2 DEF Fill, IInv, PhaseInv, Empty
    <3>. QED  BY <2>2, <3>1, Zenon DEF Fill, Abstract!Next, Abstract!Collect
  <2>3. CASE Callback(t)
    BY <2>3, CallbackFacts DEF Callback, Abstract!Next, Abstract!Deliver
  <2>. QED  BY <2>1, <2>2, <2>3
<1>. QED
  BY <1>1, <1>2, Invariance, NonNull, PTL
  DEF Spec, ImplementsCollector, Abstract!Spec, Abstract!vars
=============================================================================
