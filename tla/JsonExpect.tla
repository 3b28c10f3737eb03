------------------------------ MODULE JsonExpect ------------------------------
(***************************************************************************)
(* The message collector of package tss (json.go).  The application's      *)
(* broker calls Receive from several goroutines; Receive locks the         *)
(* collector, finds the empty slot of the sender, fills it and, when the   *)
(* last slot is filled, runs the callback before it unlocks.               *)
(*                                                                         *)
(* A call is split at the points where another goroutine could get in if   *)
(* the lock did not keep it out: after the lookup, and before the          *)
(* callback.                                                               *)
(***************************************************************************)
EXTENDS Naturals, Sequences, FiniteSets

CONSTANTS From,      \* the expected parties, in the order of the slots
          Type,      \* the message type the collector was created for
          Message,   \* the messages the broker may hold: type, from, data
          Thread,    \* goroutines of the broker
          Nil,       \* the nil pointer: an empty slot, a decoded JSON null
          Malformed, \* data that JsonGet cannot decode
          NoThread,  \* the lock is free
          NoMessage  \* a goroutine that is not in Receive

Slot == 1 .. Len(From)

\* The packets of the messages that can be stored.
Packet == {m.data : m \in Message} \ {Nil, Malformed}

ASSUME FromAssumption ==
  /\ From \in Seq({From[n] : n \in Slot})
  /\ \A i, j \in Slot : From[i] = From[j] => i = j
ASSUME NilAssumption == Malformed # Nil /\ NoThread \notin Thread

VARIABLES inbox,   \* messages the broker has not handed over yet
          packet,  \* Packet
          missing, \* missing
          lock,    \* lock: the goroutine that holds it, or NoThread
          pc,      \* per goroutine: "idle", "called", "locked", "found", "complete"
          msg,     \* per goroutine: the message it delivers
          slot,    \* per goroutine: the slot its lookup found
          calls    \* the arrays the callback was called with

vars == <<inbox, packet, missing, lock, pc, msg, slot, calls>>

\* Mutant: the counter starts one too high.
InitMiscounted ==
  /\ inbox \in SUBSET Message
  /\ packet = [n \in Slot |-> Nil]
  /\ missing = Len(From) + 1
  /\ lock = NoThread
  /\ pc = [t \in Thread |-> "idle"]
  /\ msg = [t \in Thread |-> NoMessage]
  /\ slot = [t \in Thread |-> 0]
  /\ calls = << >>

\* NewJsonExpect: nothing received yet.  The broker holds any set of messages.
Init ==
  /\ inbox \in SUBSET Message
  /\ packet = [n \in Slot |-> Nil]
  /\ missing = Len(From)
  /\ lock = NoThread
  /\ pc = [t \in Thread |-> "idle"]
  /\ msg = [t \in Thread |-> NoMessage]
  /\ slot = [t \in Thread |-> 0]
  /\ calls = << >>

\* Mutant: filled slots are not skipped.
OpenAnySlot(p) == {n \in Slot : From[n] = p}

\* The slots a message from p can still fill.
Open(p) == {n \in Slot : packet[n] = Nil /\ From[n] = p}

\* Return from Receive, releasing the lock.
Unlock(t) ==
  /\ lock' = NoThread
  /\ pc' = [pc EXCEPT ![t] = "idle"]

\* The broker hands a message over.
Call(t) ==
  \E m \in inbox :
    /\ pc[t] = "idle"
    /\ inbox' = inbox \ {m}
    /\ msg' = [msg EXCEPT ![t] = m]
    /\ pc' = [pc EXCEPT ![t] = "called"]
    /\ UNCHANGED <<packet, missing, lock, slot, calls>>

\* A message of another type is refused before the lock is taken.
WrongType(t) ==
  /\ pc[t] = "called"
  /\ msg[t].type # Type
  /\ pc' = [pc EXCEPT ![t] = "idle"]
  /\ UNCHANGED <<inbox, packet, missing, lock, msg, slot, calls>>

\* Mutant: the mutex is not taken.
LockNotHeld(t) ==
  /\ pc[t] = "called"
  /\ msg[t].type = Type
  /\ lock' = t
  /\ pc' = [pc EXCEPT ![t] = "locked"]
  /\ UNCHANGED <<inbox, packet, missing, msg, slot, calls>>

Lock(t) ==
  /\ pc[t] = "called"
  /\ msg[t].type = Type
  /\ lock = NoThread
  /\ lock' = t
  /\ pc' = [pc EXCEPT ![t] = "locked"]
  /\ UNCHANGED <<inbox, packet, missing, msg, slot, calls>>

\* Mutant: an error return without the deferred unlock.
RefuseStaysLocked(t) ==
  /\ pc[t] = "locked"
  /\ missing = 0 \/ msg[t].data = Malformed \/ Open(msg[t].from) = {}
  /\ pc' = [pc EXCEPT ![t] = "idle"]
  /\ UNCHANGED <<inbox, packet, missing, lock, msg, slot, calls>>

\* The error returns under the lock: the collector has completed, the data
\* does not decode, or no open slot belongs to the sender.
Refuse(t) ==
  /\ pc[t] = "locked"
  /\ missing = 0 \/ msg[t].data = Malformed \/ Open(msg[t].from) = {}
  /\ Unlock(t)
  /\ UNCHANGED <<inbox, packet, missing, msg, slot, calls>>

\* The loop stops at the first open slot of the sender.
Find(t) ==
  /\ pc[t] = "locked"
  /\ missing # 0
  /\ msg[t].data # Malformed
  /\ \E n \in Open(msg[t].from) :
       /\ \A k \in Open(msg[t].from) : n <= k
       /\ slot' = [slot EXCEPT ![t] = n]
  /\ pc' = [pc EXCEPT ![t] = "found"]
  /\ UNCHANGED <<inbox, packet, missing, lock, msg, calls>>

\* Mutant: the callback runs one packet too early.
FillEarly(t) ==
  /\ pc[t] = "found"
  /\ packet' = [packet EXCEPT ![slot[t]] = msg[t].data]
  /\ missing' = missing - 1
  /\ IF missing <= 2
     THEN /\ pc' = [pc EXCEPT ![t] = "complete"]
          /\ UNCHANGED lock
     ELSE Unlock(t)
  /\ UNCHANGED <<inbox, msg, slot, calls>>

\* Store the packet and count it; unlock unless it was the last one.
Fill(t) ==
  /\ pc[t] = "found"
  /\ packet' = [packet EXCEPT ![slot[t]] = msg[t].data]
  /\ missing' = missing - 1
  /\ IF missing = 1
     THEN /\ pc' = [pc EXCEPT ![t] = "complete"]
          /\ UNCHANGED lock
     ELSE Unlock(t)
  /\ UNCHANGED <<inbox, msg, slot, calls>>

\* e.cb(e.From, e.Packet), still under the lock.
Callback(t) ==
  /\ pc[t] = "complete"
  /\ calls' = Append(calls, packet)
  /\ Unlock(t)
  /\ UNCHANGED <<inbox, packet, missing, msg, slot>>

Receive(t) ==
  WrongType(t) \/ Lock(t) \/ Refuse(t) \/ Find(t) \/ Fill(t) \/ Callback(t)

Next == \E t \in Thread : Call(t) \/ Receive(t)

\* The broker goes on delivering what it holds, and Go runs its goroutines.
Fairness == \A t \in Thread : WF_vars(Call(t)) /\ WF_vars(Receive(t))

Spec == Init /\ [][Next]_vars

FairSpec == Spec /\ Fairness
-----------------------------------------------------------------------------
\* Slots hold packets or nothing, the counter stays within the slots (it never
\* underflows past "complete!") and Receive is at one of its points.
TypeOK ==
  /\ inbox \subseteq Message
  /\ packet \in [Slot -> Packet \cup {Nil}]
  /\ missing \in 0 .. Len(From)
  /\ lock \in Thread \cup {NoThread}
  /\ pc \in [Thread -> {"idle", "called", "locked", "found", "complete"}]
  /\ msg \in [Thread -> Message \cup {NoMessage}]
  /\ slot \in [Thread -> 0 .. Len(From)]
  /\ calls \in Seq([Slot -> Packet \cup {Nil}])

\* The callback runs at most once, and only with the packet of every expected
\* party (Receive: "complete!" when missing reaches 0; NewJsonExpect: "trigger
\* a callback once everything has been collected").
CallbackSeesEveryPacket ==
  /\ Len(calls) <= 1
  /\ \A i \in DOMAIN calls : \A n \in Slot : calls[i][n] # Nil

\* When no goroutine is inside Receive's critical section, missing is the
\* number of empty slots: the counter and the array never drift apart.
MissingCountsEmptySlots ==
  lock = NoThread => missing = Cardinality({n \in Slot : packet[n] = Nil})

\* The first packet of a party wins: Receive skips filled slots, so a
\* duplicate or a second version can never replace what was collected.
FirstPacketWins ==
  [][\A n \in Slot : packet[n] # Nil => packet'[n] = packet[n]]_packet

\* If the broker holds a decodable message of every expected party, the
\* callback eventually runs, whatever else the broker delivers and whatever
\* the order (the round callbacks of every protocol wait for this).
CallbackEventually ==
  (\A n \in Slot : \E m \in inbox :
      m.type = Type /\ m.from = From[n] /\ m.data \in Packet)
  ~> calls # << >>

\* The goroutines, the lock and the counter are hidden.
Abstract == INSTANCE Collector WITH collected <- packet, delivered <- calls

\* NewJsonExpect and Receive implement the abstract collector: packets are
\* collected one by one and delivered once, all of them.
ImplementsCollector == Abstract!Spec
=============================================================================
