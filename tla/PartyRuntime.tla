----------------------------- MODULE PartyRuntime -----------------------------
(***************************************************************************)
(* What every broker-driven party of the library runs on: the broker of    *)
(* the application, the message collectors it feeds, the context and the   *)
(* Done and Err channels.  The protocol modules extend this one.           *)
(*                                                                         *)
(* A collector is the abstract one of module Collector: JsonExpect shows   *)
(* that tss.NewJsonExpect implements it.  A message, once sent, stays in   *)
(* net: the broker may deliver it late, out of order, more than once (a    *)
(* second delivery is refused by the collector and changes nothing), or    *)
(* never (unless fairness says otherwise), and it keeps messages of a type *)
(* nobody has connected yet.                                               *)
(***************************************************************************)

CONSTANTS Party,     \* every party of the run
          MayCancel, \* the parties whose context may be cancelled
          None       \* nothing sent on a channel, no value computed

ASSUME MayCancelAssumption == MayCancel \subseteq Party

VARIABLES net,       \* messages handed to the broker: type, from, to, val
          want,      \* per party: the slots <<type, sender>> of its collectors
          got,       \* per party: the messages that filled a slot
          ran,       \* per party: the types whose callback has started
          cancelled, \* the parties whose context is done
          done,      \* per party: what was sent on Done, or None
          failed     \* the parties that sent on Err

runtime == <<net, want, got, ran, cancelled, done, failed>>

RuntimeInit ==
  /\ net = {}
  /\ want = [p \in Party |-> {}]
  /\ got = [p \in Party |-> {}]
  /\ ran = [p \in Party |-> {}]
  /\ cancelled = {}
  /\ done = [p \in Party |-> None]
  /\ failed = {}

\* Mutant: the sender takes the place of the payload.
ToAllWrongPayload(t, p, S, v) ==
  {[type |-> t, from |-> p, to |-> q, val |-> p] : q \in S}

\* The messages of type t that p sends to the parties in S, all with value v.
ToAll(t, p, S, v) == {[type |-> t, from |-> p, to |-> q, val |-> v] : q \in S}

\* Broker.Connect of a collector for type t and senders S: it replaces the
\* collector that was connected for t.
Connect(slots, t, S) == {w \in slots : w[1] # t} \cup {<<t, q>> : q \in S}

\* The messages of type t that p's collector holds, and their senders.
Of(p, t) == {m \in got[p] : m.type = t}

Senders(p, t) == {m.from : m \in Of(p, t)}

Expected(p, t) == {w[2] : w \in {x \in want[p] : x[1] = t}}

\* Mutant: the callback runs as soon as one packet is there.
CollectedAny(p, t) == Expected(p, t) \cap Senders(p, t) # {}

\* The last expected packet of type t has arrived.  A collector for no party
\* at all never gets there.
Collected(p, t) == Expected(p, t) # {} /\ Expected(p, t) \subseteq Senders(p, t)

\* Receive: the packet of an expected sender fills its slot, the first one wins.
Receive(p) ==
  \E m \in net :
    /\ m.to = p
    /\ <<m.type, m.from>> \in want[p]
    /\ m.from \notin Senders(p, m.type)
    /\ got' = [got EXCEPT ![p] = @ \cup {m}]
    /\ UNCHANGED <<net, want, ran, cancelled, done, failed>>

\* The context of p is cancelled, or its deadline passes.
Cancel(p) ==
  /\ p \in MayCancel \ cancelled
  /\ cancelled' = cancelled \cup {p}
  /\ UNCHANGED <<net, want, got, ran, done, failed>>

\* sendOnce on Done: only the first value is sent.
SendDone(p, v) == done' = [done EXCEPT ![p] = IF @ = None THEN v ELSE @]

\* sendOnce on Err, and the callback returns.
Fail(p) == failed' = failed \cup {p}
=============================================================================
