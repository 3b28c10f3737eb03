------------------------------ MODULE RoundEngine ------------------------------
(***************************************************************************)
(* The engine of the protocols under ecdsa/ and eddsa/ (tss/party.go and   *)
(* the base type of their rounds).  The application calls Start once and   *)
(* Update for every message, from any goroutine; Update stores the message *)
(* and, when the round has heard from everybody, starts the next round and *)
(* calls itself again, releasing the party's mutex in between.             *)
(*                                                                         *)
(* One action is one critical section of the mutex.  The modules of the    *)
(* protocols extend this one and say what their rounds do.                 *)
(***************************************************************************)
EXTENDS Naturals, FiniteSets

CONSTANTS Party,   \* Parties().IDs()
          Faulty,  \* parties whose messages may fail to verify
          Replays, \* a message may be handed over more than once
          Threads  \* Update is called from several goroutines

ASSUME EngineAssumption ==
  /\ Faulty \subseteq Party
  /\ Replays \in BOOLEAN
  /\ Threads \in BOOLEAN

VARIABLES net,     \* messages sent on out: type, from, to, val
          store,   \* per party: the messages in its slots
          rnd,     \* per party: the number of its round, 0 for nil
          started, \* parties that have been started
          ok,      \* per party: the parties its round has heard from
          calls,   \* per party: Update calls between two critical sections
          failed,  \* parties whose Start or Update returned an error
          saved    \* per party: how often it sent on end

engine == <<net, store, rnd, started, ok, calls, failed, saved>>

EngineInit ==
  /\ net = {}
  /\ store = [p \in Party |-> {}]
  /\ rnd = [p \in Party |-> 0]
  /\ started = {}
  /\ ok = [p \in Party |-> {}]
  /\ calls = [p \in Party |-> {}]
  /\ failed = {}
  /\ saved = [p \in Party |-> 0]

\* A message of p to q; one to itself goes straight into p's slots.
Msg(t, p, q, v) == [type |-> t, from |-> p, to |-> q, val |-> v]

\* What p may send: only a faulty party sends what does not verify.
Value(p) == IF p \in Faulty THEN {"good", "bad"} ELSE {"good"}

\* StoreMessage: the message takes its slot, replacing what was there.
StoreMessage(slots, m) == {x \in slots : x.type # m.type \/ x.from # m.from} \cup {m}

\* The senders of the stored messages of type t.
Heard(slots, t) == {m.from : m \in {x \in slots : x.type = t}}

\* A stored message of one of the types T fails to verify.
SomeBad(slots, T) == \E m \in slots : m.type \in T /\ m.val = "bad"

\* Mutant: Start takes a party in its last round for a new one.
MayStartLast(p) == p \notin started \/ rnd[p] = 4

\* BaseStart refuses a party that has a round.  One that has finished has none
\* either, but the application starts a party only once.
MayStart(p) == rnd[p] = 0 /\ p \notin started

\* The message m is for p: handed over for the first time, again, or by an
\* Update that calls itself.
Handed(p, m) ==
  /\ m.to = p
  /\ m \in calls[p] \/ m \notin store[p] \/ Replays
  /\ m \in calls[p] \/ calls[p] = {} \/ Threads
=============================================================================
