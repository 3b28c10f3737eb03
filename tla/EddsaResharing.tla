---------------------------- MODULE EddsaResharing ----------------------------
(***************************************************************************)
(* Package eddsatss, resharing.go: the old committee hands the key over to *)
(* the new one.  A party of both committees (a dual party) runs both sides *)
(* in one Resharing value.                                                 *)
(*                                                                         *)
(* Every callback of a collector is an action; it may run at any time      *)
(* after the collector is complete, so callbacks of one party interleave.  *)
(* The callbacks of round3-1 and round3-2 are two actions each: they store *)
(* their slice, then count; the one that counts to 2 goes on to round4New. *)
(*                                                                         *)
(* The cryptography is reduced to its verdict.  A round 1 message carries  *)
(* the EDDSAPub it announces, a round 3 message is "ok" when it verifies   *)
(* against the sender's commitment and share, "bad" otherwise; only the    *)
(* parties in Faulty send anything but the right public key and "ok".      *)
(***************************************************************************)
EXTENDS PartyRuntime

CONSTANTS Old,    \* OldParties
          New,    \* NewParties
          Faulty  \* old parties whose messages may fail to verify

ASSUME CommitteeAssumption ==
  Party = Old \cup New /\ Old # {} /\ New # {} /\ Faulty \subseteq Old
ASSUME NoneAssumption ==
  None \notin {"nil", "key", "pub", "other", "ack", "ok", "bad", "round3-1", "round3-2"}

VARIABLES started,  \* the parties that called NewResharing
          eddsaPub, \* per new party: eddsaPub, the key all old parties announced
          dealt,    \* old parties that have sent their shares (round3Old)
          stored,   \* per new party: the round 3 slices its callbacks stored
          counted,  \* per new party: the callbacks that bumped the counter
          joiner,   \* per new party: the callback that counted to 2
          newKey,   \* new parties that hold a verified key (round5NewKey)
          erased    \* old parties that have zeroed Xi

vars == <<runtime, started, eddsaPub, dealt, stored, counted, joiner, newKey, erased>>

Round3 == {"round3-1", "round3-2"}

Init ==
  /\ RuntimeInit
  /\ started = {}
  /\ eddsaPub = [n \in New |-> None]
  /\ dealt = {}
  /\ stored = [n \in New |-> {}]
  /\ counted = [n \in New |-> {}]
  /\ joiner = [n \in New |-> None]
  /\ newKey = {}
  /\ erased = {}

\* NewResharing: round1Old for an old party (a dual party also sends to
\* itself), setupNewRound1Receiver for a new one.
Start(p) ==
  \E pub \in IF p \in Faulty THEN {"pub", "other"} ELSE {"pub"} :
    /\ p \notin started
    /\ started' = started \cup {p}
    /\ net' = net \cup (IF p \in Old THEN ToAll("round1", p, New, pub) ELSE {})
    /\ want' = [want EXCEPT ![p] =
         (IF p \in Old THEN Connect({}, "round2", New \ {p}) ELSE {})
         \cup (IF p \in New THEN Connect({}, "round1", Old) ELSE {})]
    /\ UNCHANGED <<got, ran, cancelled, done, failed,
                   eddsaPub, dealt, stored, counted, joiner, newKey, erased>>

\* round2New: all old parties must announce the same key.
Round2New(n) ==
  LET pubs == {m.val : m \in Of(n, "round1")} IN
  /\ n \in New
  /\ "round1" \notin ran[n]
  /\ Collected(n, "round1")
  /\ ran' = [ran EXCEPT ![n] = @ \cup {"round1"}]
  /\ \/ /\ n \in cancelled \/ (\E k, m \in pubs : k # m)
        /\ Fail(n)
        /\ UNCHANGED <<net, want, eddsaPub>>
     \/ /\ n \notin cancelled
        /\ \E pub \in pubs :
             /\ pubs = {pub}
             /\ eddsaPub' = [eddsaPub EXCEPT ![n] = pub]
        /\ net' = net \cup ToAll("round2", n, Old \ {n}, "ack")
        /\ want' = [want EXCEPT ![n] =
             Connect(Connect(@, "round3-1", Old), "round3-2", Old)]
        /\ UNCHANGED failed
  /\ UNCHANGED <<got, cancelled, done, started, dealt, stored, counted, joiner, newKey, erased>>

\* The other new parties have acknowledged: their collector is complete, or
\* there is none of them and the next round runs in a goroutine of its own.
AcksIn(o, t) == New \subseteq {o} \/ Collected(o, t)

\* round3Old: send the shares and the decommitment, wait for round 4.
Round3Old(o) ==
  /\ o \in Old \cap started
  /\ "round2" \notin ran[o]
  /\ AcksIn(o, "round2")
  /\ ran' = [ran EXCEPT ![o] = @ \cup {"round2"}]
  /\ \/ /\ o \in cancelled
        /\ Fail(o)
        /\ UNCHANGED <<net, want, dealt>>
     \/ /\ o \notin cancelled
        /\ \E bad \in IF o \in Faulty THEN SUBSET New ELSE {{}},
             opening \in IF o \in Faulty THEN {"ok", "bad"} ELSE {"ok"} :
             net' = net \cup ToAll("round3-1", o, New \ bad, "ok")
                        \cup ToAll("round3-1", o, bad, "bad")
                        \cup ToAll("round3-2", o, New, opening)
        /\ want' = [want EXCEPT ![o] = Connect(@, "round4", New \ {o})]
        /\ dealt' = dealt \cup {o}
        /\ UNCHANGED failed
  /\ UNCHANGED <<got, cancelled, done, started, eddsaPub, stored, counted, joiner, newKey, erased>>

\* The first half of a round 3 callback: publish the slice under the mutex.
StoreRound3(n, t) ==
  /\ n \in New
  /\ t \in Round3 \ ran[n]
  /\ Collected(n, t)
  /\ ran' = [ran EXCEPT ![n] = @ \cup {t}]
  /\ stored' = [stored EXCEPT ![n] = @ \cup {t}]
  /\ UNCHANGED <<net, want, got, cancelled, done, failed,
                 started, eddsaPub, dealt, counted, joiner, newKey, erased>>

\* Mutant: a callback counts before it publishes its slice.
CountRound3First(n, t) ==
  /\ t \in Round3 \ counted[n]
  /\ Collected(n, t)
  /\ counted[n] = {}
  /\ counted' = [counted EXCEPT ![n] = @ \cup {t}]
  /\ UNCHANGED <<runtime, started, eddsaPub, dealt, stored, joiner, newKey, erased>>

\* check(): the callback that counts first is done.
CountRound3(n, t) ==
  /\ t \in stored[n] \ counted[n]
  /\ counted[n] = {}
  /\ counted' = [counted EXCEPT ![n] = @ \cup {t}]
  /\ UNCHANGED <<runtime, started, eddsaPub, dealt, stored, joiner, newKey, erased>>

\* The checks of round4New: both slices are there, every decommitment and
\* share verifies and the constant terms add up to the announced key.
Verified(n) ==
  /\ stored[n] = Round3
  /\ \A m \in Of(n, "round3-1") \cup Of(n, "round3-2") : m.val = "ok"
  /\ eddsaPub[n] = "pub"

\* Mutant: the old committee is not told.
AckedNew(n) == New \ {n}

\* Mutant: the new committee is not told.
AckedOld(n) == Old \ {n}

\* Who is told that n has a key: everybody else.
Acked(n) == Party \ {n}

\* check() counting to 2, and round4New: build the key, acknowledge it to both
\* committees; a pure new party then waits for the other new parties.
Round4New(n, t) ==
  /\ t \in stored[n] \ counted[n]
  /\ counted[n] # {}
  /\ counted' = [counted EXCEPT ![n] = @ \cup {t}]
  /\ joiner' = [joiner EXCEPT ![n] = t]
  /\ \/ /\ n \in cancelled \/ ~Verified(n)
        /\ Fail(n)
        /\ UNCHANGED <<net, want, done, newKey>>
     \/ /\ n \notin cancelled
        /\ Verified(n)
        /\ newKey' = newKey \cup {n}
        /\ net' = net \cup ToAll("round4", n, Acked(n), "ack")
        /\ want' = [want EXCEPT ![n] =
             IF n \in Old THEN @ ELSE Connect(@, "round4", New \ {n})]
        /\ IF n \notin Old /\ New = {n} THEN SendDone(n, "key") ELSE UNCHANGED done
        /\ UNCHANGED failed
  /\ UNCHANGED <<got, ran, cancelled, started, eddsaPub, dealt, stored, erased>>

\* Mutant: a cancelled context is reported, and the key delivered all the same.
FinishNewTwice(n) ==
  /\ n \in New \ Old
  /\ "round4" \notin ran[n]
  /\ Collected(n, "round4")
  /\ ran' = [ran EXCEPT ![n] = @ \cup {"round4"}]
  /\ SendDone(n, "key")
  /\ failed' = failed \cup ({n} \cap cancelled)
  /\ UNCHANGED <<net, want, got, cancelled,
                 started, eddsaPub, dealt, stored, counted, joiner, newKey, erased>>

\* Mutant: success is reported as soon as the party's own key is built.
FinishNewAlone(n) ==
  /\ n \in New \ Old
  /\ "round4" \notin ran[n]
  /\ n \in newKey
  /\ ran' = [ran EXCEPT ![n] = @ \cup {"round4"}]
  /\ SendDone(n, "key")
  /\ UNCHANGED <<net, want, got, cancelled, failed,
                 started, eddsaPub, dealt, stored, counted, joiner, newKey, erased>>

\* The last callback of a pure new party; it does not look at the context.
FinishNew(n) ==
  /\ n \in New \ Old
  /\ "round4" \notin ran[n]
  /\ Collected(n, "round4")
  /\ ran' = [ran EXCEPT ![n] = @ \cup {"round4"}]
  /\ SendDone(n, "key")
  /\ UNCHANGED <<net, want, got, cancelled, failed,
                 started, eddsaPub, dealt, stored, counted, joiner, newKey, erased>>

\* round5Old: zero Xi and report; a dual party reports its new key if
\* round4New has already stored one.
Round5Old(o) ==
  /\ o \in dealt
  /\ "round4" \notin ran[o]
  /\ AcksIn(o, "round4")
  /\ ran' = [ran EXCEPT ![o] = @ \cup {"round4"}]
  /\ \/ /\ o \in cancelled
        /\ Fail(o)
        /\ UNCHANGED <<done, erased>>
     \/ /\ o \notin cancelled
        /\ erased' = erased \cup {o}
        /\ SendDone(o, IF o \in newKey THEN "key" ELSE "nil")
        /\ UNCHANGED failed
  /\ UNCHANGED <<net, want, got, cancelled, started, eddsaPub, dealt, stored, counted, joiner, newKey>>

Deliver(p) ==
  /\ Receive(p)
  /\ UNCHANGED <<started, eddsaPub, dealt, stored, counted, joiner, newKey, erased>>

CancelContext(p) ==
  /\ Cancel(p)
  /\ UNCHANGED <<started, eddsaPub, dealt, stored, counted, joiner, newKey, erased>>

Callback(p) ==
  \/ Round2New(p)
  \/ Round3Old(p)
  \/ p \in New /\ \E t \in Round3 : StoreRound3(p, t) \/ CountRound3(p, t) \/ Round4New(p, t)
  \/ FinishNew(p)
  \/ Round5Old(p)

Next == \E p \in Party : Start(p) \/ Deliver(p) \/ Callback(p) \/ CancelContext(p)

Spec == Init /\ [][Next]_vars

\* Every party is started, the broker delivers, and Go runs the callbacks.
Fairness == \A p \in Party : /\ WF_vars(Start(p))
                             /\ WF_vars(Deliver(p))
                             /\ WF_vars(Callback(p))

FairSpec == Spec /\ Fairness
-----------------------------------------------------------------------------
Value == {"pub", "other", "ack", "ok", "bad"}

MessageType == {"round1", "round2", "round4"} \cup Round3

Message == [type : MessageType, from : Party, to : Party, val : Value]

SlotSet == SUBSET (MessageType \X Party)

\* Messages, collectors and outcomes are of the kinds resharing.go uses, and
\* only started old parties have dealt (round3Old).
TypeOK ==
  /\ net \subseteq Message
  /\ want \in [Party -> SlotSet]
  /\ got \in [Party -> SUBSET Message]
  /\ ran \in [Party -> SUBSET MessageType]
  /\ cancelled \subseteq MayCancel
  /\ done \in [Party -> {None, "nil", "key"}]
  /\ failed \subseteq Party
  /\ started \subseteq Party
  /\ eddsaPub \in [New -> Value \cup {None}]
  /\ dealt \subseteq Old \cap started
  /\ stored \in [New -> SUBSET Round3]
  /\ counted \in [New -> SUBSET Round3]
  /\ joiner \in [New -> Round3 \cup {None}]
  /\ newKey \subseteq New
  /\ erased \subseteq Old

\* round3Old: an old party reveals its shares only after every other new party
\* has received the commitments of the whole old committee and accepted one
\* public key.
SharesFollowCommitments ==
  \A o \in dealt : \A n \in New \ {o} : eddsaPub[n] # None

\* round5Old: an old share is erased only once every other new party holds a
\* verified share of the new key; messages that are late, faulty old parties
\* and cancelled contexts make the hand-over stop, never lose the key.
HandedOverBeforeErasure ==
  \A o \in erased : New \ {o} \subseteq newKey

\* A new party reports success only when the whole new committee can sign: all
\* of it holds verified shares, dealt by the whole old committee.
SuccessIsCollective ==
  \A n \in New \ Old : done[n] = "key" => New \subseteq newKey /\ Old \subseteq dealt

\* Done and Err exclude each other at a party of one committee: an application
\* that reads both channels gets one answer.
OneOutcome ==
  \A p \in Party : p \in failed /\ done[p] # None => p \in Old \cap New

\* check(): the goroutine that counts to 2 runs round4New with both slices
\* stored, so the hand-over between the two callbacks never loses one.
JoinSeesBothSlices ==
  \A n \in New : counted[n] = Round3 => stored[n] = Round3

\* round4New: "round5Old will be called by that handler and will deliver
\* newKey", so a dual party is never told that it has no key.
DualPartyGetsNewKey ==
  \A p \in Old \cap New : done[p] # "nil"

\* Once an old share is gone every pure new party is told its new key, even if
\* contexts are cancelled afterwards.
ErasureLeadsToDelivery ==
  erased # {} ~> \A n \in New \ Old : done[n] = "key"

\* Unless somebody fails everybody finishes, and all old shares are erased.
EverybodyFinishes ==
  <>(failed # {} \/ (erased = Old /\ \A p \in Party : done[p] # None))
=============================================================================
