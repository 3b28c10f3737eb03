------------------------------ MODULE DklsKeygen ------------------------------
(***************************************************************************)
(* Package dklstss, keygen_party.go: distributed key generation with an    *)
(* echo phase.  Every party is a dealer; it broadcasts the commitments of  *)
(* its polynomial and sends every other party a share and base-OT data.    *)
(*                                                                         *)
(* Commitments are model values, Own being the ones a dealer really made.  *)
(* A share is named by the commitments it verifies against.  A round 2     *)
(* message is Good when the base OT can be finished with it.  Parties in   *)
(* Equivocator may send anything in rounds 1 and 2, and differently to     *)
(* each recipient; parties in Liar may echo Lies.  A key is the vector     *)
(* of commitments it is built from: ECDSAPub and BigXj are functions of it.*)
(***************************************************************************)
EXTENDS EchoBroadcast

CONSTANTS Commitment,  \* versions of a dealer's commitments
          Own,         \* kg.vs
          Good, Bad,   \* round 2 messages
          Equivocator, \* parties whose round 1 and 2 messages may be wrong
          Liar,        \* parties whose echoes may be wrong
          Lies         \* the wrong echoes: any functions

ASSUME KeygenAssumption ==
  /\ Own \in Commitment
  /\ Equivocator \subseteq Party
  /\ Liar \subseteq Party
  /\ None \notin Party

VARIABLES started,    \* parties that called NewKeygen
          r1Bcasts,   \* r1Bcasts: commitments by dealer, or None
          r1Unicasts, \* r1Unicasts: shares by dealer, or None
          passed,     \* parties whose r1Echoes is set: the echoes agreed
          culprit     \* per party: whom its error names, or None

keygen == <<started, r1Bcasts, r1Unicasts, passed, culprit>>
vars == <<runtime, keygen>>

Others(p) == Party \ {p}

Init ==
  /\ RuntimeInit
  /\ started = {}
  /\ r1Bcasts = [p \in Party |-> None]
  /\ r1Unicasts = [p \in Party |-> None]
  /\ passed = {}
  /\ culprit = [p \in Party |-> None]

\* What p holds of every dealer: its own commitments and those it received.
View(p) == [d \in Party |-> IF d = p THEN Own ELSE r1Bcasts[p][d]]

\* The payloads of a complete collector, by sender.
Payloads(p, t) ==
  [d \in Others(p) |-> (CHOOSE m \in Of(p, t) : m.from = d).val]

\* Messages of type t from p whose value may differ from one peer to the next.
ToEach(t, p, val) ==
  {[type |-> t, from |-> p, to |-> q, val |-> val[q]] : q \in Others(p)}

\* What p may send each of its peers: v, or anything in S if p is in Wrong.
Sends(p, v, S, Wrong) == [Others(p) -> IF p \in Wrong THEN S ELSE {v}]

\* NewKeygen and round1: deal, then connect the two collectors.
Round1(p) ==
  \E vs \in Sends(p, Own, Commitment, Equivocator),
     shares \in Sends(p, Own, Commitment, Equivocator) :
    /\ p \notin started
    /\ started' = started \cup {p}
    /\ net' = net \cup ToEach("r1bc", p, vs) \cup ToEach("r1uc", p, shares)
    /\ want' = [want EXCEPT ![p] =
         Connect(Connect(@, "r1bc", Others(p)), "r1uc", Others(p))]
    /\ UNCHANGED <<got, ran, cancelled, done, failed, r1Bcasts, r1Unicasts, passed, culprit>>

\* The digests p echoes, of what it received from the others.
Echo(p) == Digests([d \in Others(p) |-> r1Bcasts[p][d]])

\* startEchoPhase: echo the digests and wait for those of the others.
StartEchoPhase(p) ==
  \/ /\ p \in cancelled
     /\ Fail(p)
     /\ UNCHANGED <<net, want>>
  \/ /\ p \notin cancelled
     /\ \E echo \in Sends(p, Echo(p)', Lies \cup {Echo(p)'}, Liar) :
          net' = net \cup ToEach("echo", p, echo)
     /\ want' = [want EXCEPT ![p] = Connect(@, "echo", Others(p))]
     /\ UNCHANGED failed

\* Mutant: the counter is compared with 3.
JoinedOffByOne(p) == FALSE

\* r1JoinCount == 2: the other callback of round 1 has stored its slice.
Joined(p) == r1Bcasts'[p] # None /\ r1Unicasts'[p] # None

\* onR1Bcast and onR1Unicast: store the slice and count under the mutex; the
\* second one goes on to the echo phase.
OnR1(p, t) ==
  /\ t \in {"r1bc", "r1uc"} \ ran[p]
  /\ Collected(p, t)
  /\ ran' = [ran EXCEPT ![p] = @ \cup {t}]
  /\ r1Bcasts' = IF t = "r1bc" THEN [r1Bcasts EXCEPT ![p] = Payloads(p, t)] ELSE r1Bcasts
  /\ r1Unicasts' = IF t = "r1uc" THEN [r1Unicasts EXCEPT ![p] = Payloads(p, t)] ELSE r1Unicasts
  /\ IF Joined(p) THEN StartEchoPhase(p) ELSE UNCHANGED <<net, want, failed>>
  /\ UNCHANGED <<got, cancelled, done, started, passed, culprit>>

\* Mutant: a share is not checked against the commitments.
NoneRejected(p) == {}

\* The dealers whose share or base-OT data round2 refuses.
Rejected(p) == {d \in Others(p) : r1Unicasts[p][d] # r1Bcasts[p][d]}

\* round2: check the dealers one by one and answer each; the first bad one
\* ends the round, after the dealers before it have been answered.
Round2(p) ==
  \E answer \in Sends(p, Good, {Good, Bad}, Equivocator) :
    LET answered == {d \in Others(p) : \A b \in Rejected(p) : d < b} IN
    /\ net' = net \cup {m \in ToEach("r2", p, answer) : m.to \in answered}
    /\ IF Rejected(p) = {}
       THEN /\ want' = [want EXCEPT ![p] = Connect(@, "r2", Others(p))]
            /\ UNCHANGED failed
       ELSE Fail(p) /\ UNCHANGED want

\* onEcho: stop and name a culprit, or go on to round2.
OnEcho(p) ==
  LET echoes == Payloads(p, "echo")
      mine == Digests(View(p))
  IN
  /\ "echo" \notin ran[p]
  /\ Collected(p, "echo")
  /\ ran' = [ran EXCEPT ![p] = @ \cup {"echo"}]
  /\ \/ /\ p \in cancelled
        /\ Fail(p)
        /\ UNCHANGED <<net, want, passed, culprit>>
     \/ /\ p \notin cancelled
        /\ \E c \in EchoCulprits(p, echoes, mine, Party) :
             culprit' = [culprit EXCEPT ![p] = c]
        /\ Fail(p)
        /\ UNCHANGED <<net, want, passed>>
     \/ /\ p \notin cancelled
        /\ EchoesAgree(p, echoes, mine, Party)
        /\ passed' = passed \cup {p}
        /\ Round2(p)
        /\ UNCHANGED culprit
  /\ UNCHANGED <<got, cancelled, done, started, r1Bcasts, r1Unicasts>>

\* finalize: finish the base OTs and deliver the key.
Finalize(p) ==
  /\ "r2" \notin ran[p]
  /\ Collected(p, "r2")
  /\ ran' = [ran EXCEPT ![p] = @ \cup {"r2"}]
  /\ IF p \notin cancelled /\ \A m \in Of(p, "r2") : m.val = Good
     THEN SendDone(p, View(p)) /\ UNCHANGED failed
     ELSE Fail(p) /\ UNCHANGED done
  /\ UNCHANGED <<net, want, got, cancelled, keygen>>

Deliver(p) == Receive(p) /\ UNCHANGED keygen

CancelContext(p) == Cancel(p) /\ UNCHANGED keygen

Callback(p) == (\E t \in {"r1bc", "r1uc"} : OnR1(p, t)) \/ OnEcho(p) \/ Finalize(p)

Next == \E p \in Party : Round1(p) \/ Deliver(p) \/ Callback(p) \/ CancelContext(p)

Spec == Init /\ [][Next]_vars

\* Every party is started, the broker delivers, and Go runs the callbacks.
Fairness == \A p \in Party : /\ WF_vars(Round1(p))
                             /\ WF_vars(Deliver(p))
                             /\ WF_vars(Callback(p))

FairSpec == Spec /\ Fairness
-----------------------------------------------------------------------------
Honest == Party \ (Equivocator \cup Liar)

Phase == {"r1bc", "r1uc", "echo", "r2"}

SlotSet == SUBSET (Phase \X Party)

\* The state of keygen_party.go has its types; an error names a party of the
\* key generation, or nobody.
TypeOK ==
  /\ want \in [Party -> SlotSet]
  /\ got \in [Party -> SUBSET net]
  /\ ran \in [Party -> SUBSET Phase]
  /\ cancelled \subseteq MayCancel
  /\ done \in [Party -> [Party -> Commitment] \cup {None}]
  /\ failed \subseteq Party
  /\ started \subseteq Party
  /\ \A p \in Party : r1Bcasts[p] \in [Others(p) -> Commitment] \cup {None}
  /\ \A p \in Party : r1Unicasts[p] \in [Others(p) -> Commitment] \cup {None}
  /\ passed \subseteq Party
  /\ culprit \in [Party -> Party \cup {None}]

\* onEcho: whoever accepts the echoes has received, of every dealer, exactly
\* what every honest party received, whatever the faulty dealers sent to whom
\* and whatever the liars echo.
EchoesBindViews ==
  \A p \in passed \cap Honest, q \in Honest : View(q) = View(p)

\* verifyEchoes: an echo that is accepted vouches for every dealer but its
\* sender, so no dealer goes unchecked because an echoer kept silent about it.
EchoesAreComplete ==
  \A p \in passed : \A m \in Of(p, "echo") : DOMAIN m.val = Others(m.from)

\* finalize: a key is delivered only when every other honest party has accepted
\* the same commitments, so no two parties ever hold keys that do not fit
\* together, even if the other one fails later.
KeyMeansAgreement ==
  \A p, q \in Honest : done[p] # None => q \in passed /\ View(q) = done[p]

\* round2: every share that went into a delivered key was checked against the
\* commitments the whole committee agreed on.
KeySharesVerified ==
  \A p \in Party : done[p] # None => \A d \in Others(p) : r1Unicasts[p][d] = done[p][d]

\* verifyEchoes: the party an error names did something wrong ("A digest
\* mismatch identifies the equivocating dealer (or, if the dealer entry
\* references the recipient itself, the echoer").
CulpritIsFaulty ==
  \A p \in Honest : culprit[p] \in Equivocator \cup Liar \cup {None}

\* Everybody gets a key unless somebody fails: in whatever order the halves of
\* round 1, the echoes and the answers arrive, no callback is missed.
EverybodyGetsKey == <>(failed # {} \/ \A p \in Party : done[p] # None)
=============================================================================
