------------------------------ MODULE RoundScript ------------------------------
(***************************************************************************)
(* A run of one protocol of the library, described by a script (module     *)
(* Script) that one of the package modules translates from the code.       *)
(*                                                                         *)
(* Parties exchange messages through the application's broker, which       *)
(* delivers late and in any order.  A handler runs once, when its          *)
(* collectors are complete (JsonExpect shows what they promise) and the    *)
(* handlers it comes after have run.  Contexts are cancelled at any time.  *)
(* Faulty parties follow the order of the protocol, or stop, but put what  *)
(* they like into the messages, as far as the kind of the message lets     *)
(* them; the code defends against nothing else they could do.              *)
(*                                                                         *)
(* Of a content only its standing is kept: "ok"; "alt", also right but not *)
(* what other parties were given; "bad", wrong, from a faulty party; "off",*)
(* computed in good faith from something wrong.                            *)
(***************************************************************************)
EXTENDS Script

CONSTANTS Party,     \* every party of every run
          Scripts,   \* the protocols, by name
          Setups,    \* proto, old and new committee, faulty parties, luck
          MayCancel  \* the parties whose context may be cancelled

ASSUME SetupsAssumption ==
  /\ MayCancel \subseteq Party
  /\ Setups \subseteq [proto : DOMAIN Scripts, old : SUBSET Party, new : SUBSET Party,
                       faulty : SUBSET Party, luck : BOOLEAN]

VARIABLES run,       \* the setup, chosen once
          net,       \* messages handed to the broker: t, from, to, val
          ran,       \* per party: the handlers that have run to the end
          failed,    \* per party: the handlers that ended with an error
          cancelled  \* the parties whose context is done

vars == <<run, net, ran, failed, cancelled>>

script == Scripts[run.proto]
Members == run.old \cup run.new
Honest(p) == p \notin run.faulty
Dual(p) == p \in run.old \cap run.new

\* The parties a group names in setup s, as p sees them.  A protocol with one
\* committee has it as old and as new.
Committee(s, p, g) ==
  CASE g = "others"   -> (s.old \cup s.new) \ {p}
    [] g = "all"      -> s.old \cup s.new
    [] g = "old"      -> s.old
    [] g = "new"      -> s.new
    [] g = "otherOld" -> s.old \ {p}
    [] g = "otherNew" -> s.new \ {p}
    [] g = "oldOnly"  -> s.old \ s.new
    [] g = "newOnly"  -> s.new \ s.old

Group(p, g) == Committee(run, p, g)

\* What p was sent of the types T.
Inbox(p, T) == {m \in net : m.to = p /\ m.t \in T}

\* Mutant: a collector also waits for the party's own message.
CompleteWithSelf(p, H) ==
  \A c \in H.on :
    /\ H.solo \/ Group(p, c[2]) # {}
    /\ Group(p, c[2]) \cup {p} \subseteq {m.from : m \in Inbox(p, {c[1]})}

\* The collectors of handler H are complete at p.  A collector of no party
\* never completes, unless the code goes on by itself in that case.
Complete(p, H) ==
  \A c \in H.on :
    /\ H.solo \/ Group(p, c[2]) # {}
    /\ Group(p, c[2]) \subseteq {m.from : m \in Inbox(p, {c[1]})}

\* The broker can call handler h of p.
Ready(p, h) ==
  LET H == script.handlers[h] IN
  /\ ~H.inline
  /\ p \in Group(p, H.role)
  /\ h \notin ran[p] \cup failed[p]
  /\ H.after \subseteq ran[p]
  /\ Complete(p, H)

\* Handler h with the handler it calls, if it is the last of a join to finish.
Calls(p, h) ==
  {h} \cup {g \in Names(script) : LET G == script.handlers[g] IN
             G.inline /\ h \in G.after /\ G.after \subseteq ran[p] \cup {h}}

\* p and q were given different messages of type t by the same party.
Differ(p, q, t) ==
  \E m \in Inbox(p, {t}), n \in Inbox(q, {t}) : m.from = n.from /\ m.val # n.val

Wrong(M) == {m \in M : m.val \in {"bad", "off"}}

\* The handlers S of p take in something wrong, unless they refuse it.
Swallows(p, S) ==
  \E g \in S : Wrong(Inbox(p, script.handlers[g].verifies \cup script.handlers[g].uses)) # {}

\* ctx.Err() is tested and set.
Stopped(p, S) == p \in cancelled /\ \E g \in S : script.handlers[g].ctx

\* A check of what came in, or of the result, fails.
Refused(p, S) ==
  \E g \in S : LET G == script.handlers[g] IN
    \/ \E m \in Inbox(p, G.verifies) : m.val = "bad"
    \/ \E b \in G.binds : \E m \in Inbox(p, {b[1]}) :
         Honest(m.from) /\ Differ(p, m.from, b[2])
    \/ G.gate /\ Swallows(p, ran[p] \cup S)

\* What another handler of the same party should have stored is not there, or
\* every attempt was rejected.
Internal(p, S) ==
  \E g \in S : LET G == script.handlers[g] IN
    (Dual(p) /\ ~(G.needs \subseteq ran[p])) \/ (G.chance /\ ~run.luck)

MustFail(p, S) == Stopped(p, S) \/ Refused(p, S) \/ Internal(p, S)

\* Wrong content, or a difference, that the checks may or may not catch.
Suspect(p, S) ==
  \/ Swallows(p, S)
  \/ \E g \in S : LET G == script.handlers[g] IN
       \/ Wrong(Inbox(p, G.screens)) # {}
       \/ \E b \in G.compares : \E m \in Inbox(p, {b[1]}) :
            Honest(m.from) /\ Differ(p, m.from, b[2])

---------------------------------------------------------------------------
\* Mutant: a message also goes to parties that take no part.
MailToStrangers(p, s, v) ==
  {[t |-> s.t, from |-> p, to |-> q, val |-> v[q]] : q \in (Party \ {p}) \cap DOMAIN v}

\* The messages of one send statement, with content v[q] for party q.
Mail(p, s, v) ==
  {[t |-> s.t, from |-> p, to |-> q, val |-> v[q]] : q \in Group(p, s.to)}

Sendings(S) == UNION {script.handlers[g].sends : g \in S}

\* What an honest p sends in the handlers S.  An echo repeats what it received
\* and an ACK has no content: both are right whatever went before.
Good(p, S) ==
  LET off == Swallows(p, ran[p] \cup S) IN
  UNION {Mail(p, s, [q \in Party |->
             IF off /\ s.kind \notin {"echo", "ack"} THEN "off" ELSE "ok"]) :
           s \in Sendings(S)}

\* The contents a faulty sender may choose: one per receiver, or one for all.
Choices(p, s) ==
  IF s.kind \in {"p2p", "fork"}
  THEN [Group(p, s.to) -> Contents(s.kind)]
  ELSE {[q \in Group(p, s.to) |-> c] : c \in Contents(s.kind)}

\* An honest party runs handler h, and what it calls, to the end.
Handle(p, h) ==
  LET S == Calls(p, h) IN
  /\ Honest(p) /\ Ready(p, h)
  /\ ~MustFail(p, S)
  /\ net' = net \cup Good(p, S)
  /\ ran' = [ran EXCEPT ![p] = @ \cup S]
  /\ UNCHANGED <<run, failed, cancelled>>

\* An honest party's handler h, or what it calls, ends with an error.  Where the
\* code sends to one peer before it checks the next, some messages are out.
Fail(p, h) ==
  LET S == Calls(p, h) IN
  /\ Honest(p) /\ Ready(p, h)
  /\ MustFail(p, S) \/ Suspect(p, S)
  /\ \E early \in SUBSET {m \in Good(p, S) : /\ ~Stopped(p, S)
                                            /\ \E g \in S : m.t \in script.handlers[g].eager} :
       net' = net \cup early
  /\ failed' = [failed EXCEPT ![p] = @ \cup {h}]
  /\ UNCHANGED <<run, ran, cancelled>>

\* A faulty party takes the step of handler h, and chooses what it sends.
Deviate(p, h) ==
  LET S == Calls(p, h) IN
  /\ ~Honest(p) /\ Ready(p, h)
  /\ \E choice \in [Sendings(S) -> UNION {Choices(p, s) : s \in Sendings(S)}] :
       /\ \A s \in Sendings(S) : choice[s] \in Choices(p, s)
       /\ net' = net \cup UNION {Mail(p, s, choice[s]) : s \in Sendings(S)}
  /\ ran' = [ran EXCEPT ![p] = @ \cup S]
  /\ UNCHANGED <<run, failed, cancelled>>

\* The context of p is cancelled, or its deadline passes.
Cancel(p) ==
  /\ p \in (MayCancel \cap Members) \ cancelled
  /\ cancelled' = cancelled \cup {p}
  /\ UNCHANGED <<run, net, ran, failed>>

---------------------------------------------------------------------------
Init ==
  /\ run \in Setups
  /\ net = {}
  /\ ran = [p \in Party |-> {}]
  /\ failed = [p \in Party |-> {}]
  /\ cancelled = {}

Step(p) == \E h \in Names(script) : Handle(p, h) \/ Fail(p, h)

Next == \E p \in Party : Step(p) \/ Cancel(p) \/ \E h \in Names(script) : Deviate(p, h)

Spec == Init /\ [][Next]_vars

\* The broker delivers every message and the callback it completes runs to its
\* end: handlers block on nothing but a full Err or Done channel.
FairSpec == Spec /\ \A p \in Party : WF_vars(Step(p))

---------------------------------------------------------------------------
Deeds(p, d) == {h \in ran[p] : d \in script.handlers[h].does}
Done(p) == Deeds(p, "done") # {} \/ (Deeds(p, "leave") # {} /\ p \notin run.new)
HasShare(p) == Deeds(p, "share") # {}
HasKey(p) == Deeds(p, "key") # {}

\* A share is erased at the end of an erasing handler, and by a scrubbing one
\* even when its context is done.
Erased(p) ==
  \/ Deeds(p, "erase") # {}
  \/ \E h \in ran[p] \cup failed[p] : "scrub" \in script.handlers[h].does

---------------------------------------------------------------------------
\* Every variable has its type.
TypeOK ==
  /\ run \in Setups
  /\ \A m \in net : /\ m.from \in Members /\ m.to \in Members
                    /\ m.val \in {"ok", "alt", "bad", "off"}
  /\ ran \in [Party -> SUBSET Names(script)]
  /\ failed \in [Party -> SUBSET Names(script)]
  /\ cancelled \subseteq MayCancel

\* An honest party reports an error only when its context is done, when some
\* faulty party has sent something wrong or two different things, or when the
\* rejection sampling had no luck: the interleaving of the handlers alone, in
\* whatever order the broker delivers, never makes a protocol fail.
ErrorHasCause ==
  \A p \in Members :
    Honest(p) /\ failed[p] # {} =>
      \/ p \in cancelled
      \/ ~run.luck
      \/ \E m \in net : m.from \in run.faulty /\ m.val \in {"bad", "alt"}

\* The result an honest party sends on Done, and the shares that a later test
\* must not be able to recall, are computed from right content only, however the
\* checks of it are spread over the handlers that run before.
SoundResult ==
  \A p \in Members : Honest(p) =>
    /\ Done(p) /\ ~script.deferred =>
         \A h \in ran[p] :
           Wrong(Inbox(p, Hears(script.handlers[h]) \cap Matters(script))) = {}
    /\ \A m \in net : m.from = p /\ m.t \in script.sealed => m.val # "off"

\* What a commitment or an acknowledgement protects leaves an honest party only
\* when it holds the commitment or the acknowledgement of everybody concerned.
RevealAfterCommit ==
  \A p \in Members, r \in script.reveals :
    Honest(p) /\ (\E m \in net : m.from = p /\ m.t = r[3]) =>
      Group(p, r[2]) \subseteq {m.from : m \in Inbox(p, {r[1]})}

\* Two honest parties that both deliver a result were given the same by every
\* other party, in everything the protocol wants agreed: the echo phases compare
\* what the parties were given before any of them uses it.
Agreement ==
  \A p, q \in Members :
    Honest(p) /\ Honest(q) /\ Done(p) /\ Done(q) =>
      \A t \in script.agreed : ~Differ(p, q, t)

\* Where Done and Err are written without a once-guard, a second write to the
\* channel of capacity one, which nobody may read, happens only after the
\* application has cancelled the context.
NoBlockedSend ==
  script.raw =>
    \A p \in Members : Honest(p) /\ p \notin cancelled =>
      /\ \A g, h \in failed[p] : g = h
      /\ \A g, h \in Deeds(p, "done") : g = h

\* A party that plays one role ends with a result or with an error, not both.
OneOutcome ==
  \A p \in Members :
    run.old = run.new \/ ~Dual(p) => ~(Done(p) /\ failed[p] # {})

\* The context of p is done, or a faulty new member has sent it something wrong.
Disturbed(p) ==
  \/ p \in cancelled
  \/ \E m \in net : m.to = p /\ m.from \in run.faulty \cap run.new /\ m.val = "bad"

\* An honest old member erases its share only when every other honest new member
\* has completed its new key or, in the packages that do so in round 5 (ECDSA after
\* a check of the factor proofs), holds a verified share.  Such a share is lost through the
\* new member's own context or a faulty new member only: nothing an old member
\* has sent, and no order of the messages, makes it end in an error.
HandedOver ==
  \A p \in run.old : \A q \in run.new \ {p} :
    Honest(p) /\ Honest(q) /\ Erased(p) =>
      HasKey(q) \/ (HasShare(q) /\ (failed[q] = {} \/ Disturbed(q)))

\* Every collector of a member waits for somebody, or its code goes on by itself.
Peopled ==
  \A p \in Members, h \in Names(script) :
    p \in Group(p, script.handlers[h].role) =>
      \A c \in script.handlers[h].on : script.handlers[h].solo \/ Group(p, c[2]) # {}

\* When the broker has no callback left to call, every party has its result or
\* somebody has reported an error: no order of the messages leaves the parties
\* waiting for one another, or for a message that nobody is going to send.
NeverStuck ==
  /\ \A p \in Members : failed[p] = {} /\ \A h \in Names(script) : ~Ready(p, h)
  /\ Peopled
  => \A p \in Members : Done(p)

\* With nobody faulty, nobody cancelled and luck, every party delivers a result.
EverybodyFinishes ==
  run.faulty = {} /\ run.luck /\ [](cancelled = {}) => <>(\A p \in Members : Done(p))
===============================================================================
