------------------------------ MODULE ScriptRules ------------------------------
(***************************************************************************)
(* What the theorems of RoundScriptProofs ask of the protocols and setups: *)
(* rules about the text of the scripts, in which no run and no party       *)
(* occurs.  Which parties a group names depends on their committees only,  *)
(* so a rule speaks of the classes of parties that take part, its cast,    *)
(* and what TLC evaluates for a protocol and a cast holds for committees   *)
(* of every size.                                                          *)
(***************************************************************************)
EXTENDS RoundScript

Groups == {"others", "all", "old", "new", "otherOld", "otherNew", "oldOnly", "newOnly"}
Kinds == {"p2p", "bcast", "fork", "echo", "ack"}

\* The handlers a party has run to the end if it has run h, h among them.
Before(sc, h) ==
  {g \in Names(sc) : \A S \in SUBSET Names(sc) : Closed(sc, S) /\ h \in S => g \in S}

\* The class of a member of setup s: in the old committee only, in the new one
\* only, or in both; and the classes that occur.
Class(s, p) == IF p \notin s.old THEN "new" ELSE IF p \in s.new THEN "dual" ELSE "old"

Cast(s) == {Class(s, p) : p \in s.old \cup s.new}

\* A party of class c is in the group g that a member names; self: it is that
\* member itself.
InGroup(g, c, self) ==
  CASE g = "others"   -> ~self
    [] g = "all"      -> TRUE
    [] g = "old"      -> c # "new"
    [] g = "new"      -> c # "old"
    [] g = "otherOld" -> c # "new" /\ ~self
    [] g = "otherNew" -> c # "old" /\ ~self
    [] g = "oldOnly"  -> c = "old"
    [] g = "newOnly"  -> c = "new"

\* Parties of class c run handler h.
RunBy(sc, h, c) == InGroup(sc.handlers[h].role, c, TRUE)

\* Handler h is the last one of the parties of class c.
LastOf(sc, h, c) ==
  LET does == sc.handlers[h].does IN
  RunBy(sc, h, c) /\ ("done" \in does \/ ("leave" \in does /\ c = "old"))

\* Groups and handlers exist, an inline handler has no collector of its own and
\* is called by a handler of the same role, a message type belongs to one send
\* statement, and what is checked was collected before.
WellFormed(sc) ==
  /\ \A h \in Names(sc) : LET H == sc.handlers[h] IN
       /\ H.role \in Groups
       /\ H.after \subseteq Names(sc) \ {h}
       /\ \A c \in H.on : c[2] \in Groups
       /\ \A s \in H.sends : s.to \in Groups /\ s.kind \in Kinds
       /\ H.eager \subseteq Sends(H)
       /\ H.inline => /\ H.on = {} /\ H.after # {}
                      /\ \A g \in H.after : /\ ~sc.handlers[g].inline
                                            /\ sc.handlers[g].role = H.role
       /\ \A t \in H.verifies \cup H.uses :
            \E g \in Before(sc, h) : t \in Hears(sc.handlers[g])
  /\ \A g, h \in Names(sc) : \A a \in sc.handlers[g].sends, b \in sc.handlers[h].sends :
       a.t = b.t => g = h /\ a = b

\* A collector waits for everybody who sends what it collects.
FlowRule(sc, K) ==
  \A g, h \in Names(sc) : \A a \in sc.handlers[g].sends, c \in sc.handlers[h].on :
    a.t = c[1] =>
      \A x, y \in K, same \in BOOLEAN :
        (same => x = y) /\ RunBy(sc, g, y) /\ RunBy(sc, h, x) /\ InGroup(a.to, x, same) =>
          InGroup(c[2], y, same)

\* The handler that reveals comes after the one that collects the commitments.
RevealRule(sc) ==
  \A r \in sc.reveals, h \in Names(sc) : r[3] \in Sends(sc.handlers[h]) =>
    \E g \in Before(sc, h) : <<r[1], r[2]>> \in sc.handlers[g].on

\* No party of both committees depends on the order of its two roles.
NeedsRule(sc, K) == \A h \in Names(sc) : sc.handlers[h].needs = {} \/ "dual" \notin K

\* What is sent was not computed from unchecked content: a handler that uses any
\* comes after all that send, and what goes out before all is checked is not
\* used, or goes out in a role that takes in nothing.
Pure(sc) ==
  /\ \A g \in Names(sc) : sc.handlers[g].uses # {} =>
       /\ ~sc.handlers[g].inline
       /\ \A h \in Names(sc) : sc.handlers[h].sends # {} => h \in Before(sc, g) \ {g}
  /\ \A h \in Names(sc) : sc.handlers[h].eager \cap Checked(sc) # {} =>
       \A g \in Names(sc) : sc.handlers[g].role = sc.handlers[h].role =>
         sc.handlers[g].verifies \cup sc.handlers[g].uses = {}

\* Before the last handler of a party everything it collects has been checked,
\* or the last handler tests the result, unless nobody is faulty; a sealed type
\* likewise.
SoundRule(sc, K, faulty) ==
  /\ ~sc.deferred /\ faulty => \A x \in K, d \in Names(sc) : LastOf(sc, d, x) =>
       /\ \A h \in Names(sc) : RunBy(sc, h, x) =>
            \A t \in Hears(sc.handlers[h]) \cap Matters(sc) : \E g \in Before(sc, d) :
              t \in sc.handlers[g].verifies \cup sc.handlers[g].uses
       /\ \/ sc.handlers[d].gate
          \/ Pure(sc) /\ \A g \in Before(sc, d) : sc.handlers[g].uses = {}
  /\ sc.sealed \subseteq Checked(sc)
  /\ \A h \in Names(sc) : Sends(sc.handlers[h]) \cap sc.sealed # {} =>
       Pure(sc) \/ (sc.handlers[h].gate /\ sc.handlers[h].eager = {})

\* The parties that run h have everybody else in their group r who is given t.
Covers(sc, K, h, t, r) ==
  \A f \in Names(sc) : \A a \in sc.handlers[f].sends : a.t = t =>
    \A x, y, z \in K, same \in BOOLEAN :
      (same => x = z) /\ RunBy(sc, f, x) /\ RunBy(sc, h, y) /\ InGroup(a.to, z, same) =>
        InGroup(r, z, FALSE)

\* A handler that compares what two parties were given has a message in which
\* everybody concerned tells what it was given, sent by no one before it knew.
BindRule(sc, K) ==
  \A h \in Names(sc) : \A b \in sc.handlers[h].binds :
    /\ \E g \in Before(sc, h) : b[2] \in Hears(sc.handlers[g])
    /\ \A f \in Names(sc) : b[1] \in Sends(sc.handlers[f]) =>
         /\ b[1] \notin sc.handlers[f].eager
         /\ \E g \in Before(sc, f) : b[2] \in Hears(sc.handlers[g])
    /\ \E c \in sc.handlers[h].on : c[1] = b[1] /\ Covers(sc, K, h, b[2], c[2])

\* Before the last handler of a party everything that must be agreed has been
\* compared, if the party is given it at all.
AgreedRule(sc, K) ==
  \A t \in sc.agreed, x \in K, d \in Names(sc) : LastOf(sc, d, x) =>
    \/ \E g \in Before(sc, d) : \E b \in sc.handlers[g].binds : b[2] = t
    \/ \A f \in Names(sc) : \A a \in sc.handlers[f].sends : a.t = t =>
         \A y \in K, same \in BOOLEAN :
           (same => x = y) /\ RunBy(sc, f, y) => ~InGroup(a.to, x, same)

\* A party of one role runs every handler before its last.
OutcomeRule(sc, K) ==
  \A x \in K, d, h \in Names(sc) :
    (K = {"dual"} \/ x # "dual") /\
      LastOf(sc, d, x) /\ RunBy(sc, h, x) /\ ~sc.handlers[h].inline => h \in Before(sc, d)

\* Only an acknowledgement that is sent with the new key or share in hand erases
\* the old.
HandoverRule(sc) ==
  \A h \in Names(sc) : sc.handlers[h].does \cap {"erase", "scrub"} # {} =>
    \E c \in sc.handlers[h].on :
      /\ c[2] \in {"new", "otherNew"}
      /\ \A g \in Names(sc) : c[1] \in Sends(sc.handlers[g]) =>
           /\ sc.handlers[g].does \cap {"share", "key"} # {}
           /\ c[1] \notin sc.handlers[g].eager

\* The types handler H looks into.
Looks(H) == H.screens \cup H.verifies \cup H.uses

\* Nothing but the context and what new members sent makes handler h fail.
NewOnly(sc, h) ==
  LET H == sc.handlers[h] IN
  /\ H.binds \cup H.compares \cup H.needs = {} /\ ~H.gate /\ ~H.chance
  /\ Looks(H) \subseteq Checked(sc)
  /\ \A g \in Names(sc) : Sends(sc.handlers[g]) \cap Looks(H) # {} =>
       sc.handlers[g].role = "new"

\* Where a share is acknowledged before the key is complete, no later handler
\* looks at anything but what the new members sent.
ShareRule(sc) ==
  \A g \in Names(sc) : "share" \in sc.handlers[g].does =>
    Pure(sc) /\ \A h \in Names(sc) \ Before(sc, g) : NewOnly(sc, h)

\* The handler makes no check of its own.
Quiet(H) ==
  /\ Looks(H) \cup H.binds \cup H.compares \cup H.needs = {}
  /\ ~H.gate /\ ~H.chance

\* Where Err has no once-guard, two handlers of a party that come in any order
\* leave their checks to the one that runs when both have ended.
RawRule(sc, K) ==
  sc.raw => \A x \in K, g, h \in Names(sc) : RunBy(sc, g, x) /\ RunBy(sc, h, x) =>
    /\ ~sc.handlers[g].inline /\ ~sc.handlers[h].inline =>
         \/ g \in Before(sc, h) \/ h \in Before(sc, g)
         \/ Quiet(sc.handlers[g]) /\ \A i \in Names(sc) :
              sc.handlers[i].inline /\ g \in sc.handlers[i].after => h \in sc.handlers[i].after
    /\ "done" \in sc.handlers[g].does \cap sc.handlers[h].does => g = h

\* What has to happen before handler h: the handlers it comes after, and those
\* that send what it collects.
Awaits(sc, h) ==
  sc.handlers[h].after \cup
  {g \in Names(sc) : Sends(sc.handlers[g]) \cap Hears(sc.handlers[h]) # {}}

\* The parties in the group r of one of class x all send it type t.
Fed(sc, K, x, t, r) ==
  \A y \in K, same \in BOOLEAN : (same => x = y) /\ InGroup(r, y, same) =>
    \E g \in Names(sc) : RunBy(sc, g, y) /\
      \E a \in sc.handlers[g].sends : a.t = t /\ InGroup(a.to, x, same)

\* No handlers wait for one another in a circle, whatever a collector waits for
\* is sent by the parties it names, a handler comes after handlers of the same
\* party, and every party has a last handler.
WaitRule(sc, K) ==
  /\ \A S \in SUBSET Names(sc) : S # {} => \E h \in S : Awaits(sc, h) \cap S = {}
  /\ \A h \in Names(sc), x \in K : RunBy(sc, h, x) =>
       /\ \A g \in sc.handlers[h].after : RunBy(sc, g, x)
       /\ \A c \in sc.handlers[h].on : Fed(sc, K, x, c[1], c[2])
  /\ \A x \in K : \E d \in Names(sc) : LastOf(sc, d, x)

\* A protocol keeps the rules with a cast, with or without faulty parties.
Keeps(sc, K, faulty) ==
  /\ FlowRule(sc, K) /\ NeedsRule(sc, K) /\ SoundRule(sc, K, faulty) /\ BindRule(sc, K)
  /\ AgreedRule(sc, K) /\ OutcomeRule(sc, K) /\ RawRule(sc, K) /\ WaitRule(sc, K)

ASSUME ScriptsAssumption ==
  \A n \in DOMAIN Scripts :
    /\ WellFormed(Scripts[n]) /\ RevealRule(Scripts[n])
    /\ HandoverRule(Scripts[n]) /\ ShareRule(Scripts[n])

ASSUME SetupRulesAssumption ==
  \A s \in Setups : Keeps(Scripts[s.proto], Cast(s), s.faulty # {})
================================================================================
