--------------------------- MODULE RoundScriptProofs ---------------------------
(***************************************************************************)
(* The safety properties of RoundScript hold for every protocol whose      *)
(* script keeps the rules of ScriptRules, whatever the size of the         *)
(* committees, the faulty parties and the cancelled contexts.              *)
(***************************************************************************)
EXTENDS ScriptRules, TLAPS

\* The handlers of p whose messages may be out: those it has run, those that
\* failed, and those that were called by one that failed.
Begun(p) ==
  ran[p] \cup failed[p] \cup
  {g \in Names(script) :
     /\ script.handlers[g].inline
     /\ \E h \in failed[p] \cap script.handlers[g].after :
          script.handlers[g].after \subseteq ran[p] \cup {h}}

\* A party has run the handlers before those it has run, and collected what
\* they collect; what failed has not run, and was called in time as well.
History ==
  \A p \in Party :
    /\ Closed(script, ran[p])
    /\ ran[p] \cap failed[p] = {}
    /\ \A h \in failed[p] : /\ script.handlers[h].after \subseteq ran[p]
                            /\ ~script.handlers[h].inline
    /\ \A h \in ran[p] \cup failed[p] : /\ p \in Group(p, script.handlers[h].role)
                                        /\ Complete(p, script.handlers[h])
    /\ ~Honest(p) => failed[p] = {}

\* A message comes from a send statement of a handler that its sender has begun,
\* and ended unless the statement is an eager one.
Origin ==
  \A m \in net : \E h \in Names(script) : \E s \in script.handlers[h].sends :
    /\ m.t = s.t
    /\ m.to \in Group(m.from, s.to)
    /\ m.from \in Party
    /\ m.from \in Group(m.from, script.handlers[h].role)
    /\ h \in Begun(m.from)
    /\ h \in ran[m.from] \/ m.t \in script.handlers[h].eager

\* No party sends two messages of one type to the same party.
Unique ==
  \A m, n \in net : m.t = n.t /\ m.from = n.from /\ m.to = n.to => m = n

\* An honest party sends nothing that is wrong by itself, and what it computes
\* from wrong content goes back to a faulty party.
Values ==
  \A m \in net :
    /\ Honest(m.from) => m.val \in {"ok", "off"}
    /\ m.val = "off" => \E n \in net : n.from \in run.faulty /\ n.val = "bad"

\* The inductive invariant on which the theorems rest.
Engine == TypeOK /\ History /\ Origin /\ Unique /\ Values

---------------------------------------------------------------------------
\* A group is a set of members.
LEMMA GroupMembers ==
  ASSUME NEW s, NEW p, NEW g \in Groups
  PROVE  Committee(s, p, g) \subseteq s.old \cup s.new
BY DEF Committee, Groups

\* The rules hold of the script that runs.
LEMMA Rules ==
  ASSUME run \in Setups
  PROVE  /\ run.proto \in DOMAIN Scripts
         /\ run.old \subseteq Party /\ run.new \subseteq Party /\ run.faulty \subseteq Party
         /\ Members \subseteq Party
         /\ WellFormed(script) /\ RevealRule(script)
         /\ HandoverRule(script) /\ ShareRule(script)
         /\ Keeps(script, Cast(run), run.faulty # {})
<1>1. run \in [proto : DOMAIN Scripts, old : SUBSET Party, new : SUBSET Party,
               faulty : SUBSET Party, luck : BOOLEAN]
  BY SetupsAssumption
<1>2. run.proto \in DOMAIN Scripts
  BY <1>1
<1>3. run.old \subseteq Party /\ run.new \subseteq Party /\ run.faulty \subseteq Party
  BY <1>1
<1> QED
  BY <1>2, <1>3, ScriptsAssumption, SetupRulesAssumption DEF script, Members

\* What WellFormed says of one handler.
LEMMA HandlerRules ==
  ASSUME run \in Setups, NEW h \in Names(script)
  PROVE  LET H == script.handlers[h] IN
         /\ H.role \in Groups
         /\ H.after \subseteq Names(script) \ {h}
         /\ \A c \in H.on : c[2] \in Groups
         /\ \A s \in H.sends : s.to \in Groups /\ s.kind \in Kinds
         /\ H.eager \subseteq Sends(H)
         /\ H.inline => H.on = {} /\ H.after # {}
         /\ H.inline => \A g \in H.after : /\ ~script.handlers[g].inline
                                           /\ script.handlers[g].role = H.role
<1>1. WellFormed(script)
  BY Rules
<1> QED
  BY <1>1 DEF WellFormed

\* A message type belongs to one send statement.
LEMMA OneSender ==
  ASSUME run \in Setups, NEW g \in Names(script), NEW h \in Names(script),
         NEW a \in script.handlers[g].sends, NEW b \in script.handlers[h].sends, a.t = b.t
  PROVE  g = h /\ a = b
<1>1. WellFormed(script)
  BY Rules
<1> QED
  BY <1>1 DEF WellFormed

---------------------------------------------------------------------------
\* p runs handler h, and h is its last.
Plays(p, h) == p \in Group(p, script.handlers[h].role)

Last(p, h) ==
  LET does == script.handlers[h].does IN
  Plays(p, h) /\ ("done" \in does \/ ("leave" \in does /\ p \notin run.new))

\* Which members a group names depends on their classes only.
LEMMA GroupByClass ==
  ASSUME NEW p \in Members, NEW q \in Members, NEW g \in Groups
  PROVE  q \in Group(p, g) <=> InGroup(g, Class(run, q), q = p)
<1>1. /\ Class(run, q) # "new" <=> q \in run.old
      /\ Class(run, q) # "old" <=> q \in run.new
      /\ Class(run, q) = "old" <=> q \in run.old \ run.new
      /\ Class(run, q) = "new" <=> q \in run.new \ run.old
  BY DEF Class, Members
<1>2. CASE g \in {"others", "all"}
  BY <1>2, Zenon DEF Group, Committee, InGroup, Members
<1>3. CASE g \in {"old", "new", "oldOnly", "newOnly"}
  BY <1>1, <1>3, Zenon DEF Group, Committee, InGroup
<1>4. CASE g \in {"otherOld", "otherNew"}
  BY <1>1, <1>4, Zenon DEF Group, Committee, InGroup
<1> QED
  BY <1>2, <1>3, <1>4 DEF Groups

\* So does which handlers a member runs, and which of them is its last.
LEMMA PlaysByClass ==
  ASSUME run \in Setups, NEW p, NEW h \in Names(script)
  PROVE  /\ Plays(p, h) => p \in Members
         /\ p \in Members =>
              /\ Class(run, p) \in Cast(run)
              /\ Plays(p, h) <=> RunBy(script, h, Class(run, p))
              /\ Last(p, h) <=> LastOf(script, h, Class(run, p))
<1>1. script.handlers[h].role \in Groups
  BY HandlerRules
<1>2. Plays(p, h) => p \in Members
  BY <1>1, GroupMembers DEF Plays, Group, Members
<1>3. ASSUME p \in Members
      PROVE  /\ Class(run, p) \in Cast(run)
             /\ Plays(p, h) <=> RunBy(script, h, Class(run, p))
             /\ Class(run, p) = "old" <=> p \notin run.new
  <2>1. p \in Group(p, script.handlers[h].role)
          <=> InGroup(script.handlers[h].role, Class(run, p), p = p)
    BY <1>1, <1>3, GroupByClass
  <2> QED
    BY <1>3, <2>1, Zenon DEF Cast, Class, Members, Plays, RunBy
<1>4. ASSUME p \in Members PROVE Last(p, h) <=> LastOf(script, h, Class(run, p))
  BY <1>3, <1>4 DEF Last, LastOf
<1> QED
  BY <1>2, <1>3, <1>4

---------------------------------------------------------------------------
\* The handlers of a call are new, have their inputs, and come after what has run.
LEMMA CallFacts ==
  ASSUME TypeOK, History, NEW p \in Party, NEW h \in Names(script), Ready(p, h)
  PROVE  /\ Calls(p, h) \subseteq Names(script)
         /\ h \in Calls(p, h) /\ ~script.handlers[h].inline
         /\ h \notin ran[p] \cup failed[p]
         /\ script.handlers[h].after \subseteq ran[p]
         /\ Closed(script, ran[p] \cup Calls(p, h))
         /\ \A g \in Calls(p, h) : /\ g \notin Begun(p)
                                   /\ p \in Group(p, script.handlers[g].role)
                                   /\ Complete(p, script.handlers[g])
                                   /\ g # h => /\ script.handlers[g].inline
                                               /\ h \in script.handlers[g].after
                                               /\ script.handlers[g].after \subseteq ran[p] \cup {h}
<1> DEFINE S == Calls(p, h)
<1>0. run \in Setups /\ ran[p] \subseteq Names(script) /\ failed[p] \subseteq Names(script)
  BY DEF TypeOK
<1>1. /\ Closed(script, ran[p]) /\ ran[p] \cap failed[p] = {}
      /\ \A f \in failed[p] : ~script.handlers[f].inline
  BY DEF History
<1>2. /\ h \notin ran[p] \cup failed[p] /\ ~script.handlers[h].inline
      /\ script.handlers[h].after \subseteq ran[p]
      /\ p \in Group(p, script.handlers[h].role) /\ Complete(p, script.handlers[h])
  BY DEF Ready
<1>3. S \subseteq Names(script) /\ h \in S
  BY DEF Calls
<1>4. ASSUME NEW g \in S, g # h
      PROVE  /\ script.handlers[g].inline /\ h \in script.handlers[g].after
             /\ script.handlers[g].after \subseteq ran[p] \cup {h}
  BY <1>4 DEF Calls
<1>5. Closed(script, ran[p] \cup S)
  BY <1>1, <1>2, <1>3, <1>4 DEF Closed
<1>6. ASSUME NEW g \in S PROVE g \notin Begun(p)
  <2>1. CASE g = h
    BY <2>1, <1>2 DEF Begun
  <2>2. CASE g # h
    <3>1. g \notin ran[p]
      BY <2>2, <1>4, <1>1, <1>2 DEF Closed
    <3>2. g \notin failed[p]
      BY <2>2, <1>4, <1>1
    <3>3. ASSUME NEW f \in failed[p] \cap script.handlers[g].after PROVE FALSE
      BY <3>3, <2>2, <1>4, <1>1, <1>2
    <3> QED
      BY <3>1, <3>2, <3>3 DEF Begun
  <2> QED
    BY <2>1, <2>2
<1>7. ASSUME NEW g \in S
      PROVE  p \in Group(p, script.handlers[g].role) /\ Complete(p, script.handlers[g])
  <2>1. CASE g = h
    BY <2>1, <1>2
  <2>2. CASE g # h
    <3>1. g \in Names(script)
      BY <1>3
    <3>2. script.handlers[g].on = {} /\ script.handlers[h].role = script.handlers[g].role
      BY <2>2, <1>4, <1>0, <3>1, HandlerRules
    <3> QED
      BY <3>2, <1>2 DEF Complete
  <2> QED
    BY <2>1, <2>2
<1> QED
  BY <1>2, <1>3, <1>4, <1>5, <1>6, <1>7

\* What a step adds to the net: messages of send statements of the handlers that
\* were called, one per type and receiver, and from a handler that failed only
\* what is eager.
LEMMA Sent ==
  ASSUME TypeOK, NEW p \in Party, NEW h \in Names(script),
         Handle(p, h) \/ Fail(p, h) \/ Deviate(p, h)
  PROVE  /\ net \subseteq net'
         /\ \A m \in net' \ net :
              /\ m.from = p
              /\ \E g \in Calls(p, h) : \E s \in script.handlers[g].sends :
                   m.t = s.t /\ m.to \in Group(p, s.to)
         /\ \A m \in net' \ net :
              /\ m.val \in {"ok", "alt", "bad", "off"}
              /\ Honest(p) => m.val \in {"ok", "off"}
              /\ m.val = "off" => Honest(p) /\ Swallows(p, ran[p] \cup Calls(p, h))
         /\ \A m, n \in net' \ net : m.t = n.t /\ m.to = n.to => m = n
         /\ Fail(p, h) => \A m \in net' \ net : \E g \in Calls(p, h) :
              m.t \in script.handlers[g].eager
<1> DEFINE S == Calls(p, h)
<1>0. run \in Setups /\ S \subseteq Names(script) /\ h \in S
  BY DEF TypeOK, Calls
<1>a. \A s \in Sendings(S) : \E g \in S : s \in script.handlers[g].sends
  BY DEF Sendings
<1>b. \A s, r \in Sendings(S) : s.t = r.t => s = r
  BY <1>0, <1>a, OneSender
<1>c. \A s \in Sendings(S) : Group(p, s.to) \subseteq Party
  <2> SUFFICES ASSUME NEW s \in Sendings(S) PROVE Group(p, s.to) \subseteq Party
    OBVIOUS
  <2>1. s.to \in Groups
    BY <1>0, <1>a, HandlerRules
  <2> QED
    BY <2>1, <1>0, GroupMembers, Rules DEF Group
<1> DEFINE off == Swallows(p, ran[p] \cup S)
           v(s) == [q \in Party |-> IF off /\ s.kind \notin {"echo", "ack"} THEN "off" ELSE "ok"]
<1>1. ASSUME NEW m \in Good(p, S)
      PROVE  \E s \in Sendings(S) : \E q \in Group(p, s.to) :
               m = [t |-> s.t, from |-> p, to |-> q,
                    val |-> IF off /\ s.kind \notin {"echo", "ack"} THEN "off" ELSE "ok"]
  <2>1. PICK s \in Sendings(S) : m \in Mail(p, s, v(s))
    BY Zenon DEF Good
  <2>2. PICK q \in Group(p, s.to) : m = [t |-> s.t, from |-> p, to |-> q, val |-> v(s)[q]]
    BY <2>1, Zenon DEF Mail
  <2>3. v(s)[q] = IF off /\ s.kind \notin {"echo", "ack"} THEN "off" ELSE "ok"
    BY <1>c
  <2> QED
    BY <2>2, <2>3, Zenon
<1>2. ASSUME NEW m \in Good(p, S), NEW n \in Good(p, S), m.t = n.t, m.to = n.to
      PROVE  m = n
  <2>1. PICK s \in Sendings(S) : \E q \in Group(p, s.to) :
          m = [t |-> s.t, from |-> p, to |-> q,
               val |-> IF off /\ s.kind \notin {"echo", "ack"} THEN "off" ELSE "ok"]
    BY <1>1, Zenon
  <2>2. PICK r \in Sendings(S) : \E q \in Group(p, r.to) :
          n = [t |-> r.t, from |-> p, to |-> q,
               val |-> IF off /\ r.kind \notin {"echo", "ack"} THEN "off" ELSE "ok"]
    BY <1>1, Zenon
  <2>3. m.t = s.t /\ n.t = r.t
    BY <2>1, <2>2
  <2>4. s = r
    BY <2>3, <1>2, <1>b, Zenon
  <2> QED
    BY <2>1, <2>2, <2>4, <1>2
<1>3. ASSUME NEW m \in Good(p, S)
      PROVE  /\ m.from = p
             /\ \E g \in S : \E s \in script.handlers[g].sends :
                  m.t = s.t /\ m.to \in Group(p, s.to)
             /\ m.val \in {"ok", "off"}
             /\ m.val = "off" => off
  <2>1. PICK s \in Sendings(S) : \E q \in Group(p, s.to) :
          m = [t |-> s.t, from |-> p, to |-> q,
               val |-> IF off /\ s.kind \notin {"echo", "ack"} THEN "off" ELSE "ok"]
    BY <1>1, Zenon
  <2>2. m.from = p /\ m.t = s.t /\ m.to \in Group(p, s.to)
    BY <2>1
  <2>3. m.val \in {"ok", "off"} /\ (m.val = "off" => off)
    BY <2>1
  <2> QED
    BY <2>2, <2>3, <1>a
<1>4. CASE Handle(p, h) \/ Fail(p, h)
  <2>1. Honest(p) /\ net \subseteq net' /\ \A m \in net' \ net : m \in Good(p, S)
    BY <1>4 DEF Handle, Fail
  <2>2. Fail(p, h) => \A m \in net' \ net : \E g \in S : m.t \in script.handlers[g].eager
    BY DEF Fail
  <2> QED
    BY <2>1, <2>2, <1>2, <1>3, Zenon
<1>5. CASE Deviate(p, h)
  <2>0. ~Honest(p) /\ ~Fail(p, h)
    BY <1>5 DEF Deviate, Fail
  <2>1. PICK choice \in [Sendings(S) -> UNION {Choices(p, s) : s \in Sendings(S)}] :
          /\ \A s \in Sendings(S) : choice[s] \in Choices(p, s)
          /\ net' = net \cup UNION {Mail(p, s, choice[s]) : s \in Sendings(S)}
    BY <1>5 DEF Deviate
  <2>2. ASSUME NEW m \in net' \ net
        PROVE  \E s \in Sendings(S) : \E q \in Group(p, s.to) :
                 m = [t |-> s.t, from |-> p, to |-> q, val |-> choice[s][q]]
    BY <2>1 DEF Mail
  <2>3. ASSUME NEW s \in Sendings(S), NEW q \in Group(p, s.to)
        PROVE  choice[s][q] \in {"ok", "alt", "bad"}
    <3>1. choice[s] \in Choices(p, s)
      BY <2>1
    <3>2. choice[s][q] \in Contents(s.kind)
      BY <3>1 DEF Choices
    <3> QED
      BY <3>2 DEF Contents
  <2>4. ASSUME NEW m \in net' \ net
        PROVE  /\ m.from = p
               /\ \E g \in S : \E s \in script.handlers[g].sends :
                    m.t = s.t /\ m.to \in Group(p, s.to)
               /\ m.val \in {"ok", "alt", "bad"}
    <3>1. PICK s \in Sendings(S) : \E q \in Group(p, s.to) :
            m = [t |-> s.t, from |-> p, to |-> q, val |-> choice[s][q]]
      BY <2>2
    <3>2. m.from = p /\ m.t = s.t /\ m.to \in Group(p, s.to)
      BY <3>1
    <3>3. m.val \in {"ok", "alt", "bad"}
      BY <3>1, <2>3
    <3> QED
      BY <3>2, <3>3, <1>a
  <2>5. ASSUME NEW m \in net' \ net, NEW n \in net' \ net, m.t = n.t, m.to = n.to
        PROVE  m = n
    <3>1. PICK s \in Sendings(S) : \E q \in Group(p, s.to) :
            m = [t |-> s.t, from |-> p, to |-> q, val |-> choice[s][q]]
      BY <2>2
    <3>2. PICK r \in Sendings(S) : \E q \in Group(p, r.to) :
            n = [t |-> r.t, from |-> p, to |-> q, val |-> choice[r][q]]
      BY <2>2
    <3>3. s = r
      BY <3>1, <3>2, <2>5, <1>b
    <3> QED
      BY <3>1, <3>2, <3>3, <2>5
  <2>6. net \subseteq net'
    BY <2>1
  <2> QED
    BY <2>0, <2>4, <2>5, <2>6
<1> QED
  BY <1>4, <1>5, Zenon

\* One new message: its sender, its send statement, and its type at an eager handler.
LEMMA SentFrom ==
  ASSUME TypeOK, NEW p \in Party, NEW h \in Names(script),
         Handle(p, h) \/ Fail(p, h) \/ Deviate(p, h), NEW m \in net' \ net
  PROVE  /\ m.from = p
         /\ m.val \in {"ok", "alt", "bad", "off"}
         /\ \E g \in Calls(p, h) : \E s \in script.handlers[g].sends :
              m.t = s.t /\ m.to \in Group(p, s.to)
         /\ Fail(p, h) => \E g \in Calls(p, h) : m.t \in script.handlers[g].eager
BY Sent, Zenon

\* The send statement of a new message.
LEMMA SentBy ==
  ASSUME TypeOK, NEW p \in Party, NEW h \in Names(script),
         Handle(p, h) \/ Fail(p, h) \/ Deviate(p, h), NEW m \in net' \ net
  PROVE  \E g \in Calls(p, h) : \E s \in script.handlers[g].sends : m.t = s.t
BY SentFrom

\* A handler that fails has sent nothing but what is eager.
LEMMA SentEarly ==
  ASSUME TypeOK, NEW p \in Party, NEW h \in Names(script), Fail(p, h), NEW m \in net' \ net
  PROVE  \E g \in Calls(p, h) : m.t \in script.handlers[g].eager
BY SentFrom

\* What is computed from wrong content is sent by an honest party that has taken
\* in something wrong.
LEMMA SentOff ==
  ASSUME TypeOK, NEW p \in Party, NEW h \in Names(script),
         Handle(p, h) \/ Fail(p, h) \/ Deviate(p, h), NEW m \in net' \ net, m.val = "off"
  PROVE  Honest(p) /\ Swallows(p, ran[p] \cup Calls(p, h))
BY Sent, Zenon

\* A collector that is complete stays complete.
LEMMA CompleteGrows ==
  ASSUME run' = run, net \subseteq net', NEW p, NEW h, Complete(p, script.handlers[h])
  PROVE  Complete(p, script.handlers[h])'
<1>1. script' = script
  BY DEF script
<1>2. \A g : Group(p, g)' = Group(p, g)
  BY DEF Group
<1>3. \A T : Inbox(p, T) \subseteq Inbox(p, T)'
  BY DEF Inbox
<1> QED
  BY <1>1, <1>2, <1>3 DEF Complete

\* What a step of p changes.
LEMMA StepFacts ==
  ASSUME TypeOK, NEW p \in Party, NEW h \in Names(script),
         Handle(p, h) \/ Fail(p, h) \/ Deviate(p, h)
  PROVE  /\ run' = run /\ cancelled' = cancelled /\ script' = script
         /\ Ready(p, h)
         /\ \A q \in Party \ {p} : ran'[q] = ran[q] /\ failed'[q] = failed[q]
         /\ \/ ran'[p] = ran[p] \cup Calls(p, h) /\ failed' = failed /\ ~Fail(p, h)
            \/ ran' = ran /\ failed'[p] = failed[p] \cup {h} /\ Honest(p) /\ Fail(p, h)
<1>1. ran \in [Party -> SUBSET Names(script)] /\ failed \in [Party -> SUBSET Names(script)]
  BY DEF TypeOK
<1>2. CASE Handle(p, h) \/ Deviate(p, h)
  <2>1. Ready(p, h) /\ ran' = [ran EXCEPT ![p] = @ \cup Calls(p, h)]
        /\ run' = run /\ failed' = failed /\ cancelled' = cancelled
    BY <1>2 DEF Handle, Deviate
  <2>2. CASE ~Fail(p, h)
    BY <2>1, <2>2, <1>1 DEF script
  <2>3. CASE Fail(p, h)
    <3>1. failed' = [failed EXCEPT ![p] = @ \cup {h}]
      BY <2>3 DEF Fail
    <3>2. h \in failed[p]
      BY <3>1, <2>1, <1>1, Zenon
    <3> QED
      BY <3>2, <2>1 DEF Ready
  <2> QED
    BY <2>2, <2>3
<1>3. CASE Fail(p, h)
  BY <1>3, <1>1, Zenon DEF Fail, script
<1> QED
  BY <1>2, <1>3

\* Types are kept by a step of a handler.
LEMMA TypeStep ==
  ASSUME TypeOK, History, NEW p \in Party, NEW h \in Names(script),
         Handle(p, h) \/ Fail(p, h) \/ Deviate(p, h)
  PROVE  TypeOK'
<1>0. /\ run' = run /\ cancelled' = cancelled /\ script' = script /\ Ready(p, h)
      /\ \A q \in Party \ {p} : ran'[q] = ran[q] /\ failed'[q] = failed[q]
      /\ \/ ran'[p] = ran[p] \cup Calls(p, h) /\ failed' = failed
         \/ ran' = ran /\ failed'[p] = failed[p] \cup {h}
  BY StepFacts
<1>1. run \in Setups /\ Members' = Members
  BY <1>0 DEF TypeOK, Members
<1>2. p \in Members
  <2>1. script.handlers[h].role \in Groups
    BY <1>1, HandlerRules
  <2> QED
    BY <2>1, <1>0, GroupMembers DEF Ready, Group, Members
<1>3. \A m \in net' : /\ m.from \in Members /\ m.to \in Members
                      /\ m.val \in {"ok", "alt", "bad", "off"}
  <2> SUFFICES ASSUME NEW m \in net' \ net
               PROVE  /\ m.from \in Members /\ m.to \in Members
                      /\ m.val \in {"ok", "alt", "bad", "off"}
    BY DEF TypeOK
  <2>1. PICK g \in Calls(p, h) : \E s \in script.handlers[g].sends :
          m.to \in Group(p, s.to)
    BY SentFrom
  <2>2. g \in Names(script)
    BY DEF Calls
  <2>3. m.to \in Members
    BY <2>1, <2>2, <1>1, HandlerRules, GroupMembers DEF Group, Members
  <2> QED
    BY <2>3, <1>2, SentFrom
<1>4. Calls(p, h) \subseteq Names(script)
  BY DEF Calls
<1>5. ran' \in [Party -> SUBSET Names(script)] /\ failed' \in [Party -> SUBSET Names(script)]
  <2>1. DOMAIN ran' = Party /\ ran' = [q \in Party |-> ran'[q]]
    BY DEF TypeOK, Handle, Fail, Deviate
  <2>2. DOMAIN failed' = Party /\ failed' = [q \in Party |-> failed'[q]]
    BY DEF TypeOK, Handle, Fail, Deviate
  <2>3. \A q \in Party : ran'[q] \subseteq Names(script) /\ failed'[q] \subseteq Names(script)
    BY <1>0, <1>4, Zenon DEF TypeOK
  <2> QED
    BY <2>1, <2>2, <2>3
<1> QED
  BY <1>0, <1>1, <1>3, <1>5 DEF TypeOK

\* So is what is known about the handlers that have run.
LEMMA HistoryStep ==
  ASSUME TypeOK, History, NEW p \in Party, NEW h \in Names(script),
         Handle(p, h) \/ Fail(p, h) \/ Deviate(p, h)
  PROVE  History'
<1>1. /\ run' = run /\ script' = script /\ net \subseteq net' /\ Ready(p, h)
      /\ \A q \in Party \ {p} : ran'[q] = ran[q] /\ failed'[q] = failed[q]
      /\ \/ ran'[p] = ran[p] \cup Calls(p, h) /\ failed' = failed
         \/ ran' = ran /\ failed'[p] = failed[p] \cup {h} /\ Honest(p)
  BY StepFacts, Sent, ZenonT(60)
<1>2. \A q, g : Group(q, g)' = Group(q, g)
  BY <1>1 DEF Group
<1>3. \A q \in Party : Honest(q)' = Honest(q)
  BY <1>1 DEF Honest
<1>4. ASSUME NEW q \in Party, NEW g \in ran[q] \cup failed[q]
      PROVE  /\ q \in Group(q, script.handlers[g].role)'
             /\ Complete(q, script.handlers[g])'
  BY <1>1, <1>2, CompleteGrows DEF History
<1>5. ASSUME NEW g \in Calls(p, h)
      PROVE  /\ p \in Group(p, script.handlers[g].role)'
             /\ Complete(p, script.handlers[g])'
  BY <1>1, <1>2, CallFacts, CompleteGrows, Zenon
<1>6. Closed(script, ran[p] \cup Calls(p, h)) /\ h \in Calls(p, h)
  BY <1>1, CallFacts
<1>7. Calls(p, h) \cap failed[p] = {}
  BY <1>1, CallFacts, Zenon DEF Begun
<1>8. h \notin ran[p] /\ script.handlers[h].after \subseteq ran[p] /\ ~script.handlers[h].inline
  BY <1>1, CallFacts, Zenon
<1> SUFFICES ASSUME NEW q \in Party
             PROVE  /\ Closed(script, ran'[q])
                    /\ ran'[q] \cap failed'[q] = {}
                    /\ \A f \in failed'[q] : /\ script.handlers[f].after \subseteq ran'[q]
                                             /\ ~script.handlers[f].inline
                    /\ \A f \in ran'[q] \cup failed'[q] :
                         /\ q \in Group(q, script.handlers[f].role)'
                         /\ Complete(q, script.handlers[f])'
                    /\ ~Honest(q) => failed'[q] = {}
  BY <1>1, <1>3 DEF History
<1>9. CASE q # p
  BY <1>9, <1>1, <1>4 DEF History
<1>10. CASE q = p /\ ran'[p] = ran[p] \cup Calls(p, h) /\ failed' = failed
  BY <1>10, <1>4, <1>5, <1>6, <1>7 DEF History
<1>11. CASE q = p /\ ran' = ran /\ failed'[p] = failed[p] \cup {h} /\ Honest(p)
  BY <1>11, <1>4, <1>5, <1>6, <1>8 DEF History
<1> QED
  BY <1>1, <1>9, <1>10, <1>11

\* What has begun stays begun, and the handlers of a step have begun.
LEMMA BegunStep ==
  ASSUME TypeOK, History, NEW p \in Party, NEW h \in Names(script),
         Handle(p, h) \/ Fail(p, h) \/ Deviate(p, h)
  PROVE  /\ \A q \in Party : Begun(q) \subseteq Begun(q)'
         /\ Calls(p, h) \subseteq Begun(p)'
         /\ ~Fail(p, h) => Calls(p, h) \subseteq ran'[p]
<1>1. /\ script' = script /\ Ready(p, h)
      /\ \A q \in Party \ {p} : ran'[q] = ran[q] /\ failed'[q] = failed[q]
      /\ \/ ran'[p] = ran[p] \cup Calls(p, h) /\ failed' = failed /\ ~Fail(p, h)
         \/ ran' = ran /\ failed'[p] = failed[p] \cup {h} /\ Fail(p, h)
  BY StepFacts
<1>2. \A q \in Party : ran[q] \subseteq ran'[q] /\ failed[q] \subseteq failed'[q]
  BY <1>1
<1>3. \A q \in Party : Begun(q) \subseteq Begun(q)'
  BY <1>1, <1>2 DEF Begun
<1>4. ~Fail(p, h) => Calls(p, h) \subseteq ran'[p]
  BY <1>1
<1>5. ASSUME Fail(p, h), NEW g \in Calls(p, h) PROVE g \in Begun(p)'
  <2>1. ran' = ran /\ h \in failed'[p]
    BY <1>1, <1>5
  <2>2. CASE g = h
    BY <2>1, <2>2 DEF Begun
  <2>3. CASE g # h
    <3>1. /\ g \in Names(script) /\ script.handlers[g].inline /\ h \in script.handlers[g].after
          /\ script.handlers[g].after \subseteq ran[p] \cup {h}
      BY <2>3, <1>1, CallFacts, Zenon
    <3> QED
      BY <3>1, <2>1, <1>1 DEF Begun
  <2> QED
    BY <2>2, <2>3
<1> QED
  BY <1>3, <1>4, <1>5 DEF Begun

\* Every message still has a sender that has begun its handler.
LEMMA OriginStep ==
  ASSUME TypeOK, History, Origin, NEW p \in Party, NEW h \in Names(script),
         Handle(p, h) \/ Fail(p, h) \/ Deviate(p, h)
  PROVE  Origin'
<1>1. run \in Setups /\ run' = run /\ script' = script /\ Ready(p, h)
  BY StepFacts DEF TypeOK
<1>2. \A q, g : Group(q, g)' = Group(q, g)
  BY <1>1 DEF Group
<1>3. \A q \in Party : ran[q] \subseteq ran'[q] /\ Begun(q) \subseteq Begun(q)'
  BY StepFacts, BegunStep
<1> SUFFICES ASSUME NEW m \in net'
             PROVE  \E g \in Names(script) : \E s \in script.handlers[g].sends :
                      /\ m.t = s.t
                      /\ m.to \in Group(m.from, s.to)
                      /\ m.from \in Party
                      /\ m.from \in Group(m.from, script.handlers[g].role)
                      /\ g \in Begun(m.from)'
                      /\ g \in ran'[m.from] \/ m.t \in script.handlers[g].eager
  BY <1>1, <1>2 DEF Origin
<1>4. CASE m \in net
  BY <1>4, <1>3 DEF Origin
<1>5. CASE m \notin net
  <2>1. m.from = p
    BY <1>5, Sent, Zenon
  <2>2. PICK g \in Calls(p, h) : \E s \in script.handlers[g].sends :
          m.t = s.t /\ m.to \in Group(p, s.to)
    BY <1>5, Sent, Zenon
  <2>3. /\ g \in Names(script) /\ g \in Begun(p)'
        /\ p \in Group(p, script.handlers[g].role)
    BY <1>1, CallFacts, BegunStep, Zenon
  <2>4. CASE ~Fail(p, h)
    BY <2>1, <2>2, <2>3, <2>4, BegunStep
  <2>5. CASE Fail(p, h)
    <3>1. PICK f \in Calls(p, h) : m.t \in script.handlers[f].eager
      BY <2>5, <1>5, Sent, Zenon
    <3>2. f \in Names(script)
      BY <1>1, CallFacts, Zenon
    <3>3. \E s \in script.handlers[f].sends : s.t = m.t
      BY <3>1, <3>2, <1>1, HandlerRules DEF Sends
    <3>4. f = g
      BY <3>2, <3>3, <2>2, <2>3, <1>1, OneSender
    <3> QED
      BY <2>1, <2>2, <2>3, <3>1, <3>4
  <2> QED
    BY <2>4, <2>5
<1> QED
  BY <1>4, <1>5

\* A sender still has one message per type and receiver.
LEMMA UniqueStep ==
  ASSUME TypeOK, History, Origin, Unique, NEW p \in Party, NEW h \in Names(script),
         Handle(p, h) \/ Fail(p, h) \/ Deviate(p, h)
  PROVE  Unique'
<1>1. run \in Setups /\ Ready(p, h) /\ net \subseteq net'
  BY StepFacts, Sent, Zenon DEF TypeOK
<1>2. ASSUME NEW m \in net, NEW n \in net' \ net, m.t = n.t, m.from = n.from
      PROVE  FALSE
  <2>1. n.from = p /\ \E g \in Calls(p, h) : \E s \in script.handlers[g].sends : n.t = s.t
    BY SentFrom
  <2>a. PICK g \in Calls(p, h) : \E s \in script.handlers[g].sends : n.t = s.t
    BY <2>1
  <2>c. PICK b \in script.handlers[g].sends : n.t = b.t
    BY <2>a
  <2>2. PICK f \in Names(script) : /\ \E s \in script.handlers[f].sends : m.t = s.t
                                   /\ f \in Begun(m.from)
    BY DEF Origin
  <2>b. PICK a \in script.handlers[f].sends : m.t = a.t
    BY <2>2
  <2>3. g \in Names(script) /\ g \notin Begun(p)
    BY <1>1, CallFacts, Zenon
  <2>4. f = g
    <3>1. a.t = b.t
      BY <2>b, <2>c, <1>2
    <3> QED
      BY <3>1, <2>3, <1>1, OneSender
  <2> QED
    BY <2>1, <2>2, <2>3, <2>4, <1>2
<1> SUFFICES ASSUME NEW m \in net', NEW n \in net', m.t = n.t, m.from = n.from, m.to = n.to
             PROVE  m = n
  BY DEF Unique
<1>3. CASE m \in net /\ n \in net
  BY <1>3 DEF Unique
<1>4. CASE m \notin net /\ n \notin net
  BY <1>4, Sent, Zenon
<1> QED
  BY <1>2, <1>3, <1>4, Zenon

\* Something wrong that an honest party has computed with came from a faulty one.
LEMMA WrongSource ==
  ASSUME Values, NEW m \in net, m.val \in {"bad", "off"}
  PROVE  \E n \in net : n.from \in run.faulty /\ n.val = "bad"
<1>1. CASE m.val = "off"
  BY <1>1 DEF Values
<1>2. CASE m.val = "bad"
  BY <1>2 DEF Values, Honest
<1> QED
  BY <1>1, <1>2

\* Wrong content still comes from a faulty party, or follows from it.
LEMMA ValuesStep ==
  ASSUME TypeOK, Values, NEW p \in Party, NEW h \in Names(script),
         Handle(p, h) \/ Fail(p, h) \/ Deviate(p, h)
  PROVE  Values'
<1>1. run' = run /\ net \subseteq net'
  BY StepFacts, Sent, Zenon
<1>2. ASSUME NEW m \in net' \ net
      PROVE  /\ Honest(m.from) => m.val \in {"ok", "off"}
             /\ m.val = "off" => \E n \in net : n.from \in run.faulty /\ n.val = "bad"
  <2>1. m.from = p /\ (Honest(p) => m.val \in {"ok", "off"})
    BY Sent, Zenon
  <2>2. ASSUME m.val = "off" PROVE \E n \in net : n.from \in run.faulty /\ n.val = "bad"
    <3>1. Swallows(p, ran[p] \cup Calls(p, h))
      BY <2>2, Sent, Zenon
    <3>2. PICK n \in net : n.val \in {"bad", "off"}
      BY <3>1 DEF Swallows, Wrong, Inbox
    <3> QED
      BY <3>2, WrongSource
  <2> QED
    BY <2>1, <2>2
<1> QED
  BY <1>1, <1>2 DEF Values, Honest

---------------------------------------------------------------------------
\* The engine keeps its invariant.
LEMMA EngineInit == Init => Engine
<1> SUFFICES ASSUME Init PROVE Engine
  OBVIOUS
<1> USE DEF Init
<1>1. TypeOK
  BY DEF TypeOK
<1>2. History
  BY DEF History, Closed
<1> QED
  BY <1>1, <1>2 DEF Engine, Origin, Unique, Values

\* Every step keeps the facts about the engine together.
LEMMA EngineStep == Engine /\ [Next]_vars => Engine'
<1> SUFFICES ASSUME Engine, [Next]_vars PROVE Engine'
  OBVIOUS
<1>1. TypeOK /\ History /\ Origin /\ Unique /\ Values
  BY DEF Engine
<1>2. ASSUME NEW p \in Party, NEW h \in Names(script),
             Handle(p, h) \/ Fail(p, h) \/ Deviate(p, h)
      PROVE  Engine'
  BY <1>1, <1>2, TypeStep, HistoryStep, OriginStep, UniqueStep, ValuesStep DEF Engine
<1>3. ASSUME run' = run, net' = net, ran' = ran, failed' = failed,
             cancelled' \subseteq cancelled \cup MayCancel
      PROVE  Engine'
  <2>1. script' = script /\ Members' = Members
    BY <1>3 DEF script, Members
  <2>2. \A p, g : Group(p, g)' = Group(p, g)
    BY <1>3 DEF Group
  <2>3. \A p \in Party : Begun(p)' = Begun(p)
    BY <1>3, <2>1 DEF Begun
  <2>4. TypeOK'
    BY <1>1, <1>3, <2>1 DEF TypeOK
  <2>5. History'
    <3>1. \A p \in Party : \A h \in ran[p] \cup failed[p] : Complete(p, script.handlers[h])'
      BY <1>1, <1>3, CompleteGrows DEF History
    <3> QED
      BY <1>1, <1>3, <2>1, <2>2, <3>1 DEF History, Honest
  <2>6. Origin' /\ Unique' /\ Values'
    BY <1>1, <1>3, <2>1, <2>2, <2>3 DEF Origin, Unique, Values, Honest
  <2> QED
    BY <2>4, <2>5, <2>6 DEF Engine
<1>4. ASSUME NEW p \in Party, Cancel(p) PROVE Engine'
  BY <1>3, <1>4 DEF Cancel
<1>5. CASE UNCHANGED vars
  BY <1>3, <1>5 DEF vars
<1> QED
  BY <1>2, <1>4, <1>5 DEF Next, Step

\* The invariant holds in every state of every run.
THEOREM EngineInvariant == Spec => []Engine
BY EngineInit, EngineStep, PTL DEF Spec

\* Every variable keeps its type: messages go from members to members.
THEOREM TypeCorrect == Spec => []TypeOK
<1>1. Engine => TypeOK
  BY DEF Engine
<1> QED
  BY <1>1, EngineInvariant, PTL

---------------------------------------------------------------------------
\* A party has run whatever comes before what it has run.
LEMMA BeforeRan ==
  ASSUME TypeOK, History, NEW p \in Party, NEW h \in ran[p]
  PROVE  Before(script, h) \subseteq ran[p]
<1>1. ran[p] \in SUBSET Names(script) /\ Closed(script, ran[p])
  BY DEF TypeOK, History
<1> QED
  BY <1>1 DEF Before

\* It has collected whatever is collected before what it has begun.
LEMMA BeforeBegun ==
  ASSUME TypeOK, History, NEW p \in Party, NEW h \in Begun(p), NEW g \in Before(script, h)
  PROVE  /\ g \in Names(script)
         /\ Complete(p, script.handlers[g])
<1>1. /\ run \in Setups /\ ran[p] \in SUBSET Names(script)
      /\ failed[p] \in SUBSET Names(script) /\ Closed(script, ran[p])
  BY DEF TypeOK, History
<1>2. \A f \in ran[p] \cup failed[p] : Complete(p, script.handlers[f])
  BY DEF History
<1>3. \A f \in failed[p] : script.handlers[f].after \subseteq ran[p]
  BY DEF History
<1>4. g \in Names(script)
  BY DEF Before
<1>5. CASE h \in ran[p]
  BY <1>5, <1>2, <1>4, BeforeRan
<1>6. CASE h \in failed[p]
  <2>1. Closed(script, ran[p] \cup {h}) /\ ran[p] \cup {h} \in SUBSET Names(script)
    BY <1>1, <1>3, <1>6 DEF Closed
  <2>2. g \in ran[p] \cup {h}
    BY <2>1 DEF Before
  <2> QED
    BY <2>2, <1>2, <1>4, <1>6
<1>7. CASE /\ h \in Names(script) /\ script.handlers[h].inline
           /\ \E f \in failed[p] \cap script.handlers[h].after :
                script.handlers[h].after \subseteq ran[p] \cup {f}
  <2>1. PICK f \in failed[p] : script.handlers[h].after \subseteq ran[p] \cup {f}
    BY <1>7
  <2>2. /\ Closed(script, ran[p] \cup {f, h})
        /\ ran[p] \cup {f, h} \in SUBSET Names(script)
    BY <1>1, <1>3, <1>7, <2>1 DEF Closed
  <2>3. g \in ran[p] \cup {f, h}
    BY <2>2 DEF Before
  <2>4. Complete(p, script.handlers[h])
    <3>1. script.handlers[h].on = {}
      BY <1>1, <1>7, HandlerRules
    <3> QED
      BY <3>1 DEF Complete
  <2> QED
    BY <2>3, <2>4, <1>2, <1>4
<1> QED
  BY <1>5, <1>6, <1>7 DEF Begun

\* What a commitment or an acknowledgement protects is sent by no honest party
\* before it holds those of everybody concerned, in any protocol whose revealing
\* handler comes after the collecting one.
THEOREM RevealIsProtected == Spec => []RevealAfterCommit
<1>1. ASSUME Engine PROVE RevealAfterCommit
  <2> SUFFICES ASSUME NEW p \in Members, NEW r \in script.reveals,
                      NEW m \in net, m.from = p, m.t = r[3]
               PROVE  Group(p, r[2]) \subseteq {n.from : n \in Inbox(p, {r[1]})}
    BY Zenon DEF RevealAfterCommit
  <2>1. TypeOK /\ History /\ Origin /\ run \in Setups /\ p \in Party
    BY <1>1, Rules DEF Engine, TypeOK
  <2>2. PICK h \in Names(script) : /\ \E s \in script.handlers[h].sends : m.t = s.t
                                   /\ h \in Begun(p)
    BY <2>1 DEF Origin
  <2>3. r[3] \in Sends(script.handlers[h])
    BY <2>2 DEF Sends
  <2>4. RevealRule(script)
    BY <2>1, Rules
  <2>5. PICK g \in Before(script, h) : <<r[1], r[2]>> \in script.handlers[g].on
    BY <2>2, <2>3, <2>4, Zenon DEF RevealRule
  <2>6. Complete(p, script.handlers[g])
    BY <2>1, <2>2, BeforeBegun
  <2> QED
    BY <2>5, <2>6 DEF Complete
<1> QED
  BY <1>1, EngineInvariant, PTL

\* A party of one role delivers a result or reports an error, never both.
THEOREM OutcomeIsUnique == Spec => []OneOutcome
<1>1. ASSUME Engine PROVE OneOutcome
  <2> SUFFICES ASSUME NEW p \in Members, run.old = run.new \/ ~Dual(p),
                      Done(p), NEW h \in failed[p]
               PROVE  FALSE
    BY DEF OneOutcome
  <2>1. /\ TypeOK /\ History /\ run \in Setups /\ p \in Party
        /\ h \in Names(script) /\ ran[p] \subseteq Names(script)
    BY <1>1, Rules DEF Engine, TypeOK
  <2>2. PICK d \in ran[p] : \/ "done" \in script.handlers[d].does
                            \/ "leave" \in script.handlers[d].does /\ p \notin run.new
    BY DEF Done, Deeds
  <2>3. /\ h \notin ran[p] /\ ~script.handlers[h].inline
        /\ p \in Group(p, script.handlers[h].role) /\ p \in Group(p, script.handlers[d].role)
    BY <2>1 DEF History
  <2>4. Last(p, d) /\ Plays(p, h)
    BY <2>2, <2>3 DEF Last, Plays
  <2>5. /\ Class(run, p) \in Cast(run)
        /\ LastOf(script, d, Class(run, p)) /\ RunBy(script, h, Class(run, p))
    BY <2>1, <2>2, <2>4, PlaysByClass
  <2>6. Cast(run) = {"dual"} \/ Class(run, p) # "dual"
    BY Zenon DEF Cast, Class, Dual, Members
  <2>7. OutcomeRule(script, Cast(run))
    BY <2>1, Rules DEF Keeps
  <2>8. h \in Before(script, d)
    BY <2>1, <2>2, <2>3, <2>5, <2>6, <2>7 DEF OutcomeRule
  <2> QED
    BY <2>1, <2>3, <2>8, BeforeRan
<1> QED
  BY <1>1, EngineInvariant, PTL

---------------------------------------------------------------------------
\* The step of a party, or one that leaves the parties' handlers alone.
LEMMA NextCases ==
  ASSUME [Next]_vars
  PROVE  \/ \E p \in Party, h \in Names(script) : Handle(p, h) \/ Fail(p, h) \/ Deviate(p, h)
         \/ /\ run' = run /\ net' = net /\ ran' = ran /\ failed' = failed
            /\ cancelled \subseteq cancelled'
BY DEF Next, Step, Cancel, vars

\* Two parties are given different things only when somebody faulty has sent
\* something wrong or two things.
LEMMA DifferSource ==
  ASSUME TypeOK, Values, NEW p, NEW q, NEW t, Differ(p, q, t)
  PROVE  \E m \in net : m.from \in run.faulty /\ m.val \in {"bad", "alt"}
<1>1. PICK m \in net, n \in net : m.from = n.from /\ m.val # n.val
  BY DEF Differ, Inbox
<1>2. \A k \in {m, n} : k.val \in {"ok", "alt", "bad", "off"}
  BY DEF TypeOK
<1>3. PICK k \in {m, n} : k.val \in {"alt", "bad", "off"}
  BY <1>1, <1>2
<1>4. CASE k.val \in {"bad", "off"}
  BY <1>4, WrongSource
<1>5. CASE k.val = "alt"
  BY <1>5 DEF Values, Honest
<1> QED
  BY <1>3, <1>4, <1>5

\* Why a handler of an honest party fails.
LEMMA FailCause ==
  ASSUME TypeOK, Values, NEW p \in Party, NEW h \in Names(script), Fail(p, h)
  PROVE  \/ p \in cancelled
         \/ ~run.luck
         \/ \E m \in net : m.from \in run.faulty /\ m.val \in {"bad", "alt"}
<1> DEFINE S == Calls(p, h)
           Cause == \E m \in net : m.from \in run.faulty /\ m.val \in {"bad", "alt"}
<1>0. S \subseteq Names(script) /\ run \in Setups
  BY DEF Calls, TypeOK
<1>1. ASSUME NEW R, Swallows(p, R) PROVE Cause
  <2>1. PICK m \in net : m.val \in {"bad", "off"}
    BY <1>1 DEF Swallows, Wrong, Inbox
  <2> QED
    BY <2>1, WrongSource
<1>2. Stopped(p, S) => p \in cancelled
  BY DEF Stopped
<1>3. ASSUME Refused(p, S) PROVE Cause
  <2>1. PICK g \in S :
          \/ \E m \in Inbox(p, script.handlers[g].verifies) : m.val = "bad"
          \/ \E b \in script.handlers[g].binds : \E m \in Inbox(p, {b[1]}) :
               Honest(m.from) /\ Differ(p, m.from, b[2])
          \/ script.handlers[g].gate /\ Swallows(p, ran[p] \cup S)
    BY <1>3, Zenon DEF Refused
  <2>2. CASE \E m \in Inbox(p, script.handlers[g].verifies) : m.val = "bad"
    <3>1. PICK m \in net : m.val = "bad"
      BY <2>2 DEF Inbox
    <3> QED
      BY <3>1, WrongSource
  <2>3. CASE \E b \in script.handlers[g].binds : \E m \in Inbox(p, {b[1]}) :
               Honest(m.from) /\ Differ(p, m.from, b[2])
    BY <2>3, DifferSource
  <2>4. CASE Swallows(p, ran[p] \cup S)
    BY <2>4, <1>1
  <2> QED
    BY <2>1, <2>2, <2>3, <2>4, Zenon
<1>4. ASSUME Internal(p, S) PROVE ~run.luck
  <2>1. NeedsRule(script, Cast(run))
    BY <1>0, Rules DEF Keeps
  <2>2. PICK g \in S : \/ Dual(p) /\ ~(script.handlers[g].needs \subseteq ran[p])
                       \/ script.handlers[g].chance /\ ~run.luck
    BY <1>4 DEF Internal
  <2>3. Dual(p) => "dual" \in Cast(run)
    BY DEF Dual, Cast, Class
  <2> QED
    BY <2>1, <2>2, <2>3, <1>0, ZenonT(60) DEF NeedsRule
<1>5. ASSUME Suspect(p, S) PROVE Cause
  <2>1. CASE Swallows(p, S)
    BY <2>1, <1>1
  <2>2. CASE \E g \in S : Wrong(Inbox(p, script.handlers[g].screens)) # {}
    <3>1. PICK m \in net : m.val \in {"bad", "off"}
      BY <2>2 DEF Wrong, Inbox
    <3> QED
      BY <3>1, WrongSource
  <2>3. CASE \E g \in S : \E b \in script.handlers[g].compares : \E m \in Inbox(p, {b[1]}) :
               Honest(m.from) /\ Differ(p, m.from, b[2])
    BY <2>3, DifferSource
  <2> QED
    BY <1>5, <2>1, <2>2, <2>3, Zenon DEF Suspect
<1>6. MustFail(p, S) \/ Suspect(p, S)
  BY DEF Fail
<1> QED
  BY <1>2, <1>3, <1>4, <1>5, <1>6 DEF MustFail

\* Whatever the interleaving and the order of delivery, an honest party reports
\* an error only for a cause: its own context, a faulty party, or bad luck.
THEOREM ErrorsHaveCauses == Spec => []ErrorHasCause
<1>1. Init => ErrorHasCause
  <2> SUFFICES ASSUME Init PROVE ErrorHasCause
    OBVIOUS
  <2>1. \A p \in Members : failed[p] = {}
    <3>1. Members \subseteq Party
      BY Rules DEF Init
    <3> QED
      BY <3>1 DEF Init
  <2> QED
    BY <2>1 DEF ErrorHasCause
<1>2. ErrorHasCause /\ Engine /\ [Next]_vars => ErrorHasCause'
  <2> SUFFICES ASSUME ErrorHasCause, Engine, [Next]_vars PROVE ErrorHasCause'
    OBVIOUS
  <2>0. TypeOK /\ Values /\ run \in Setups /\ Members \subseteq Party
    BY Rules DEF Engine, TypeOK
  <2>1. CASE run' = run /\ net' = net /\ failed' = failed /\ cancelled \subseteq cancelled'
    BY <2>1 DEF ErrorHasCause, Members, Honest
  <2>2. ASSUME NEW p \in Party, NEW h \in Names(script),
               Handle(p, h) \/ Fail(p, h) \/ Deviate(p, h)
        PROVE  ErrorHasCause'
    <3>1. /\ run' = run /\ cancelled' = cancelled /\ net \subseteq net'
          /\ \A q \in Party \ {p} : failed'[q] = failed[q]
          /\ failed' = failed \/ Fail(p, h)
      BY <2>0, <2>2, StepFacts, Sent, Zenon
    <3> SUFFICES ASSUME NEW q \in Members, Honest(q), failed'[q] # {}
                 PROVE  \/ q \in cancelled
                        \/ ~run.luck
                        \/ \E m \in net' : m.from \in run.faulty /\ m.val \in {"bad", "alt"}
      BY <3>1 DEF ErrorHasCause, Members, Honest
    <3>2. CASE failed'[q] = failed[q]
      BY <3>1, <3>2 DEF ErrorHasCause
    <3>3. CASE q = p /\ Fail(p, h)
      BY <3>1, <3>3, <2>0, FailCause
    <3> QED
      BY <3>1, <3>2, <3>3, <2>0, Zenon
  <2> QED
    BY <2>1, <2>2, NextCases
<1> QED
  BY <1>1, <1>2, EngineInvariant, PTL DEF Spec

---------------------------------------------------------------------------
\* A handler without checks fails, unless its context is done, only in the
\* handler it has called.
QuietInv ==
  \A p \in Party : p \notin cancelled => \A h \in failed[p] :
    \/ ~Quiet(script.handlers[h])
    \/ \E g \in Names(script) : /\ script.handlers[g].inline
                                /\ h \in script.handlers[g].after
                                /\ script.handlers[g].after \subseteq ran[p] \cup {h}

\* A handler without checks fails by itself only when it calls one that has some.
LEMMA QuietFail ==
  ASSUME TypeOK, History, NEW p \in Party, NEW h \in Names(script), Fail(p, h), p \notin cancelled
  PROVE  \/ ~Quiet(script.handlers[h])
         \/ \E g \in Names(script) : /\ script.handlers[g].inline
                                     /\ h \in script.handlers[g].after
                                     /\ script.handlers[g].after \subseteq ran[p] \cup {h}
<1> SUFFICES ASSUME Quiet(script.handlers[h]), Calls(p, h) = {h} PROVE FALSE
  <2>1. h \in Calls(p, h)
    BY DEF Calls
  <2>2. ASSUME NEW g \in Calls(p, h), g # h
        PROVE  /\ g \in Names(script) /\ script.handlers[g].inline
               /\ h \in script.handlers[g].after
               /\ script.handlers[g].after \subseteq ran[p] \cup {h}
    BY <2>2 DEF Calls
  <2>3. CASE Calls(p, h) = {h}
    BY <2>3
  <2>4. CASE Calls(p, h) # {h}
    BY <2>1, <2>2, <2>4
  <2> QED
    BY <2>3, <2>4
<1>1. ~Stopped(p, {h})
  BY DEF Stopped
<1>2. \A T : T = {} => Inbox(p, T) = {}
  BY DEF Inbox
<1>3. /\ script.handlers[h].screens = {} /\ script.handlers[h].verifies = {}
      /\ script.handlers[h].uses = {} /\ script.handlers[h].binds = {}
      /\ script.handlers[h].compares = {} /\ script.handlers[h].needs = {}
      /\ ~script.handlers[h].gate /\ ~script.handlers[h].chance
  BY Zenon DEF Quiet, Looks
<1>4. ~Refused(p, {h})
  BY <1>2, <1>3, Zenon DEF Refused
<1>5. ~Internal(p, {h})
  BY <1>3 DEF Internal
<1>6. ~Suspect(p, {h})
  BY <1>2, <1>3 DEF Suspect, Swallows, Wrong
<1> QED
  BY <1>1, <1>4, <1>5, <1>6 DEF Fail, MustFail

\* Where Err and Done have no once-guard, nothing is written to them twice unless
\* the context was cancelled: handlers that come in any order make no checks.
THEOREM SendsDoNotBlock == Spec => []NoBlockedSend
<1>1. Init => QuietInv
  BY DEF Init, QuietInv
<1>2. QuietInv /\ Engine /\ [Next]_vars => QuietInv'
  <2> SUFFICES ASSUME QuietInv, Engine, [Next]_vars PROVE QuietInv'
    OBVIOUS
  <2>0. TypeOK /\ History
    BY DEF Engine
  <2>1. CASE run' = run /\ ran' = ran /\ failed' = failed /\ cancelled \subseteq cancelled'
    BY <2>1, Zenon DEF QuietInv, script
  <2>2. ASSUME NEW p \in Party, NEW h \in Names(script),
               Handle(p, h) \/ Fail(p, h) \/ Deviate(p, h)
        PROVE  QuietInv'
    <3>1. /\ script' = script /\ cancelled' = cancelled
          /\ \A q \in Party \ {p} : ran'[q] = ran[q] /\ failed'[q] = failed[q]
          /\ \/ ran'[p] = ran[p] \cup Calls(p, h) /\ failed' = failed
             \/ ran' = ran /\ failed'[p] = failed[p] \cup {h} /\ Fail(p, h)
      BY <2>0, <2>2, StepFacts
    <3>2. \A q \in Party : ran[q] \subseteq ran'[q]
      BY <3>1, Zenon
    <3> SUFFICES ASSUME NEW q \in Party, q \notin cancelled, NEW f \in failed'[q]
                 PROVE  \/ ~Quiet(script.handlers[f])
                        \/ \E g \in Names(script) :
                             /\ script.handlers[g].inline
                             /\ f \in script.handlers[g].after
                             /\ script.handlers[g].after \subseteq ran'[q] \cup {f}
      BY <3>1 DEF QuietInv
    <3>3. CASE f \in failed[q]
      BY <3>2, <3>3 DEF QuietInv
    <3>4. CASE q = p /\ f = h /\ Fail(p, h)
      BY <3>2, <3>4, <2>0, QuietFail
    <3> QED
      BY <3>1, <3>3, <3>4
  <2> QED
    BY <2>1, <2>2, NextCases
<1>3. ASSUME QuietInv, Engine PROVE NoBlockedSend
  <2> SUFFICES ASSUME script.raw, NEW p \in Members, p \notin cancelled
               PROVE  /\ \A g, h \in failed[p] : g = h
                      /\ \A g, h \in Deeds(p, "done") : g = h
    BY DEF NoBlockedSend
  <2>1. /\ TypeOK /\ History /\ run \in Setups /\ p \in Party
        /\ failed[p] \subseteq Names(script) /\ ran[p] \subseteq Names(script)
    BY <1>3, Rules, Zenon DEF Engine, TypeOK
  <2>2. RawRule(script, Cast(run))
    BY <2>1, Rules DEF Keeps
  <2>3. /\ Class(run, p) \in Cast(run)
        /\ \A h \in ran[p] \cup failed[p] : RunBy(script, h, Class(run, p))
    <3>1. \A h \in ran[p] \cup failed[p] : Plays(p, h)
      BY <2>1 DEF History, Plays
    <3>2. Class(run, p) \in Cast(run)
      BY DEF Cast, Members
    <3> QED
      BY <2>1, <3>1, <3>2, PlaysByClass
  <2>4. /\ ran[p] \cap failed[p] = {} /\ \A h \in failed[p] : ~script.handlers[h].inline
        /\ \A h \in failed[p] : script.handlers[h].after \subseteq ran[p]
        /\ Closed(script, ran[p])
    BY <2>1 DEF History
  <2>5. ASSUME NEW g \in failed[p], NEW h \in failed[p], g # h, g \in Before(script, h)
        PROVE  FALSE
    <3>1. Closed(script, ran[p] \cup {h}) /\ ran[p] \cup {h} \in SUBSET Names(script)
      BY <2>1, <2>4 DEF Closed
    <3>2. g \in ran[p] \cup {h}
      BY <3>1, <2>5 DEF Before
    <3> QED
      BY <3>2, <2>4, <2>5
  <2>6. ASSUME NEW g \in failed[p], NEW h \in failed[p] PROVE g = h
    <3> SUFFICES ASSUME g # h PROVE FALSE
      OBVIOUS
    <3>1. g \notin Before(script, h) /\ h \notin Before(script, g)
      BY <2>5
    <3>2. /\ RunBy(script, g, Class(run, p)) /\ RunBy(script, h, Class(run, p))
          /\ ~script.handlers[g].inline /\ ~script.handlers[h].inline
      BY <2>3, <2>4, Zenon
    <3>3. /\ Quiet(script.handlers[g])
          /\ \A i \in Names(script) :
               script.handlers[i].inline /\ g \in script.handlers[i].after =>
                 h \in script.handlers[i].after
      BY <2>1, <2>2, <2>3, <3>1, <3>2, Zenon DEF RawRule
    <3>4. PICK i \in Names(script) : /\ script.handlers[i].inline
                                     /\ g \in script.handlers[i].after
                                     /\ script.handlers[i].after \subseteq ran[p] \cup {g}
      BY <1>3, <2>1, <3>3, Zenon DEF QuietInv
    <3> QED
      BY <3>3, <3>4, <2>4
  <2>7. ASSUME NEW g \in Deeds(p, "done"), NEW h \in Deeds(p, "done") PROVE g = h
    <3>1. /\ g \in Names(script) /\ h \in Names(script)
          /\ RunBy(script, g, Class(run, p)) /\ RunBy(script, h, Class(run, p))
          /\ "done" \in script.handlers[g].does \cap script.handlers[h].does
      BY <2>1, <2>3 DEF Deeds
    <3> QED
      BY <2>1, <2>2, <2>3, <3>1 DEF RawRule
  <2> QED
    BY <2>6, <2>7
<1> QED
  BY <1>1, <1>2, <1>3, EngineInvariant, PTL DEF Spec

---------------------------------------------------------------------------
\* A join has been called when all it joins has run.
InlineRan(p) ==
  \A g \in Names(script) :
    script.handlers[g].inline /\ script.handlers[g].after \subseteq ran[p] => g \in ran[p]

\* Everybody whom a handler that has run sends something has been sent it.
AllSent(p) ==
  \A g \in ran[p] : \A s \in script.handlers[g].sends : \A q \in Group(p, s.to) :
    \E m \in net : m.t = s.t /\ m.from = p /\ m.to = q

ProgressInv == \A p \in Party : InlineRan(p) /\ AllSent(p)

\* A handler that runs to the end sends to everybody whom it has to.
LEMMA SentAll ==
  ASSUME TypeOK, NEW p \in Party, NEW h \in Names(script), Handle(p, h) \/ Deviate(p, h)
  PROVE  \A g \in Calls(p, h) : \A s \in script.handlers[g].sends : \A q \in Group(p, s.to) :
           \E m \in net' : m.t = s.t /\ m.from = p /\ m.to = q
<1> TAKE g \in Calls(p, h)
<1> TAKE s \in script.handlers[g].sends
<1> TAKE q \in Group(p, s.to)
<1> DEFINE S == Calls(p, h)
<1>1. s \in Sendings(S)
  BY DEF Sendings
<1>2. ASSUME NEW v, Mail(p, s, v) \subseteq net'
      PROVE  \E m \in net' : m.t = s.t /\ m.from = p /\ m.to = q
  <2>1. [t |-> s.t, from |-> p, to |-> q, val |-> v[q]] \in net'
    BY <1>2, Zenon DEF Mail
  <2> QED
    BY <2>1
<1>3. CASE Handle(p, h)
  <2> DEFINE v(r) == [x \in Party |-> IF Swallows(p, ran[p] \cup S) /\ r.kind \notin {"echo", "ack"}
                                     THEN "off" ELSE "ok"]
  <2>1. Mail(p, s, v(s)) \subseteq Good(p, S)
    BY <1>1, Zenon DEF Good
  <2>2. Good(p, S) \subseteq net'
    BY <1>3 DEF Handle
  <2> QED
    BY <2>1, <2>2, <1>2
<1>4. CASE Deviate(p, h)
  <2>1. PICK choice : net' = net \cup UNION {Mail(p, r, choice[r]) : r \in Sendings(S)}
    BY <1>4 DEF Deviate
  <2>2. Mail(p, s, choice[s]) \subseteq net'
    BY <2>1, <1>1
  <2> QED
    BY <2>2, <1>2
<1> QED
  BY <1>3, <1>4

\* Every step keeps ProgressInv.
LEMMA ProgressStep == ProgressInv /\ Engine /\ [Next]_vars => ProgressInv'
<1> SUFFICES ASSUME ProgressInv, Engine, [Next]_vars PROVE ProgressInv'
  OBVIOUS
<1>0. TypeOK /\ History /\ run \in Setups /\ ran \in [Party -> SUBSET Names(script)]
  BY Zenon DEF Engine, TypeOK
<1>1. CASE run' = run /\ net' = net /\ ran' = ran
  <2>1. script' = script /\ \A q \in Party : \A z : Group(q, z)' = Group(q, z)
    <3>1. script' = script
      BY <1>1, Zenon DEF script
    <3>2. \A q \in Party : \A z : Group(q, z)' = Group(q, z)
      BY <1>1, Zenon DEF Group
    <3> QED
      BY <3>1, <3>2, Zenon
  <2> QED
    BY <1>1, <2>1 DEF ProgressInv, InlineRan, AllSent
<1>2. ASSUME NEW p \in Party, NEW h \in Names(script),
             Handle(p, h) \/ Fail(p, h) \/ Deviate(p, h)
      PROVE  ProgressInv'
  <2>1. /\ run' = run /\ script' = script /\ Ready(p, h) /\ net \subseteq net'
        /\ \A q \in Party \ {p} : ran'[q] = ran[q]
        /\ \/ ran'[p] = ran[p] /\ Fail(p, h)
           \/ ran'[p] = ran[p] \cup Calls(p, h) /\ ~Fail(p, h)
    BY <1>0, <1>2, StepFacts, Sent, Zenon
  <2>2. Calls(p, h) \subseteq Names(script)
    BY <1>0, <2>1, CallFacts, Zenon
  <2>3. ASSUME NEW q \in Party, NEW g \in Names(script), script.handlers[g].inline,
               script.handlers[g].after \subseteq ran'[q]
        PROVE  g \in ran'[q]
    <3>1. CASE ran'[q] = ran[q]
      BY <2>3, <3>1 DEF ProgressInv, InlineRan
    <3>2. CASE q = p /\ ran'[p] = ran[p] \cup Calls(p, h)
      <4>1. \A f \in Calls(p, h) : f # h => script.handlers[f].inline
        BY <1>0, <2>1, CallFacts, Zenon
      <4>2. \A f \in script.handlers[g].after : ~script.handlers[f].inline
        BY <1>0, <2>3, HandlerRules
      <4>3. script.handlers[g].after \subseteq ran[p] \cup {h}
        BY <2>3, <3>2, <4>1, <4>2
      <4>4. CASE h \in script.handlers[g].after
        BY <2>3, <3>2, <4>3, <4>4 DEF Calls
      <4>5. CASE h \notin script.handlers[g].after
        <5>1. g \in ran[p]
          BY <2>3, <4>3, <4>5 DEF ProgressInv, InlineRan
        <5> QED
          BY <5>1, <3>2
      <4> QED
        BY <4>4, <4>5
    <3> QED
      BY <2>1, <3>1, <3>2
  <2>4. ASSUME NEW q \in Party, NEW g \in ran'[q], NEW s \in script.handlers[g].sends,
               NEW x \in Group(q, s.to)
        PROVE  \E m \in net' : m.t = s.t /\ m.from = q /\ m.to = x
    <3>1. CASE g \in ran[q]
      <4>1. AllSent(q)
        BY Zenon DEF ProgressInv
      <4>2. PICK m \in net : m.t = s.t /\ m.from = q /\ m.to = x
        BY <2>4, <3>1, <4>1, ZenonT(60) DEF AllSent
      <4> QED
        BY <2>1, <4>2, Zenon
    <3>2. CASE g \notin ran[q]
      <4>1. q = p /\ g \in Calls(p, h) /\ (Handle(p, h) \/ Deviate(p, h))
        BY <1>2, <2>1, <2>4, <3>2
      <4>2. /\ TypeOK /\ p \in Party /\ h \in Names(script)
            /\ s \in script.handlers[g].sends /\ x \in Group(p, s.to)
        BY <1>0, <2>4, <4>1, Zenon
      <4>3. \A f \in Calls(p, h) : \A u \in script.handlers[f].sends : \A y \in Group(p, u.to) :
              \E m \in net' : m.t = u.t /\ m.from = p /\ m.to = y
        BY <4>1, <4>2, SentAll, Zenon
      <4>4. \E m \in net' : m.t = s.t /\ m.from = p /\ m.to = x
        BY <4>1, <4>2, <4>3, Zenon
      <4> QED
        BY <4>1, <4>4, Zenon
    <3> QED
      BY <3>1, <3>2, Zenon
  <2>5. \A q \in Party : \A z : Group(q, z)' = Group(q, z)
    BY <2>1 DEF Group
  <2> QED
    <3>1. \A q \in Party : InlineRan(q)'
      BY <2>1, <2>3 DEF InlineRan
    <3>2. ASSUME NEW q \in Party PROVE AllSent(q)'
      <4> SUFFICES ASSUME NEW g \in ran'[q], NEW s \in script'.handlers[g].sends,
                          NEW x \in Group(q, s.to)'
                   PROVE  \E m \in net' : m.t = s.t /\ m.from = q /\ m.to = x
        BY Zenon DEF AllSent
      <4>1. s \in script.handlers[g].sends /\ x \in Group(q, s.to)
        BY <2>1, <2>5
      <4> QED
        BY <2>4, <4>1, Zenon
    <3> QED
      BY <3>1, <3>2, Zenon DEF ProgressInv
<1> QED
  BY <1>1, <1>2, NextCases, Zenon

\* Nobody waits for ever in a protocol whose handlers do not wait for one another
\* in a circle: of the handlers that some member has still to run, take one that
\* waits for none of the others; nothing is missing for it.
THEOREM NobodyWaitsForEver == Spec => []NeverStuck
<1>1. Init => ProgressInv
  <2> SUFFICES ASSUME Init PROVE ProgressInv
    OBVIOUS
  <2>1. run \in Setups /\ \A p \in Party : ran[p] = {}
    BY DEF Init
  <2>2. \A g \in Names(script) : script.handlers[g].inline => script.handlers[g].after # {}
    BY <2>1, HandlerRules
  <2> QED
    BY <2>1, <2>2 DEF ProgressInv, InlineRan, AllSent
<1>2. ASSUME Engine, ProgressInv, Peopled,
             \A p \in Members : failed[p] = {} /\ \A h \in Names(script) : ~Ready(p, h)
      PROVE  \A p \in Members : Done(p)
  <2>0. TypeOK /\ History /\ run \in Setups /\ Members \subseteq Party
    BY <1>2, Rules, Zenon DEF Engine, TypeOK
  <2>1. WaitRule(script, Cast(run))
    BY <2>0, Rules, Zenon DEF Keeps
  <2> DEFINE S == {h \in Names(script) : \E p \in Members : Plays(p, h) /\ h \notin ran[p]}
  <2>2. ASSUME S # {} PROVE FALSE
    <3>1. S \in SUBSET Names(script)
      OBVIOUS
    <3>2. PICK h \in S : Awaits(script, h) \cap S = {}
      BY <2>1, <2>2, <3>1, Zenon DEF WaitRule
    <3>3. PICK p \in Members : Plays(p, h) /\ h \notin ran[p]
      OBVIOUS
    <3>4. h \in Names(script) /\ p \in Party /\ failed[p] = {} /\ ~Ready(p, h)
      BY <1>2, <2>0
    <3> HIDE DEF S
    <3>5. Class(run, p) \in Cast(run) /\ RunBy(script, h, Class(run, p))
      BY <2>0, <3>3, <3>4, PlaysByClass
    <3>6. script.handlers[h].after \subseteq ran[p]
      <4> SUFFICES ASSUME NEW g \in script.handlers[h].after PROVE g \in ran[p]
        OBVIOUS
      <4>1. g \in Names(script)
        BY <2>0, <3>4, HandlerRules, Zenon
      <4>2. RunBy(script, g, Class(run, p))
        BY <2>1, <3>4, <3>5 DEF WaitRule
      <4>3. Plays(p, g)
        BY <2>0, <4>1, <4>2, PlaysByClass
      <4>4. g \notin S
        BY <3>2 DEF Awaits
      <4> QED
        BY <4>1, <4>3, <4>4 DEF S
    <3>7. ~script.handlers[h].inline
      BY <1>2, <3>3, <3>4, <3>6 DEF ProgressInv, InlineRan
    <3>8. ASSUME NEW c \in script.handlers[h].on, NEW q \in Group(p, c[2])
          PROVE  \E m \in Inbox(p, {c[1]}) : m.from = q
      <4>1. c[2] \in Groups
        BY <2>0, <3>4, HandlerRules
      <4>2. q \in Members
        BY <4>1, GroupMembers DEF Group, Members
      <4>3. InGroup(c[2], Class(run, q), q = p) /\ Class(run, q) \in Cast(run)
        BY <4>1, <4>2, GroupByClass DEF Cast, Members
      <4>4. PICK g \in Names(script) : RunBy(script, g, Class(run, q)) /\
              \E a \in script.handlers[g].sends : a.t = c[1] /\ InGroup(a.to, Class(run, p), q = p)
        <5>1. Fed(script, Cast(run), Class(run, p), c[1], c[2])
          BY <2>1, <3>4, <3>5 DEF WaitRule
        <5> QED
          BY <4>3, <5>1, Zenon DEF Fed
      <4>5. PICK a \in script.handlers[g].sends :
              a.t = c[1] /\ InGroup(a.to, Class(run, p), q = p)
        BY <4>4
      <4>6. p \in Group(q, a.to)
        <5>1. a.to \in Groups
          BY <2>0, HandlerRules, Zenon
        <5>2. p \in Group(q, a.to) <=> InGroup(a.to, Class(run, p), p = q)
          BY <4>2, <5>1, GroupByClass
        <5> QED
          BY <4>5, <5>2
      <4>7. g \notin S
        <5>1. c[1] \in Sends(script.handlers[g]) \cap Hears(script.handlers[h])
          BY <4>5, ZenonT(60) DEF Sends, Hears
        <5> QED
          BY <3>2, <5>1 DEF Awaits
      <4>8. g \in ran[q]
        BY <2>0, <4>2, <4>4, <4>7, PlaysByClass, Zenon DEF S
      <4>9. PICK m \in net : m.t = a.t /\ m.from = q /\ m.to = p
        <5>1. AllSent(q)
          BY <1>2, <2>0, <4>2, Zenon DEF ProgressInv
        <5> QED
          BY <4>6, <4>8, <5>1, ZenonT(60) DEF AllSent
      <4> QED
        BY <4>5, <4>9 DEF Inbox
    <3>9. Complete(p, script.handlers[h])
      <4>1. \A c \in script.handlers[h].on : script.handlers[h].solo \/ Group(p, c[2]) # {}
        BY <1>2, <3>3, <3>4 DEF Peopled, Plays
      <4> QED
        BY <3>8, <4>1 DEF Complete
    <3> QED
      BY <3>3, <3>4, <3>6, <3>7, <3>9 DEF Ready, Plays
  <2>3. ASSUME NEW p \in Members PROVE Done(p)
    <3>1. Class(run, p) \in Cast(run)
      BY Zenon DEF Cast, Members
    <3>2. PICK d \in Names(script) : LastOf(script, d, Class(run, p))
      BY <2>1, <3>1 DEF WaitRule
    <3>3. Last(p, d)
      BY <2>0, <3>2, PlaysByClass
    <3>4. d \in ran[p]
      BY <2>2, <3>3 DEF Last
    <3> QED
      BY <3>3, <3>4 DEF Done, Deeds, Last
  <2> QED
    BY <2>3, Zenon
<1>3. Engine /\ ProgressInv => NeverStuck
  BY <1>2 DEF NeverStuck
<1> QED
  BY <1>1, <1>3, ProgressStep, EngineInvariant, PTL DEF Spec
================================================================================
