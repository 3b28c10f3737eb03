------------------------- MODULE RoundScriptSoundness -------------------------
(***************************************************************************)
(* The two properties of RoundScript about the content of messages: what   *)
(* honest parties agree on, and what a result was computed from.           *)
(***************************************************************************)
EXTENDS RoundScriptProofs

\* p has collected what the handlers before h collect.
Collected(p, h) ==
  \A g \in Before(script, h) : Plays(p, g) /\ Complete(p, script.handlers[g])

\* Nothing is added to a collector that was complete.
LEMMA Frozen ==
  ASSUME Engine, Engine', run' = run, net \subseteq net', NEW p \in Party,
         NEW g \in Names(script), Plays(p, g), Complete(p, script.handlers[g]),
         NEW t \in Hears(script.handlers[g])
  PROVE  Inbox(p, {t})' = Inbox(p, {t})
<1>1. script' = script /\ run \in Setups
  BY DEF script, Engine, TypeOK
<1>2. PICK c \in script.handlers[g].on : c[1] = t
  BY DEF Hears
<1>3. ASSUME NEW m \in net', m.to = p, m.t = t PROVE m \in net
  <2>1. PICK h \in Names(script) : \E s \in script.handlers[h].sends :
          /\ m.t = s.t /\ m.to \in Group(m.from, s.to)' /\ m.from \in Party
          /\ m.from \in Group(m.from, script.handlers[h].role)'
    BY <1>1 DEF Engine, Origin
  <2>2. PICK s \in script.handlers[h].sends :
          m.t = s.t /\ p \in Group(m.from, s.to) /\ Plays(m.from, h)
    BY <2>1, <1>1, <1>3, Zenon DEF Group, Plays
  <2>3. s.to \in Groups /\ c[2] \in Groups
    BY <1>1, HandlerRules
  <2>4. m.from \in Members /\ p \in Members
    BY <2>2, <1>1, PlaysByClass
  <2>5. /\ Class(run, p) \in Cast(run) /\ Class(run, m.from) \in Cast(run)
        /\ RunBy(script, g, Class(run, p)) /\ RunBy(script, h, Class(run, m.from))
    BY <2>2, <2>4, <1>1, PlaysByClass
  <2>6. InGroup(s.to, Class(run, p), m.from = p)
    BY <2>2, <2>3, <2>4, GroupByClass
  <2>7. FlowRule(script, Cast(run))
    BY <1>1, Rules DEF Keeps
  <2>8. InGroup(c[2], Class(run, m.from), m.from = p)
    BY <2>2, <2>5, <2>6, <2>7, <1>2, <1>3, Zenon DEF FlowRule
  <2>9. m.from \in Group(p, c[2])
    BY <2>3, <2>4, <2>8, GroupByClass
  <2>10. PICK n \in Inbox(p, {t}) : n.from = m.from
    BY <2>9, <1>2 DEF Complete
  <2> QED
    BY <2>10, <1>3 DEF Engine, Unique, Inbox
<1> QED
  BY <1>3 DEF Inbox

\* The handlers before one that a party has run, or is running, are complete.
LEMMA BeforePlayed ==
  ASSUME TypeOK, History, NEW p \in Party, NEW h \in ran[p], NEW g \in Before(script, h)
  PROVE  /\ g \in ran[p] /\ g \in Names(script)
         /\ Plays(p, g) /\ Complete(p, script.handlers[g])
<1>1. g \in ran[p] /\ g \in Names(script)
  BY BeforeRan DEF Before
<1> QED
  BY <1>1 DEF History, Plays

\* What comes before a handler of a call has been collected at the call.
LEMMA BeforeCalled ==
  ASSUME TypeOK, History, NEW p \in Party, NEW h \in Names(script), Ready(p, h),
         NEW k \in Calls(p, h), NEW g \in Before(script, k)
  PROVE  /\ g \in ran[p] \cup Calls(p, h) /\ g \in Names(script)
         /\ Plays(p, g) /\ Complete(p, script.handlers[g])
<1>1. Closed(script, ran[p] \cup Calls(p, h)) /\ Calls(p, h) \subseteq Names(script)
  BY CallFacts
<1>2. ran[p] \cup Calls(p, h) \in SUBSET Names(script)
  BY <1>1 DEF TypeOK
<1>3. g \in ran[p] \cup Calls(p, h) /\ g \in Names(script)
  BY <1>1, <1>2 DEF Before
<1>4. CASE g \in ran[p]
  BY <1>3, <1>4 DEF History, Plays
<1>5. CASE g \in Calls(p, h)
  BY <1>3, <1>5, CallFacts, Zenon DEF Plays
<1> QED
  BY <1>3, <1>4, <1>5

\* What an honest party has compared with the others never comes to differ.
BindInv ==
  \A p, q \in Party : Honest(p) /\ Honest(q) =>
    \A h \in ran[p] : \A b \in script.handlers[h].binds : ~Differ(p, q, b[2])

\* Before is transitive.
LEMMA BeforeBefore ==
  ASSUME NEW sc, NEW h, NEW g \in Before(sc, h), NEW k \in Before(sc, g)
  PROVE  k \in Before(sc, h)
BY DEF Before

\* The handlers before one that a party has run, or is running, are all complete.
LEMMA RanCollected ==
  ASSUME TypeOK, History, NEW p \in Party, NEW h \in ran[p]
  PROVE  /\ Collected(p, h)
         /\ \A g \in Before(script, h) : Collected(p, g)
<1>1. ASSUME NEW g \in Before(script, h)
      PROVE  Plays(p, g) /\ Complete(p, script.handlers[g])
  BY BeforePlayed
<1>2. \A g \in Before(script, h) : \A k \in Before(script, g) : k \in Before(script, h)
  BY BeforeBefore
<1> QED
  BY <1>1, <1>2 DEF Collected

\* So they are at the call of a handler.
LEMMA CallCollected ==
  ASSUME TypeOK, History, NEW p \in Party, NEW h \in Names(script), Ready(p, h),
         NEW k \in Calls(p, h)
  PROVE  /\ Collected(p, k)
         /\ \A g \in Before(script, k) : Collected(p, g)
<1>1. ASSUME NEW g \in Before(script, k)
      PROVE  Plays(p, g) /\ Complete(p, script.handlers[g])
  BY BeforeCalled
<1>2. \A g \in Before(script, k) : \A e \in Before(script, g) : e \in Before(script, k)
  BY BeforeBefore
<1> QED
  BY <1>1, <1>2 DEF Collected

\* p and q were given different things, and p has what q tells of it.
Compared(p, q, b) == Differ(p, q, b[2]) /\ \E e \in Inbox(p, {b[1]}) : e.from = q

\* When a comparing handler has its messages, the two parties it compares have
\* both collected what is compared.
LEMMA BindFrozen ==
  ASSUME Engine, Engine', run' = run, net \subseteq net',
         NEW p \in Party, NEW q \in Party, Honest(q),
         NEW h \in Names(script), NEW b \in script.handlers[h].binds,
         Plays(p, h), Complete(p, script.handlers[h]), Collected(p, h),
         Differ(p, q, b[2])'
  PROVE  Compared(p, q, b)
<1>1. /\ run \in Setups /\ script' = script /\ TypeOK /\ History /\ Origin /\ Origin' /\ Unique'
  BY DEF Engine, TypeOK, script
<1>2. BindRule(script, Cast(run))
  BY <1>1, Rules DEF Keeps
<1>3. PICK m \in Inbox(p, {b[2]})', n \in Inbox(q, {b[2]})' : m.from = n.from /\ m.val # n.val
  BY Zenon DEF Differ
<1>4. p # q
  BY <1>1, <1>3 DEF Unique, Inbox
<1>5. Inbox(p, {b[2]})' = Inbox(p, {b[2]})
  <2>1. PICK g \in Before(script, h) : b[2] \in Hears(script.handlers[g])
    BY <1>2 DEF BindRule
  <2>2. g \in Names(script) /\ Plays(p, g) /\ Complete(p, script.handlers[g])
    BY <2>1 DEF Before, Collected
  <2> QED
    BY <2>1, <2>2, Frozen, Zenon
<1>6. PICK c \in script.handlers[h].on :
        c[1] = b[1] /\ Covers(script, Cast(run), h, b[2], c[2])
  BY <1>2 DEF BindRule
<1>7. q \in Group(p, c[2])
  <2>1. PICK f \in Names(script) : \E a \in script.handlers[f].sends :
          /\ n.t = a.t /\ n.to \in Group(n.from, a.to)' /\ n.from \in Party
          /\ n.from \in Group(n.from, script.handlers[f].role)'
    BY <1>1 DEF Origin, Inbox
  <2>2. PICK a \in script.handlers[f].sends :
          b[2] = a.t /\ q \in Group(n.from, a.to) /\ Plays(n.from, f)
    BY <2>1, <1>1 DEF Inbox, Group, Plays
  <2>3. a.to \in Groups /\ c[2] \in Groups
    BY <1>1, HandlerRules
  <2>4. n.from \in Members /\ p \in Members /\ q \in Members
    BY <2>2, <2>3, <1>1, PlaysByClass, GroupMembers DEF Group, Members
  <2>5. /\ Class(run, n.from) \in Cast(run) /\ Class(run, p) \in Cast(run)
        /\ Class(run, q) \in Cast(run)
        /\ RunBy(script, f, Class(run, n.from)) /\ RunBy(script, h, Class(run, p))
    BY <2>2, <2>4, <1>1, PlaysByClass
  <2>6. InGroup(a.to, Class(run, q), q = n.from)
    BY <2>2, <2>3, <2>4, GroupByClass
  <2>7. InGroup(c[2], Class(run, q), FALSE)
    BY <2>2, <2>5, <2>6, <1>6, Zenon DEF Covers
  <2>8. InGroup(c[2], Class(run, q), q = p)
    BY <2>7, <1>4, Zenon
  <2> QED
    BY <2>3, <2>4, <2>8, GroupByClass
<1>8. PICK e \in Inbox(p, {b[1]}) : e.from = q
  BY <1>6, <1>7 DEF Complete
<1>9. Inbox(q, {b[2]})' = Inbox(q, {b[2]})
  <2>1. PICK f \in Names(script) : /\ \E s \in script.handlers[f].sends : e.t = s.t
                                   /\ f \in ran[q] \/ e.t \in script.handlers[f].eager
    BY <1>1, <1>8 DEF Origin, Inbox
  <2>2. e.t = b[1] /\ b[1] \in Sends(script.handlers[f])
    BY <2>1, <1>8 DEF Inbox, Sends
  <2>3. PICK g \in Before(script, f) : b[2] \in Hears(script.handlers[g])
    BY <2>2, <1>2 DEF BindRule
  <2>4. f \in ran[q]
    BY <2>1, <2>2, <1>2 DEF BindRule
  <2>5. g \in Names(script) /\ Plays(q, g) /\ Complete(q, script.handlers[g])
    BY <2>4, <1>1, BeforePlayed
  <2> QED
    BY <2>3, <2>5, Frozen, Zenon
<1>10. m \in Inbox(p, {b[2]}) /\ n \in Inbox(q, {b[2]})
  BY <1>3, <1>5, <1>9
<1>11. Differ(p, q, b[2])
  BY <1>3, <1>10, Zenon DEF Differ
<1> QED
  BY <1>8, <1>11 DEF Compared

\* Every step keeps the comparisons that have been made.
LEMMA BindStep == BindInv /\ Engine /\ Engine' /\ [Next]_vars => BindInv'
<1> SUFFICES ASSUME BindInv, Engine, Engine', [Next]_vars PROVE BindInv'
  OBVIOUS
<1>0. TypeOK /\ History /\ run \in Setups /\ ran \in [Party -> SUBSET Names(script)]
  BY DEF Engine, TypeOK
<1>1. CASE run' = run /\ net' = net /\ ran' = ran
  <2>1. script' = script /\ \A p : Honest(p)' = Honest(p)
    BY <1>1 DEF script, Honest
  <2>2. \A p, q, t : Differ(p, q, t)' = Differ(p, q, t)
    BY <1>1 DEF Differ, Inbox
  <2> QED
    BY <1>1, <2>1, <2>2 DEF BindInv
<1>2. ASSUME NEW x \in Party, NEW k \in Names(script),
             Handle(x, k) \/ Fail(x, k) \/ Deviate(x, k)
      PROVE  BindInv'
  <2>1. /\ run' = run /\ script' = script /\ Ready(x, k) /\ net \subseteq net'
        /\ \A q \in Party \ {x} : ran'[q] = ran[q]
        /\ ran'[x] = ran[x] \cup Calls(x, k) \/ ran' = ran
    BY <1>0, <1>2, StepFacts, Sent, Zenon
  <2>a. run' = run /\ net \subseteq net'
    BY <2>1
  <2> SUFFICES ASSUME NEW p \in Party, NEW q \in Party, Honest(p), Honest(q),
                      NEW h \in ran'[p], NEW b \in script.handlers[h].binds,
                      Differ(p, q, b[2])'
               PROVE  FALSE
    BY <2>1 DEF BindInv, Honest
  <2>2. CASE h \in ran[p]
    <3>1. h \in Names(script) /\ Plays(p, h) /\ Complete(p, script.handlers[h])
      BY <2>2, <1>0 DEF History, Plays
    <3>2. Collected(p, h)
      BY <2>2, <1>0, RanCollected
    <3>3. Compared(p, q, b)
      BY <2>a, <3>1, <3>2, BindFrozen
    <3> QED
      BY <3>3, <2>2 DEF BindInv, Compared
  <2>3. CASE h \notin ran[p]
    <3>1. p = x /\ h \in Calls(x, k)
      BY <2>1, <2>3
    <3>2. h \in Names(script) /\ Plays(p, h) /\ Complete(p, script.handlers[h])
      BY <3>1, <2>1, <1>0, CallFacts, Zenon DEF Plays
    <3>3. Collected(p, h)
      BY <3>1, <2>1, <1>0, CallCollected
    <3>4. Compared(p, q, b)
      BY <2>a, <3>2, <3>3, BindFrozen
    <3>5. Refused(p, Calls(x, k))
      BY <3>1, <3>4, Zenon DEF Refused, Compared
    <3>6. Handle(x, k)
      BY <1>2, <2>1, <2>3, <3>1 DEF Fail, Deviate
    <3> QED
      BY <3>1, <3>5, <3>6 DEF Handle, MustFail
  <2> QED
    BY <2>2, <2>3
<1> QED
  BY <1>1, <1>2, NextCases

\* A party that has a result has run its last handler.
LEMMA DoneLast ==
  ASSUME TypeOK, History, NEW p \in Party, Done(p)
  PROVE  \E d \in Names(script) : d \in ran[p] /\ Last(p, d)
<1>1. PICK d \in ran[p] : \/ "done" \in script.handlers[d].does
                          \/ "leave" \in script.handlers[d].does /\ p \notin run.new
  BY DEF Done, Deeds
<1>2. d \in Names(script) /\ p \in Group(p, script.handlers[d].role)
  BY DEF TypeOK, History
<1> QED
  BY <1>1, <1>2 DEF Last, Plays

\* Two honest parties that both deliver were given the same by everybody else,
\* in every protocol whose comparing messages are sent with the compared ones in
\* hand: the echo phases of dklstss, and the Paillier proof of ecdsatss keygen.
THEOREM HonestPartiesAgree == Spec => []Agreement
<1>1. Init => BindInv
  BY DEF Init, BindInv
<1>2. ASSUME Engine, BindInv PROVE Agreement
  <2>0. TypeOK /\ History /\ Origin /\ run \in Setups /\ Members \subseteq Party
    BY <1>2, Rules DEF Engine, TypeOK
  <2> SUFFICES ASSUME NEW p \in Party, NEW q \in Party, Honest(p), Honest(q), Done(p),
                      NEW t \in script.agreed, Differ(p, q, t)
               PROVE  FALSE
    BY <2>0 DEF Agreement
  <2>1. PICK d \in Names(script) : d \in ran[p] /\ Last(p, d)
    BY <2>0, DoneLast
  <2>2. AgreedRule(script, Cast(run))
    BY <2>0, Rules DEF Keeps
  <2>3. CASE \E g \in Before(script, d) : \E b \in script.handlers[g].binds : b[2] = t
    <3>1. PICK g \in Before(script, d) : \E b \in script.handlers[g].binds : b[2] = t
      BY <2>3
    <3>2. g \in ran[p]
      BY <2>0, <2>1, BeforeRan
    <3> QED
      BY <1>2, <3>1, <3>2 DEF BindInv
  <2>4. CASE \A f \in Names(script) : \A a \in script.handlers[f].sends : a.t = t =>
               \A y \in Cast(run), same \in BOOLEAN :
                 (same => Class(run, p) = y) /\ RunBy(script, f, y) =>
                   ~InGroup(a.to, Class(run, p), same)
    <3>1. PICK m \in Inbox(p, {t}) : TRUE
      BY DEF Differ
    <3>2. m \in net /\ m.to = p /\ m.t = t
      BY DEF Inbox
    <3>3. PICK f \in Names(script), a \in UNION {script.handlers[k].sends : k \in Names(script)} :
            /\ a \in script.handlers[f].sends /\ t = a.t
            /\ p \in Group(m.from, a.to) /\ Plays(m.from, f)
      BY <2>0, <3>2 DEF Origin, Plays
    <3>4. a.to \in Groups
      BY <2>0, <3>3, HandlerRules
    <3>5. m.from \in Members /\ p \in Members
      BY <2>0, <2>1, <3>3, PlaysByClass DEF Last
    <3>6. Class(run, m.from) \in Cast(run) /\ RunBy(script, f, Class(run, m.from))
      BY <2>0, <3>3, <3>5, PlaysByClass, Zenon
    <3>7. InGroup(a.to, Class(run, p), p = m.from)
      BY <3>3, <3>4, <3>5, GroupByClass
    <3> QED
      BY <2>4, <3>3, <3>6, <3>7, Zenon
  <2>5. Class(run, p) \in Cast(run) /\ LastOf(script, d, Class(run, p))
    BY <2>0, <2>1, PlaysByClass DEF Last
  <2> QED
    BY <2>2, <2>3, <2>4, <2>5 DEF AgreedRule
<1> QED
  BY <1>1, <1>2, BindStep, EngineInvariant, PTL DEF Spec

---------------------------------------------------------------------------
\* Nothing computed from wrong content is used in a pure protocol, and what its
\* handlers have verified was right.
PureInv ==
  Pure(script) =>
    /\ \A m \in net : m.val = "off" => m.t \notin Checked(script)
    /\ \A p \in Party : Honest(p) => \A g \in ran[p] : script.handlers[g].uses = {} =>
         Wrong(Inbox(p, script.handlers[g].verifies)) = {}

\* What came in before a test of the result was right if the test has passed.
GateInv ==
  \A p \in Party : Honest(p) => \A d \in ran[p] : script.handlers[d].gate =>
    \A g \in Before(script, d) :
      Wrong(Inbox(p, script.handlers[g].verifies \cup script.handlers[g].uses)) = {}

\* A sealed type carries nothing computed from wrong content.
SealInv ==
  \A m \in net : Honest(m.from) /\ m.t \in script.sealed => m.val # "off"

\* What a handler checks or uses has been collected when it runs.
LEMMA InputsFrozen ==
  ASSUME Engine, Engine', run' = run, net \subseteq net', NEW p \in Party, NEW g \in Names(script),
         Collected(p, g),
         NEW T \in SUBSET (script.handlers[g].verifies \cup script.handlers[g].uses)
  PROVE  Inbox(p, T)' = Inbox(p, T)
<1>1. run \in Setups
  BY DEF Engine, TypeOK
<1>2. WellFormed(script)
  BY <1>1, Rules
<1>3. ASSUME NEW t \in T PROVE Inbox(p, {t})' = Inbox(p, {t})
  <2>1. PICK k \in Before(script, g) : t \in Hears(script.handlers[k])
    BY <1>2 DEF WellFormed
  <2>2. k \in Names(script) /\ Plays(p, k) /\ Complete(p, script.handlers[k])
    BY <2>1 DEF Before, Collected
  <2> QED
    BY <2>1, <2>2, Frozen
<1>4. \A m \in net' : m.to = p /\ m.t \in T => m \in net
  BY <1>3 DEF Inbox
<1> QED
  BY <1>4 DEF Inbox

\* In a pure protocol an honest party computes nothing from wrong content for a
\* message that matters.
LEMMA PureSends ==
  ASSUME TypeOK, History, PureInv, Pure(script), NEW p \in Party, NEW h \in Names(script),
         Handle(p, h) \/ Fail(p, h) \/ Deviate(p, h),
         NEW m \in net' \ net, m.val = "off", m.t \in Checked(script)
  PROVE  FALSE
<1> DEFINE S == Calls(p, h)
<1>1. run \in Setups /\ Ready(p, h) /\ Honest(p) /\ Swallows(p, ran[p] \cup S)
  BY StepFacts, Sent, Zenon DEF TypeOK
<1>2. /\ S \subseteq Names(script) /\ ran[p] \subseteq Names(script) /\ h \in S
      /\ \A g \in S : g \notin Begun(p) /\ (g # h => script.handlers[g].inline)
      /\ script.handlers[h].after \subseteq ran[p]
  BY <1>1, CallFacts, Zenon DEF TypeOK
<1>3. PICK f \in S : \E s \in script.handlers[f].sends : m.t = s.t
  BY SentBy
<1>4. PICK g \in ran[p] \cup S :
        Wrong(Inbox(p, script.handlers[g].verifies \cup script.handlers[g].uses)) # {}
  <2>1. \E k \in ran[p] \cup S :
          Wrong(Inbox(p, script.handlers[k].verifies \cup script.handlers[k].uses)) # {}
    BY <1>1, Zenon DEF Swallows
  <2> QED
    BY <2>1
<1>5. f \notin ran[p]
  BY <1>2 DEF Begun
<1>6. CASE script.handlers[g].uses # {}
  <2>1. ~script.handlers[g].inline /\ f \in Before(script, g) \ {g}
    BY <1>2, <1>3, <1>4, <1>6 DEF Pure
  <2>2. CASE g \in ran[p]
    BY <2>1, <2>2, <1>5, BeforeRan
  <2>3. CASE g \in S
    <3>1. g = h
      BY <2>1, <2>3, <1>2
    <3>2. Closed(script, ran[p] \cup {h}) /\ ran[p] \cup {h} \in SUBSET Names(script)
      BY <1>2 DEF Closed, History
    <3>3. f \in ran[p] \cup {h}
      BY <2>1, <3>1, <3>2 DEF Before
    <3> QED
      BY <3>1, <3>3, <2>1, <1>5
  <2> QED
    BY <2>2, <2>3, <1>4
<1>7. CASE script.handlers[g].uses = {} /\ g \in ran[p]
  <2>1. script.handlers[g].verifies \cup script.handlers[g].uses = script.handlers[g].verifies
    BY <1>7
  <2> QED
    BY <2>1, <1>1, <1>4, <1>7 DEF PureInv
<1>8. CASE script.handlers[g].uses = {} /\ g \in S
  <2>0. script.handlers[g].verifies \cup script.handlers[g].uses = script.handlers[g].verifies
    BY <1>8
  <2>1. PICK n \in Inbox(p, script.handlers[g].verifies) : n.val \in {"bad", "off"}
    <3>1. Wrong(Inbox(p, script.handlers[g].verifies)) # {}
      BY <2>0, <1>4, Zenon
    <3> QED
      BY <3>1 DEF Wrong
  <2>2. n \in net /\ n.t \in Checked(script)
    <3>1. n \in net /\ n.t \in script.handlers[g].verifies
      BY <2>1 DEF Inbox
    <3>2. g \in Names(script)
      BY <1>2, <1>8
    <3> QED
      BY <3>1, <3>2 DEF Checked
  <2>3. n.val = "bad"
    BY <2>1, <2>2 DEF PureInv
  <2>4. Refused(p, S)
    BY <2>1, <2>3, <1>8 DEF Refused
  <2>5. Fail(p, h)
    BY <2>4, <1>1 DEF Handle, MustFail, Deviate
  <2>6. PICK e \in S : m.t \in script.handlers[e].eager
    BY <2>5, SentEarly
  <2>7. script.handlers[e].eager \cap Checked(script) # {}
    BY <2>6
  <2>8. script.handlers[g].role = script.handlers[e].role
    <3>1. \A k \in S : script.handlers[k].role = script.handlers[h].role
      BY <1>1, <1>2, CallFacts, HandlerRules, Zenon
    <3> QED
      BY <3>1, <2>6, <1>8, Zenon
  <2>9. script.handlers[g].verifies = {}
    BY <2>6, <2>7, <2>8, <1>2, <1>8 DEF Pure
  <2> QED
    BY <2>1, <2>9 DEF Inbox
<1> QED
  BY <1>4, <1>6, <1>7, <1>8, Zenon

\* Every step keeps a pure protocol pure.
LEMMA PureStep == PureInv /\ Engine /\ Engine' /\ [Next]_vars => PureInv'
<1> SUFFICES ASSUME PureInv, Engine, Engine', [Next]_vars PROVE PureInv'
  OBVIOUS
<1>0. TypeOK /\ History /\ run \in Setups /\ ran \in [Party -> SUBSET Names(script)]
  BY DEF Engine, TypeOK
<1>1. CASE run' = run /\ net' = net /\ ran' = ran
  BY <1>1 DEF PureInv, Honest, script, Wrong, Inbox
<1>2. ASSUME NEW x \in Party, NEW k \in Names(script),
             Handle(x, k) \/ Fail(x, k) \/ Deviate(x, k)
      PROVE  PureInv'
  <2>1. /\ run' = run /\ script' = script /\ Ready(x, k) /\ net \subseteq net'
        /\ \A q \in Party \ {x} : ran'[q] = ran[q]
        /\ ran'[x] = ran[x] \cup Calls(x, k) \/ ran' = ran
    BY <1>0, <1>2, StepFacts, Sent, Zenon
  <2> SUFFICES ASSUME Pure(script)
               PROVE  /\ \A m \in net' : m.val = "off" => m.t \notin Checked(script)
                      /\ \A p \in Party : Honest(p) => \A g \in ran'[p] :
                           script.handlers[g].uses = {} =>
                             Wrong(Inbox(p, script.handlers[g].verifies)') = {}
    BY <2>1 DEF PureInv, Honest, Wrong
  <2>2. \A m \in net' : m.val = "off" => m.t \notin Checked(script)
    BY <1>0, <1>2, PureSends DEF PureInv
  <2>3. ASSUME NEW p \in Party, Honest(p), NEW g \in ran'[p], script.handlers[g].uses = {}
        PROVE  Wrong(Inbox(p, script.handlers[g].verifies)') = {}
    <3>1. CASE g \in ran[p]
      <4>1. Collected(p, g)
        BY <3>1, <1>0, RanCollected
      <4>2. Inbox(p, script.handlers[g].verifies)' = Inbox(p, script.handlers[g].verifies)
        <5>1. g \in Names(script)
          BY <3>1, <1>0
        <5> QED
          BY <2>1, <4>1, <5>1, InputsFrozen DEF script
      <4> QED
        BY <3>1, <4>2, <2>3 DEF PureInv
    <3>2. CASE g \notin ran[p]
      <4>1. p = x /\ g \in Calls(x, k)
        BY <2>1, <3>2
      <4>2. Handle(x, k)
        BY <4>1, <1>2, <2>1, <2>3, <3>2 DEF Fail, Deviate
      <4>3. Collected(p, g)
        BY <4>1, <2>1, <1>0, CallCollected
      <4>4. g \in Names(script)
        BY <4>1, <2>1, <1>0, CallFacts, Zenon
      <4>5. Inbox(p, script.handlers[g].verifies)' = Inbox(p, script.handlers[g].verifies)
        BY <2>1, <4>3, <4>4, InputsFrozen DEF script
      <4>6. ~Refused(p, Calls(x, k))
        BY <4>1, <4>2 DEF Handle, MustFail
      <4>7. \A n \in Inbox(p, script.handlers[g].verifies) : n.val # "bad"
        BY <4>1, <4>6 DEF Refused
      <4>8. \A n \in Inbox(p, script.handlers[g].verifies) : n.val # "off"
        <5>1. \A n \in Inbox(p, script.handlers[g].verifies) :
                n \in net /\ n.t \in script.handlers[g].verifies
          BY DEF Inbox
        <5>2. script.handlers[g].verifies \subseteq Checked(script)
          BY <4>4 DEF Checked
        <5> QED
          BY <5>1, <5>2 DEF PureInv
      <4> QED
        BY <4>5, <4>7, <4>8 DEF Wrong
    <3> QED
      BY <3>1, <3>2
  <2> QED
    BY <2>2, <2>3
<1> QED
  BY <1>1, <1>2, NextCases

\* Every step keeps what the tests of the results have shown.
LEMMA GateStep == GateInv /\ Engine /\ Engine' /\ [Next]_vars => GateInv'
<1> SUFFICES ASSUME GateInv, Engine, Engine', [Next]_vars PROVE GateInv'
  OBVIOUS
<1>0. TypeOK /\ History /\ run \in Setups /\ ran \in [Party -> SUBSET Names(script)]
  BY DEF Engine, TypeOK
<1>1. CASE run' = run /\ net' = net /\ ran' = ran
  BY <1>1 DEF GateInv, Honest, script, Wrong, Inbox
<1>2. ASSUME NEW x \in Party, NEW k \in Names(script),
             Handle(x, k) \/ Fail(x, k) \/ Deviate(x, k)
      PROVE  GateInv'
  <2>1. /\ run' = run /\ script' = script /\ Ready(x, k) /\ net \subseteq net'
        /\ \A q \in Party \ {x} : ran'[q] = ran[q]
        /\ ran'[x] = ran[x] \cup Calls(x, k) \/ ran' = ran
    BY <1>0, <1>2, StepFacts, Sent, Zenon
  <2> SUFFICES ASSUME NEW p \in Party, Honest(p), NEW d \in ran'[p], script.handlers[d].gate,
                      NEW g \in Before(script, d)
               PROVE  Wrong(Inbox(p, script.handlers[g].verifies
                                       \cup script.handlers[g].uses)') = {}
    BY <2>1 DEF GateInv, Honest, Wrong
  <2> DEFINE T == script.handlers[g].verifies \cup script.handlers[g].uses
  <2>2. g \in Names(script) /\ \A e \in Before(script, g) : e \in Before(script, d)
    BY BeforeBefore DEF Before
  <2>3. CASE d \in ran[p]
    <3>1. Collected(p, g)
      BY <2>2, <2>3, <1>0, RanCollected
    <3>2. Inbox(p, T)' = Inbox(p, T)
      BY <2>1, <2>2, <3>1, InputsFrozen, ZenonT(60) DEF script
    <3>3. Wrong(Inbox(p, T)) = {}
      BY <2>3 DEF GateInv
    <3> QED
      BY <3>2, <3>3, Zenon
  <2>4. CASE d \notin ran[p]
    <3>1. p = x /\ d \in Calls(x, k)
      BY <2>1, <2>4
    <3>2. Handle(x, k)
      BY <3>1, <1>2, <2>1, <2>4 DEF Fail, Deviate
    <3>3. Collected(p, g)
      BY <2>2, <3>1, <2>1, <1>0, CallCollected, Zenon
    <3>4. Inbox(p, T)' = Inbox(p, T)
      BY <2>1, <2>2, <3>3, InputsFrozen DEF script
    <3>5. ~Swallows(p, ran[p] \cup Calls(x, k))
      BY <3>1, <3>2, Zenon DEF Handle, MustFail, Refused
    <3>6. g \in ran[p] \cup Calls(x, k)
      BY <3>1, <2>1, <1>0, BeforeCalled
    <3>7. Wrong(Inbox(p, T)) = {}
      BY <3>5, <3>6 DEF Swallows
    <3> QED
      BY <3>4, <3>7
  <2> QED
    BY <2>3, <2>4, Zenon
<1> QED
  BY <1>1, <1>2, NextCases

\* Every step keeps what is sealed right.
LEMMA SealStep == SealInv /\ PureInv /\ Engine /\ [Next]_vars => SealInv'
<1> SUFFICES ASSUME SealInv, PureInv, Engine, [Next]_vars PROVE SealInv'
  OBVIOUS
<1>0. TypeOK /\ History /\ run \in Setups
  BY DEF Engine, TypeOK
<1>1. CASE run' = run /\ net' = net
  BY <1>1 DEF SealInv, Honest, script
<1>2. ASSUME NEW p \in Party, NEW h \in Names(script),
             Handle(p, h) \/ Fail(p, h) \/ Deviate(p, h)
      PROVE  SealInv'
  <2>1. run' = run /\ script' = script /\ Ready(p, h)
    BY <1>0, <1>2, StepFacts
  <2> SUFFICES ASSUME NEW m \in net' \ net, m.t \in script.sealed, m.val = "off" PROVE FALSE
    BY <2>1, ZenonT(60) DEF SealInv, Honest
  <2>2. SoundRule(script, Cast(run), run.faulty # {})
    BY <1>0, Rules DEF Keeps
  <2>3. m.t \in Checked(script)
    BY <2>2, Zenon DEF SoundRule
  <2>4. PICK f \in Calls(p, h) : \E s \in script.handlers[f].sends : m.t = s.t
    BY <1>0, <1>2, SentBy
  <2>5. f \in Names(script) /\ m.t \in Sends(script.handlers[f])
    BY <2>4, Zenon DEF Calls, Sends
  <2>6. Pure(script) \/ (script.handlers[f].gate /\ script.handlers[f].eager = {})
    BY <2>2, <2>5 DEF SoundRule
  <2>7. CASE Pure(script)
    BY <2>3, <2>7, <1>0, <1>2, PureSends
  <2>8. CASE script.handlers[f].gate /\ script.handlers[f].eager = {}
    <3>1. Honest(p) /\ Swallows(p, ran[p] \cup Calls(p, h))
      BY <1>0, <1>2, SentOff, Zenon
    <3>2. Refused(p, Calls(p, h))
      BY <3>1, <2>4, <2>8 DEF Refused
    <3>3. Fail(p, h)
      BY <3>1, <3>2, <1>2 DEF Handle, MustFail, Deviate
    <3>4. PICK e \in Calls(p, h) : m.t \in script.handlers[e].eager
      BY <3>3, <1>0, SentEarly
    <3>5. e \in Names(script)
      BY <3>4 DEF Calls
    <3>a. script.handlers[e].eager \subseteq Sends(script.handlers[e])
      BY <3>5, <1>0, HandlerRules
    <3>6. PICK a \in script.handlers[e].sends : a.t = m.t
      BY <3>a, <3>4 DEF Sends
    <3>b. PICK b \in script.handlers[f].sends : b.t = m.t
      BY <2>4
    <3>c. run \in Setups /\ a.t = b.t
      BY <1>0, <3>6, <3>b
    <3>7. e = f
      BY <3>c, <3>5, <2>5, OneSender
    <3> QED
      BY <3>4, <3>7, <2>8
  <2> QED
    BY <2>6, <2>7, <2>8
<1> QED
  BY <1>1, <1>2, NextCases

\* What an honest party delivers was computed from right content only, in every
\* protocol that checks all it collects before it delivers or tests the result,
\* and what must not be recalled is sealed off from wrong content.
THEOREM ResultsAreSound == Spec => []SoundResult
<1>1. Init => PureInv /\ GateInv /\ SealInv
  BY DEF Init, PureInv, GateInv, SealInv
<1>2. ASSUME Engine, PureInv, GateInv, SealInv PROVE SoundResult
  <2>1. TypeOK /\ History /\ run \in Setups /\ Members \subseteq Party
    BY <1>2, Rules, Zenon DEF Engine, TypeOK
  <2>2. SoundRule(script, Cast(run), run.faulty # {})
    BY <2>1, Rules DEF Keeps
  <2>3. ASSUME NEW p \in Members, Honest(p), Done(p), ~script.deferred, NEW h \in ran[p],
               NEW m \in Wrong(Inbox(p, Hears(script.handlers[h]) \cap Matters(script)))
        PROVE  FALSE
    <3>0. p \in Party /\ ran[p] \subseteq Names(script)
      BY <2>1 DEF TypeOK
    <3>1. /\ m \in net /\ m.to = p /\ m.val \in {"bad", "off"}
          /\ m.t \in Hears(script.handlers[h]) \cap Matters(script)
      BY DEF Wrong, Inbox
    <3>a. run.faulty # {}
      BY <1>2, <3>1, WrongSource DEF Engine
    <3>2. PICK d \in Names(script) : d \in ran[p] /\ Last(p, d)
      BY <2>1, <2>3, <3>0, DoneLast, Zenon
    <3>b. Last(p, d) /\ Plays(p, h)
      BY <2>1, <3>0, <3>2, Zenon DEF History, Plays
    <3>3. /\ Class(run, p) \in Cast(run)
          /\ LastOf(script, d, Class(run, p)) /\ RunBy(script, h, Class(run, p))
      BY <2>1, <2>3, <3>0, <3>b, PlaysByClass, Zenon
    <3>4. PICK g \in Before(script, d) :
            m.t \in script.handlers[g].verifies \cup script.handlers[g].uses
      BY <2>2, <2>3, <3>a, <3>0, <3>1, <3>3, Zenon DEF SoundRule
    <3>5. \/ script.handlers[d].gate
          \/ Pure(script) /\ \A k \in Before(script, d) : script.handlers[k].uses = {}
      BY <2>2, <2>3, <3>a, <3>0, <3>3, Zenon DEF SoundRule
    <3>6. CASE script.handlers[d].gate
      <4>1. Wrong(Inbox(p, script.handlers[g].verifies \cup script.handlers[g].uses)) = {}
        BY <1>2, <2>3, <3>0, <3>2, <3>6 DEF GateInv
      <4> QED
        BY <4>1, <3>1, <3>4, Zenon DEF Wrong, Inbox
    <3>7. CASE Pure(script) /\ \A k \in Before(script, d) : script.handlers[k].uses = {}
      <4>1. g \in ran[p]
        BY <2>1, <3>0, <3>2, BeforeRan, Zenon
      <4>2. Wrong(Inbox(p, script.handlers[g].verifies)) = {}
        BY <1>2, <2>3, <3>0, <3>7, <4>1 DEF PureInv
      <4> QED
        BY <4>2, <3>1, <3>4, <3>7 DEF Wrong, Inbox
    <3> QED
      BY <3>5, <3>6, <3>7
  <2>4. \A m \in net : Honest(m.from) /\ m.t \in script.sealed => m.val # "off"
    BY <1>2 DEF SealInv
  <2> QED
    BY <2>3, <2>4, Zenon DEF SoundResult
<1> QED
  BY <1>1, <1>2, PureStep, GateStep, SealStep, EngineInvariant, PTL DEF Spec
---------------------------------------------------------------------------
\* Handler h of p, or one that it calls, has had a reason to fail: the context,
\* wrong content, or a check of something else than what new members sent.
Reason(p, h) ==
  \/ p \in cancelled
  \/ \E g \in Names(script) :
       /\ g = h \/ (script.handlers[g].inline /\ h \in script.handlers[g].after)
       /\ ~NewOnly(script, g) \/ Wrong(Inbox(p, Looks(script.handlers[g]))) # {}

ReasonInv == \A p \in Party : \A h \in failed[p] : Reason(p, h)

\* A handler fails for a reason.
LEMMA FailReason ==
  ASSUME NEW p \in Party, NEW h \in Names(script), Fail(p, h)
  PROVE  Reason(p, h)
<1> DEFINE S == Calls(p, h)
<1>1. \A g \in S : /\ g \in Names(script)
                   /\ g = h \/ (script.handlers[g].inline /\ h \in script.handlers[g].after)
  BY DEF Calls
<1> SUFFICES ASSUME p \notin cancelled,
                    \A g \in S : /\ NewOnly(script, g)
                                 /\ Wrong(Inbox(p, Looks(script.handlers[g]))) = {}
             PROVE  FALSE
  BY <1>1, Zenon DEF Reason
<1>2. ASSUME NEW g \in S
      PROVE  /\ script.handlers[g].binds = {} /\ script.handlers[g].compares = {}
             /\ script.handlers[g].needs = {}
             /\ ~script.handlers[g].gate /\ ~script.handlers[g].chance
  BY DEF NewOnly
<1>3. ASSUME NEW g \in S, NEW m \in Inbox(p, Looks(script.handlers[g]))
      PROVE  m.val \notin {"bad", "off"}
  BY DEF Wrong
<1>4. ASSUME NEW g \in S, NEW T \in SUBSET Looks(script.handlers[g])
      PROVE  Wrong(Inbox(p, T)) = {} /\ \A m \in Inbox(p, T) : m.val # "bad"
  BY <1>3 DEF Wrong, Inbox
<1>5. ASSUME NEW g \in S
      PROVE  /\ script.handlers[g].screens \in SUBSET Looks(script.handlers[g])
             /\ script.handlers[g].verifies \in SUBSET Looks(script.handlers[g])
             /\ script.handlers[g].verifies \cup script.handlers[g].uses
                  \in SUBSET Looks(script.handlers[g])
  BY DEF Looks
<1>6. ~Stopped(p, S)
  BY DEF Stopped
<1>7. ~Refused(p, S)
  BY <1>2, <1>4, <1>5, Zenon DEF Refused
<1>8. ~Internal(p, S)
  BY <1>2 DEF Internal
<1>9. ~Suspect(p, S)
  BY <1>2, <1>4, <1>5, Zenon DEF Suspect, Swallows
<1> QED
  BY <1>6, <1>7, <1>8, <1>9, Zenon DEF Fail, MustFail

\* The reasons stay.
LEMMA ReasonStep == ReasonInv /\ Engine /\ [Next]_vars => ReasonInv'
<1> SUFFICES ASSUME ReasonInv, Engine, [Next]_vars PROVE ReasonInv'
  OBVIOUS
<1>0. TypeOK
  BY DEF Engine
<1>1. ASSUME run' = run, net \subseteq net', cancelled \subseteq cancelled',
             NEW p, NEW h, Reason(p, h)
      PROVE  Reason(p, h)'
  <2>1. script' = script
    BY <1>1 DEF script
  <2>2. \A T : Wrong(Inbox(p, T)) \subseteq Wrong(Inbox(p, T)')
    BY <1>1 DEF Wrong, Inbox
  <2>3. \A T : Wrong(Inbox(p, T)) # {} => Wrong(Inbox(p, T))' # {}
    BY <2>2 DEF Wrong
  <2> QED
    BY <1>1, <2>1, <2>3, Zenon DEF Reason
<1>2. CASE run' = run /\ net' = net /\ failed' = failed /\ cancelled \subseteq cancelled'
  BY <1>1, <1>2 DEF ReasonInv
<1>3. ASSUME NEW p \in Party, NEW h \in Names(script),
             Handle(p, h) \/ Fail(p, h) \/ Deviate(p, h)
      PROVE  ReasonInv'
  <2>1. /\ run' = run /\ cancelled' = cancelled
        /\ \A q \in Party \ {p} : failed'[q] = failed[q]
        /\ failed' = failed \/ (failed'[p] = failed[p] \cup {h} /\ Fail(p, h))
    BY <1>0, <1>3, StepFacts, Zenon
  <2>2. net \subseteq net'
    BY <1>0, <1>3, Sent, Zenon
  <2>3. Fail(p, h) => Reason(p, h)
    BY FailReason
  <2>4. \A q \in Party : \A g \in failed'[q] : Reason(q, g)
    BY <2>1, <2>3, Zenon DEF ReasonInv
  <2> QED
    BY <1>1, <2>1, <2>2, <2>4 DEF ReasonInv
<1> QED
  BY <1>2, <1>3, NextCases

\* No honest old member erases its share before every other honest new member
\* has its key, or a verified share that only its own context or a faulty new
\* member can make it lose.
THEOREM KeyIsHandedOver == Spec => []HandedOver
<1>1. Init => PureInv /\ ReasonInv
  BY DEF Init, PureInv, ReasonInv
<1>2. ASSUME Engine, PureInv, ReasonInv PROVE HandedOver
  <2> SUFFICES ASSUME NEW p \in run.old, NEW q \in run.new \ {p},
                      Honest(q), Erased(p), ~HasKey(q)
               PROVE  HasShare(q) /\ (failed[q] = {} \/ Disturbed(q))
    BY DEF HandedOver
  <2>1. /\ TypeOK /\ History /\ Origin /\ Values /\ run \in Setups
        /\ p \in Party /\ q \in Party
    BY <1>2, Rules DEF Engine, TypeOK
  <2>2. /\ ran[p] \subseteq Names(script) /\ failed[p] \subseteq Names(script)
        /\ ran[q] \subseteq Names(script) /\ failed[q] \subseteq Names(script)
    BY <2>1 DEF TypeOK
  <2>3. HandoverRule(script) /\ ShareRule(script)
    BY <2>1, Rules
  <2>4. PICK e \in ran[p] \cup failed[p] : script.handlers[e].does \cap {"erase", "scrub"} # {}
    BY Zenon DEF Erased, Deeds
  <2>5. PICK c \in script.handlers[e].on :
          /\ c[2] \in {"new", "otherNew"}
          /\ \A g \in Names(script) : c[1] \in Sends(script.handlers[g]) =>
               /\ script.handlers[g].does \cap {"share", "key"} # {}
               /\ c[1] \notin script.handlers[g].eager
    BY <2>2, <2>3, <2>4 DEF HandoverRule
  <2>6. q \in Group(p, c[2])
    BY <2>5 DEF Group, Committee
  <2>7. Complete(p, script.handlers[e])
    BY <2>1, <2>4 DEF History
  <2>8. PICK a \in net : a.from = q /\ a.t = c[1]
    BY <2>6, <2>7 DEF Complete, Inbox
  <2>9. PICK g \in Names(script) : /\ \E s \in script.handlers[g].sends : a.t = s.t
                                   /\ g \in ran[q] \/ a.t \in script.handlers[g].eager
    BY <2>1, <2>8 DEF Origin
  <2>10. c[1] \in Sends(script.handlers[g])
    BY <2>8, <2>9 DEF Sends
  <2>11. g \in ran[q] /\ "share" \in script.handlers[g].does
    BY <2>5, <2>8, <2>9, <2>10 DEF HasKey, Deeds
  <2>12. Pure(script) /\ \A i \in Names(script) \ Before(script, g) : NewOnly(script, i)
    BY <2>3, <2>9, <2>11 DEF ShareRule
  <2>13. ASSUME NEW h \in failed[q], q \notin cancelled PROVE Disturbed(q)
    <3>1. PICK i \in Names(script) :
            /\ i = h \/ (script.handlers[i].inline /\ h \in script.handlers[i].after)
            /\ ~NewOnly(script, i) \/ Wrong(Inbox(q, Looks(script.handlers[i]))) # {}
      BY <1>2, <2>1, <2>13, Zenon DEF ReasonInv, Reason
    <3>2. i \notin ran[q]
      BY <2>1, <3>1, Zenon DEF History, Closed
    <3>3. i \notin Before(script, g)
      BY <2>1, <2>11, <3>2, BeforeRan
    <3>4. NewOnly(script, i)
      BY <2>12, <3>1, <3>3
    <3>5. PICK m \in net : /\ m.to = q /\ m.val \in {"bad", "off"}
                           /\ m.t \in Looks(script.handlers[i])
      BY <3>1, <3>4 DEF Wrong, Inbox
    <3>6. m.val = "bad" /\ m.from \in run.faulty
      BY <1>2, <2>1, <2>12, <3>4, <3>5, Zenon DEF PureInv, NewOnly, Values, Honest
    <3>7. PICK k \in Names(script) : /\ \E s \in script.handlers[k].sends : m.t = s.t
                                     /\ m.from \in Group(m.from, script.handlers[k].role)
      BY <2>1 DEF Origin
    <3>8. script.handlers[k].role = "new"
      BY <3>4, <3>5, <3>7, Zenon DEF NewOnly, Sends
    <3>9. m.from \in run.new
      BY <3>7, <3>8 DEF Group, Committee
    <3> QED
      BY <3>5, <3>6, <3>9 DEF Disturbed
  <2>14. Disturbed(q) \/ failed[q] = {}
    BY <2>13 DEF Disturbed
  <2> QED
    BY <2>11, <2>14 DEF HasShare, Deeds
<1> QED
  BY <1>1, <1>2, PureStep, ReasonStep, EngineInvariant, PTL DEF Spec
===============================================================================
