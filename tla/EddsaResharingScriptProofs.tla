---------------------- MODULE EddsaResharingScriptProofs ----------------------
(***************************************************************************)
(* EddsaResharing implements its script for every pair of committees, any  *)
(* overlap of the two, any faulty old parties and any cancellations.       *)
(***************************************************************************)
EXTENDS EddsaResharingScript, EddsaResharingProofs

\* The text of the script, field by field.
LEMMA HandlerNames ==
  /\ Script!script = EddsaTss!Resharing
  /\ Handlers = {"round1Old", "round2New", "round3Old", "onShares", "onDecommitments",
                 "round4New", "deliver", "round5Old"}
  /\ Script!Names(Script!script) = Handlers
BY Zenon DEF Script!script, Setup, Handlers, EddsaTss!Resharing, EddsaTss!Protocol, Script!Names

H(h) == Script!script.handlers[h]

LEMMA HandlerOf ==
  /\ H("round1Old") = EddsaTss!ResharingRound1Old
  /\ H("round2New") = EddsaTss!ResharingRound2New
  /\ H("round3Old") = EddsaTss!ResharingRound3Old
  /\ H("onShares") = EddsaTss!ResharingOnShares
  /\ H("onDecommitments") = EddsaTss!ResharingOnDecommitments
  /\ H("round4New") = EddsaTss!ResharingRound4New
  /\ H("deliver") = EddsaTss!ResharingDeliver
  /\ H("round5Old") = EddsaTss!ResharingRound5Old
BY HandlerNames DEF H, EddsaTss!Resharing, EddsaTss!Protocol

\* Who runs a handler, after which others, and what it waits for.
LEMMA Guards ==
  /\ \A h \in {"round1Old", "round3Old", "round5Old"} : H(h).role = "old"
  /\ \A h \in {"round2New", "onShares", "onDecommitments", "round4New"} : H(h).role = "new"
  /\ H("deliver").role = "newOnly"
  /\ H("round1Old").after = {} /\ H("round2New").after = {}
  /\ H("round3Old").after = {"round1Old"} /\ H("round5Old").after = {"round3Old"}
  /\ H("onShares").after = {"round2New"} /\ H("onDecommitments").after = {"round2New"}
  /\ H("deliver").after = {"round4New"}
  /\ H("round4New").after = {"onShares", "onDecommitments"} /\ H("round4New").inline
  /\ \A h \in Handlers \ {"round4New"} : ~H(h).inline
<1>1. /\ H("round1Old").role = "old" /\ H("round1Old").after = {}
      /\ ~H("round1Old").inline
  BY HandlerOf, ZenonT(60) DEF EddsaTss!ResharingRound1Old, EddsaTss!Handler
<1>2. /\ H("round2New").role = "new" /\ H("round2New").after = {}
      /\ ~H("round2New").inline
  BY HandlerOf, ZenonT(60) DEF EddsaTss!ResharingRound2New, EddsaTss!Handler
<1>3. /\ H("round3Old").role = "old" /\ H("round3Old").after = {"round1Old"}
      /\ ~H("round3Old").inline
  BY HandlerOf, ZenonT(60) DEF EddsaTss!ResharingRound3Old, EddsaTss!Handler
<1>4. /\ H("round5Old").role = "old" /\ H("round5Old").after = {"round3Old"}
      /\ ~H("round5Old").inline
  BY HandlerOf, ZenonT(60) DEF EddsaTss!ResharingRound5Old, EddsaTss!Handler
<1>5. /\ H("onShares").role = "new" /\ H("onShares").after = {"round2New"}
      /\ ~H("onShares").inline
  BY HandlerOf, ZenonT(60) DEF EddsaTss!ResharingOnShares, EddsaTss!Handler
<1>6. /\ H("onDecommitments").role = "new" /\ H("onDecommitments").after = {"round2New"}
      /\ ~H("onDecommitments").inline
  BY HandlerOf, ZenonT(60) DEF EddsaTss!ResharingOnDecommitments, EddsaTss!Handler
<1>7. /\ H("deliver").role = "newOnly" /\ H("deliver").after = {"round4New"}
      /\ ~H("deliver").inline
  BY HandlerOf, ZenonT(60) DEF EddsaTss!ResharingDeliver, EddsaTss!Handler
<1>8. /\ H("round4New").role = "new" /\ H("round4New").after = {"onShares", "onDecommitments"}
      /\ H("round4New").inline
  BY HandlerOf, ZenonT(60) DEF EddsaTss!ResharingRound4New, EddsaTss!Handler
<1>. QED  BY <1>1, <1>2, <1>3, <1>4, <1>5, <1>6, <1>7, <1>8, HandlerNames

\* What a handler collects.
LEMMA Collectors ==
  /\ H("round1Old").on = {} /\ H("round4New").on = {}
  /\ H("round2New").on = {<<"round1", "old">>}
  /\ H("round3Old").on = {<<"round2", "otherNew">>} /\ H("round3Old").solo
  /\ H("onShares").on = {<<"round3-1", "old">>}
  /\ H("onDecommitments").on = {<<"round3-2", "old">>}
  /\ H("deliver").on = {<<"round4", "otherNew">>} /\ H("deliver").solo
  /\ H("round5Old").on = {<<"round4", "otherNew">>} /\ H("round5Old").solo
<1>1. /\ H("round1Old").on = {} /\ H("round2New").on = {<<"round1", "old">>}
  BY HandlerOf, ZenonT(60)
  DEF EddsaTss!ResharingRound1Old, EddsaTss!ResharingRound2New, EddsaTss!Handler
<1>2. /\ H("round3Old").on = {<<"round2", "otherNew">>} /\ H("round3Old").solo
      /\ H("round5Old").on = {<<"round4", "otherNew">>} /\ H("round5Old").solo
  BY HandlerOf, ZenonT(60)
  DEF EddsaTss!ResharingRound3Old, EddsaTss!ResharingRound5Old, EddsaTss!Handler
<1>3. /\ H("onShares").on = {<<"round3-1", "old">>}
      /\ H("onDecommitments").on = {<<"round3-2", "old">>}
  BY HandlerOf, Zenon
  DEF EddsaTss!ResharingOnShares, EddsaTss!ResharingOnDecommitments, EddsaTss!Handler
<1>4. /\ H("deliver").on = {<<"round4", "otherNew">>} /\ H("deliver").solo
      /\ H("round4New").on = {}
  BY HandlerOf, ZenonT(60)
  DEF EddsaTss!ResharingDeliver, EddsaTss!ResharingRound4New, EddsaTss!Handler
<1>. QED  BY <1>1, <1>2, <1>3, <1>4

\* What a handler sends.
LEMMA Statements ==
  /\ H("round1Old").sends = {[t |-> "round1", to |-> "new", kind |-> "p2p"]}
  /\ H("round2New").sends = {[t |-> "round2", to |-> "otherOld", kind |-> "ack"]}
  /\ H("round3Old").sends = {[t |-> "round3-1", to |-> "new", kind |-> "p2p"],
                             [t |-> "round3-2", to |-> "new", kind |-> "p2p"]}
  /\ H("round4New").sends = {[t |-> "round4", to |-> "others", kind |-> "ack"]}
  /\ \A h \in {"onShares", "onDecommitments", "deliver", "round5Old"} : H(h).sends = {}
<1>. USE DEF EddsaTss!Handler, EddsaTss!P2P, EddsaTss!Ack
<1>1. /\ H("round1Old").sends = {[t |-> "round1", to |-> "new", kind |-> "p2p"]}
      /\ H("round2New").sends = {[t |-> "round2", to |-> "otherOld", kind |-> "ack"]}
  BY HandlerOf, ZenonT(60) DEF EddsaTss!ResharingRound1Old, EddsaTss!ResharingRound2New
<1>2. /\ H("round3Old").sends = {[t |-> "round3-1", to |-> "new", kind |-> "p2p"],
                                 [t |-> "round3-2", to |-> "new", kind |-> "p2p"]}
      /\ H("round4New").sends = {[t |-> "round4", to |-> "others", kind |-> "ack"]}
  BY HandlerOf, ZenonT(60) DEF EddsaTss!ResharingRound3Old, EddsaTss!ResharingRound4New
<1>3. H("onShares").sends = {} /\ H("onDecommitments").sends = {}
  BY HandlerOf, Zenon DEF EddsaTss!ResharingOnShares, EddsaTss!ResharingOnDecommitments
<1>4. H("deliver").sends = {} /\ H("round5Old").sends = {}
  BY HandlerOf, ZenonT(60) DEF EddsaTss!ResharingDeliver, EddsaTss!ResharingRound5Old
<1>. QED  BY <1>1, <1>2, <1>3, <1>4

\* What a handler tests.
LEMMA Tests ==
  /\ \A h \in Handlers : /\ H(h).uses = {} /\ H(h).binds = {} /\ H(h).needs = {}
                         /\ H(h).eager = {} /\ ~H(h).gate /\ ~H(h).chance
  /\ H("round4New").verifies = {"round1", "round3-1", "round3-2"}
  /\ \A h \in Handlers \ {"round4New"} : H(h).verifies = {}
  /\ \A h \in Handlers : H(h).ctx <=> h \in {"round2New", "round3Old", "round4New", "round5Old"}
  /\ H("round2New").screens = {"round1"}
<1>. DEFINE P(h) == /\ H(h).uses = {} /\ H(h).binds = {} /\ H(h).needs = {}
                    /\ H(h).eager = {} /\ ~H(h).gate /\ ~H(h).chance
<1>1. P("round1Old") /\ ~H("round1Old").ctx /\ H("round1Old").verifies = {}
  BY HandlerOf, Zenon DEF EddsaTss!ResharingRound1Old, EddsaTss!Handler
<1>2. P("round2New") /\ H("round2New").ctx /\ H("round2New").verifies = {}
      /\ H("round2New").screens = {"round1"}
  BY HandlerOf, ZenonT(60) DEF EddsaTss!ResharingRound2New, EddsaTss!Handler
<1>3. P("round3Old") /\ H("round3Old").ctx /\ H("round3Old").verifies = {}
  BY HandlerOf, ZenonT(60) DEF EddsaTss!ResharingRound3Old, EddsaTss!Handler
<1>4. P("onShares") /\ ~H("onShares").ctx /\ H("onShares").verifies = {}
  BY HandlerOf, Zenon DEF EddsaTss!ResharingOnShares, EddsaTss!Handler
<1>5. P("onDecommitments") /\ ~H("onDecommitments").ctx /\ H("onDecommitments").verifies = {}
  BY HandlerOf, Zenon DEF EddsaTss!ResharingOnDecommitments, EddsaTss!Handler
<1>6. P("round4New") /\ H("round4New").ctx /\ H("round4New").verifies = {"round1", "round3-1", "round3-2"}
  BY HandlerOf, ZenonT(60)
  DEF EddsaTss!ResharingRound4New, EddsaTss!Handler, EddsaTss!ResharingRound4Verifies
<1>7. P("deliver") /\ ~H("deliver").ctx /\ H("deliver").verifies = {}
  BY HandlerOf, ZenonT(60) DEF EddsaTss!ResharingDeliver, EddsaTss!Handler
<1>8. P("round5Old") /\ H("round5Old").ctx /\ H("round5Old").verifies = {}
  BY HandlerOf, ZenonT(60) DEF EddsaTss!ResharingRound5Old, EddsaTss!Handler
<1>. HIDE DEF P
<1>9. /\ \A h \in Handlers : P(h)
      /\ \A h \in Handlers \ {"round4New"} : H(h).verifies = {}
  BY <1>1, <1>2, <1>3, <1>4, <1>5, <1>6, <1>7, <1>8, HandlerNames
<1>10. \A h \in Handlers : H(h).ctx <=> h \in {"round2New", "round3Old", "round4New", "round5Old"}
  BY <1>1, <1>2, <1>3, <1>4, <1>5, <1>6, <1>7, <1>8, HandlerNames
<1>. QED  BY <1>2, <1>6, <1>9, <1>10 DEF P

---------------------------------------------------------------------------
\* The groups of the script, in the committees' own names.
LEMMA GroupOf ==
  ASSUME NEW p \in Party
  PROVE  /\ Script!Group(p, "old") = Old /\ Script!Group(p, "new") = New
         /\ Script!Group(p, "otherOld") = Old \ {p} /\ Script!Group(p, "otherNew") = New \ {p}
         /\ Script!Group(p, "others") = Party \ {p} /\ Script!Group(p, "newOnly") = New \ Old
BY CommitteeAssumption DEF Script!Group, Script!Committee, Setup

\* Whom a collector has heard, the script has heard.
LEMMA Heard ==
  ASSUME Inv, NEW p \in Party, NEW t, NEW q \in Senders(p, t)
  PROVE  q \in {m.from : m \in Script!Inbox(p, {t})}
<1>1. PICK m \in got[p] : m.type = t /\ m.from = q
  BY DEF Senders, Of
<1>2. m \in net /\ m.to = p
  BY <1>1 DEF Inv, IInv, NetInv, RefInv, MailInv
<1>3. [t |-> m.type, from |-> m.from, to |-> m.to, val |-> Standing(m.val)] \in Script!Inbox(p, {t})
  BY <1>1, <1>2 DEF Script!Inbox, Mailed
<1>. QED  BY <1>1, <1>3

\* A callback whose collectors are complete is one the script may call.
LEMMA ReadyWhen ==
  ASSUME Inv, NEW p \in Party, NEW h \in Handlers \ {"round4New"},
         p \in Script!Group(p, H(h).role), h \notin Ran[p] \cup Failed[p],
         H(h).after \subseteq Ran[p],
         \A c \in H(h).on : /\ H(h).solo \/ Script!Group(p, c[2]) # {}
                            /\ Script!Group(p, c[2]) \subseteq Senders(p, c[1])
  PROVE  Script!Ready(p, h)
<1>1. Script!Complete(p, H(h))
  BY Heard DEF Script!Complete
<1>2. ~H(h).inline
  BY Guards
<1>. QED  BY <1>1, <1>2 DEF Script!Ready, H

LEMMA ReadyFor ==
  ASSUME Inv, NEW p \in Party, NEW h \in Handlers \ {"round4New"}, NEW t, NEW g,
         p \in Script!Group(p, H(h).role), h \notin Ran[p] \cup Failed[p],
         H(h).after \subseteq Ran[p], H(h).on = {<<t, g>>},
         H(h).solo \/ Script!Group(p, g) # {}, Script!Group(p, g) \subseteq Senders(p, t)
  PROVE  Script!Ready(p, h)
<1>1. \A c \in H(h).on : c[1] = t /\ c[2] = g
  OBVIOUS
<1>. QED  BY <1>1, ReadyWhen, Zenon

\* round4New is called by the second of the two round 3 callbacks.
LEMMA CallsOf ==
  ASSUME NEW p \in Party
  PROVE  /\ \A h \in Handlers \ {"onShares", "onDecommitments"} : Script!Calls(p, h) = {h}
         /\ "onDecommitments" \notin Ran[p] => Script!Calls(p, "onShares") = {"onShares"}
         /\ "onShares" \notin Ran[p] => Script!Calls(p, "onDecommitments") = {"onDecommitments"}
         /\ "onDecommitments" \in Ran[p] =>
              Script!Calls(p, "onShares") = {"onShares", "round4New"}
         /\ "onShares" \in Ran[p] =>
              Script!Calls(p, "onDecommitments") = {"onDecommitments", "round4New"}
<1>1. ASSUME NEW h \in Handlers
      PROVE  Script!Calls(p, h) =
               {h} \cup {g \in {"round4New"} : /\ h \in {"onShares", "onDecommitments"}
                                              /\ {"onShares", "onDecommitments"} \subseteq Ran[p] \cup {h}}
  <2>1. Script!Calls(p, h) = {h} \cup {g \in Handlers : /\ H(g).inline /\ h \in H(g).after
                                                       /\ H(g).after \subseteq Ran[p] \cup {h}}
    BY HandlerNames DEF Script!Calls, H
  <2>2. "round4New" \in Handlers
    BY HandlerNames
  <2>. QED  BY <2>1, <2>2, Guards
<1>. QED  BY <1>1, HandlerNames

\* What the handlers S of a party test.
LEMMA TestsOf ==
  ASSUME NEW p \in Party, NEW S \in SUBSET Handlers
  PROVE  /\ Script!Stopped(p, S) <=>
              p \in cancelled /\ S \cap {"round2New", "round3Old", "round4New", "round5Old"} # {}
         /\ ~Script!Internal(p, S)
         /\ "round4New" \notin S => ~Script!Swallows(p, S)
         /\ Script!Refused(p, S) <=>
              "round4New" \in S /\ \E m \in Script!Inbox(p, Dealing) : m.val = "bad"
<1>1. Script!Stopped(p, S) <=>
        p \in cancelled /\ S \cap {"round2New", "round3Old", "round4New", "round5Old"} # {}
  BY Tests DEF Script!Stopped, H
<1>2. ~Script!Internal(p, S)
  BY Tests DEF Script!Internal, H
<1>3. \A T : T = {} => Script!Inbox(p, T) = {}
  BY DEF Script!Inbox
<1>4. "round4New" \notin S => ~Script!Swallows(p, S)
  <2>1. "round4New" \notin S => \A g \in S : H(g).verifies \cup H(g).uses = {}
    BY Tests
  <2>. QED  BY <1>3, <2>1, Zenon DEF Script!Swallows, Script!Wrong, H
<1>5. Script!Refused(p, S) <=>
        "round4New" \in S /\ \E m \in Script!Inbox(p, Dealing) : m.val = "bad"
  <2>1. Script!Refused(p, S) <=> \E g \in S : \E m \in Script!Inbox(p, H(g).verifies) : m.val = "bad"
    BY Tests, Zenon DEF Script!Refused, H
  <2>2. H("round4New").verifies = Dealing
    BY Tests DEF Dealing, Round3
  <2>3. \A g \in S \ {"round4New"} : Script!Inbox(p, H(g).verifies) = {}
    BY <1>3, Tests
  <2>. QED  BY <2>1, <2>2, <2>3
<1>. QED  BY <1>1, <1>2, <1>4, <1>5

LEMMA Unstopped ==
  ASSUME NEW p \in Party, p \notin cancelled, NEW h \in Handlers \ {"round4New"}
  PROVE  ~Script!MustFail(p, {h})
<1>1. {h} \in SUBSET Handlers /\ "round4New" \notin {h}
  OBVIOUS
<1>2. ~Script!Stopped(p, {h}) /\ ~Script!Refused(p, {h}) /\ ~Script!Internal(p, {h})
  BY <1>1, TestsOf, Zenon
<1>. QED  BY <1>2, Zenon DEF Script!MustFail
---------------------------------------------------------------------------
\* HasRun and HasFailed, handler by handler.
Table(p) ==
  /\ HasRun(p, "round1Old") <=> p \in Old \cap started
  /\ HasRun(p, "round2New") <=> p \in New /\ eddsaPub[p] # None
  /\ HasRun(p, "round3Old") <=> p \in dealt
  /\ HasRun(p, "onShares") <=> p \in New /\ "round3-1" \in Returned(p)
  /\ HasRun(p, "onDecommitments") <=> p \in New /\ "round3-2" \in Returned(p)
  /\ HasRun(p, "round4New") <=> p \in newKey
  /\ HasRun(p, "deliver") <=> p \in New \ Old /\ "round4" \in ran[p]
  /\ HasRun(p, "round5Old") <=> p \in erased
  /\ ~HasFailed(p, "round1Old") /\ ~HasFailed(p, "round4New") /\ ~HasFailed(p, "deliver")
  /\ HasFailed(p, "round2New") <=> p \in New /\ "round1" \in ran[p] /\ eddsaPub[p] = None
  /\ HasFailed(p, "round3Old") <=> p \in Old \ dealt /\ "round2" \in ran[p]
  /\ HasFailed(p, "onShares") <=> p \in New \ newKey /\ joiner[p] = "round3-1"
  /\ HasFailed(p, "onDecommitments") <=> p \in New \ newKey /\ joiner[p] = "round3-2"
  /\ HasFailed(p, "round5Old") <=> p \in Old \ erased /\ "round4" \in ran[p]

LEMMA Tables == ASSUME NEW p PROVE Table(p) /\ Table(p)'
<1>1. Table(p)
  BY DEF Table, HasRun, HasFailed
<1>2. Table(p)'
  BY DEF Table, HasRun, HasFailed
<1>. QED  BY <1>1, <1>2

\* What the table of a party is read off.
Position(p) ==
  <<p \in started, p \in dealt, p \in newKey, p \in erased,
    "round1" \in ran[p], "round2" \in ran[p], "round4" \in ran[p]>>

Slices(p) == <<eddsaPub[p], counted[p], joiner[p]>>

LEMMA Elsewhere ==
  ASSUME NEW p \in Party, Position(p)' = Position(p), p \in New => Slices(p)' = Slices(p),
         NEW h \in Handlers
  PROVE  /\ HasRun(p, h)' <=> HasRun(p, h)
         /\ HasFailed(p, h)' <=> HasFailed(p, h)
<1>1. /\ p \in started' <=> p \in started
      /\ p \in dealt' <=> p \in dealt
      /\ p \in newKey' <=> p \in newKey
      /\ p \in erased' <=> p \in erased
      /\ "round1" \in ran'[p] <=> "round1" \in ran[p]
      /\ "round2" \in ran'[p] <=> "round2" \in ran[p]
      /\ "round4" \in ran'[p] <=> "round4" \in ran[p]
  BY DEF Position
<1>2. p \in New => /\ eddsaPub'[p] = eddsaPub[p] /\ counted'[p] = counted[p]
                   /\ joiner'[p] = joiner[p] /\ Returned(p)' = Returned(p)
  BY <1>1 DEF Slices, Returned
<1>. QED  BY <1>1, <1>2, Tables, HandlerNames DEF Table

\* The handlers that a step of p completes, and the ones it ends with an error.
LEMMA RunStep ==
  ASSUME NEW p \in Party, NEW S \in SUBSET Handlers,
         \A q \in Party \ {p} : Position(q)' = Position(q) /\ (q \in New => Slices(q)' = Slices(q)),
         \A h \in Handlers : HasRun(p, h)' <=> HasRun(p, h) \/ h \in S
  PROVE  Ran' = [Ran EXCEPT ![p] = @ \cup S] /\ (S = {} => UNCHANGED Ran)
<1>1. \A q \in Party \ {p}, h \in Handlers : HasRun(q, h)' <=> HasRun(q, h)
  BY Elsewhere
<1>2. \A q \in Party : {h \in Handlers : HasRun(q, h)'} =
        IF q = p THEN {h \in Handlers : HasRun(q, h)} \cup S ELSE {h \in Handlers : HasRun(q, h)}
  BY <1>1
<1>3. Ran' = [q \in Party |-> {h \in Handlers : HasRun(q, h)'}]
  BY DEF Ran, Handlers, EddsaTss!Resharing
<1>. QED  BY <1>2, <1>3, Zenon DEF Ran

LEMMA FailedStep ==
  ASSUME NEW p \in Party, NEW S \in SUBSET Handlers,
         \A q \in Party \ {p} : Position(q)' = Position(q) /\ (q \in New => Slices(q)' = Slices(q)),
         p \notin Faulty => \A h \in Handlers : HasFailed(p, h)' <=> HasFailed(p, h) \/ h \in S,
         p \in Faulty => S = {}
  PROVE  Failed' = [Failed EXCEPT ![p] = @ \cup S] /\ (S = {} => UNCHANGED Failed)
<1>1. \A q \in Party \ {p}, h \in Handlers : HasFailed(q, h)' <=> HasFailed(q, h)
  BY Elsewhere
<1>2. \A q \in Party : {h \in Handlers : q \notin Faulty /\ HasFailed(q, h)'} =
        IF q = p THEN {h \in Handlers : q \notin Faulty /\ HasFailed(q, h)} \cup S
                 ELSE {h \in Handlers : q \notin Faulty /\ HasFailed(q, h)}
  BY <1>1
<1>3. Failed' = [q \in Party |-> {h \in Handlers : q \notin Faulty /\ HasFailed(q, h)'}]
  BY DEF Failed, Handlers, EddsaTss!Resharing
<1>. QED  BY <1>2, <1>3, Zenon DEF Failed

\* What becomes of the messages of a step.
Posted(M) == {[t |-> m.type, from |-> m.from, to |-> m.to, val |-> Standing(m.val)] : m \in M}

LEMMA MailStep ==
  ASSUME NEW M, net' = net \cup M
  PROVE  Mailed' = Mailed \cup Posted(M)
BY DEF Mailed, Posted

\* A message of type t from p to each member q of S, with the content v[q].
ToEach(t, p, S, v) == {[type |-> t, from |-> p, to |-> q, val |-> v[q]] : q \in S}
Letters(t, p, S, v) == {[t |-> t, from |-> p, to |-> q, val |-> Standing(v[q])] : q \in S}

LEMMA PostedEach ==
  ASSUME NEW t, NEW p, NEW S, NEW v
  PROVE  Posted(ToEach(t, p, S, v)) = Letters(t, p, S, v)
<1>. DEFINE M(q) == [type |-> t, from |-> p, to |-> q, val |-> v[q]]
            P(m) == [t |-> m.type, from |-> m.from, to |-> m.to, val |-> Standing(m.val)]
<1>1. \A q : P(M(q)) = [t |-> t, from |-> p, to |-> q, val |-> Standing(v[q])]
  OBVIOUS
<1>2. Posted({M(q) : q \in S}) = {P(m) : m \in {M(q) : q \in S}}
  BY DEF Posted
<1>. HIDE DEF P
<1>3. {P(m) : m \in {M(q) : q \in S}} = {P(M(q)) : q \in S}
  <2>. HIDE DEF M
  <2>. QED  OBVIOUS
<1>4. {P(M(q)) : q \in S} = {[t |-> t, from |-> p, to |-> q, val |-> Standing(v[q])] : q \in S}
  BY <1>1, Zenon
<1>. QED  BY <1>2, <1>3, <1>4, Zenon DEF ToEach, Letters

LEMMA PostedToAll ==
  ASSUME NEW t, NEW p, NEW S, NEW v
  PROVE  Posted(ToAll(t, p, S, v)) = {[t |-> t, from |-> p, to |-> q, val |-> Standing(v)] : q \in S}
<1>. DEFINE M(q) == [type |-> t, from |-> p, to |-> q, val |-> v]
            P(m) == [t |-> m.type, from |-> m.from, to |-> m.to, val |-> Standing(m.val)]
<1>1. \A q : P(M(q)) = [t |-> t, from |-> p, to |-> q, val |-> Standing(v)]
  OBVIOUS
<1>2. Posted(ToAll(t, p, S, v)) = {P(M(q)) : q \in S}
  <2>1. Posted(ToAll(t, p, S, v)) = {P(m) : m \in {M(q) : q \in S}}
    BY DEF Posted, ToAll
  <2>. HIDE DEF P, M
  <2>. QED  BY <2>1
<1>. HIDE DEF P, M
<1>. QED  BY <1>1, <1>2

\* The handlers S of p hand to the broker what the script lets them send: an
\* honest party what is right, a faulty one what it likes.
Sends(p, S) ==
  \E choice \in [Script!Sendings(S) -> UNION {Script!Choices(p, s) : s \in Script!Sendings(S)}] :
    /\ \A s \in Script!Sendings(S) :
         /\ choice[s] \in Script!Choices(p, s)
         /\ p \notin Faulty => /\ \A q \in Script!Group(p, s.to) : q \in Party /\ choice[s][q] = "ok"
                               /\ s.kind = "ack" \/ ~Script!Swallows(p, Ran[p] \cup S)
    /\ Mailed' = Mailed \cup UNION {Script!Mail(p, s, choice[s]) : s \in Script!Sendings(S)}

\* A step of the script that completes the handlers S.
LEMMA CompleteStep ==
  ASSUME NEW p \in Party, NEW h \in Handlers, NEW S \in SUBSET Handlers,
         S = Script!Calls(p, h), Script!Ready(p, h),
         p \notin Faulty => ~Script!MustFail(p, S),
         Sends(p, S),
         Ran' = [Ran EXCEPT ![p] = @ \cup S],
         UNCHANGED <<Failed, cancelled>>
  PROVE  Script!Next
<1>0. Setup' = Setup
  BY DEF Setup
<1>. PICK choice \in [Script!Sendings(S) -> UNION {Script!Choices(p, s) : s \in Script!Sendings(S)}] :
       /\ \A s \in Script!Sendings(S) :
            /\ choice[s] \in Script!Choices(p, s)
            /\ p \notin Faulty => /\ \A q \in Script!Group(p, s.to) : q \in Party /\ choice[s][q] = "ok"
                                  /\ s.kind = "ack" \/ ~Script!Swallows(p, Ran[p] \cup S)
       /\ Mailed' = Mailed \cup UNION {Script!Mail(p, s, choice[s]) : s \in Script!Sendings(S)}
  BY Zenon DEF Sends
<1>1. CASE p \in Faulty
  <2>1. ~Script!Honest(p)
    BY <1>1 DEF Script!Honest, Setup
  <2>2. Script!Deviate(p, h)
    BY <1>0, <2>1 DEF Script!Deviate
  <2>. QED  BY <2>2, HandlerNames DEF Script!Next
<1>2. CASE p \notin Faulty
  <2>1. Script!Honest(p)
    BY <1>2 DEF Script!Honest, Setup
  <2>2. Script!Good(p, S) = UNION {Script!Mail(p, s, choice[s]) : s \in Script!Sendings(S)}
    <3>. DEFINE off == Script!Swallows(p, Ran[p] \cup S)
                right(s) == [q \in Party |-> IF off /\ s.kind \notin {"echo", "ack"} THEN "off" ELSE "ok"]
    <3>1. Script!Good(p, S) = UNION {Script!Mail(p, s, right(s)) : s \in Script!Sendings(S)}
      BY DEF Script!Good
    <3>2. ASSUME NEW s \in Script!Sendings(S)
          PROVE  Script!Mail(p, s, right(s)) = Script!Mail(p, s, choice[s])
      <4>1. \A q \in Script!Group(p, s.to) : right(s)[q] = choice[s][q]
        BY <1>2, Zenon
      <4>. HIDE DEF right
      <4>. QED  BY <4>1 DEF Script!Mail
    <3>. HIDE DEF right
    <3>. QED  BY <3>1, <3>2
  <2>3. Script!Handle(p, h)
    BY <1>0, <1>2, <2>1, <2>2 DEF Script!Handle
  <2>. QED  BY <2>3, HandlerNames DEF Script!Next, Script!Step
<1>. QED  BY <1>1, <1>2

\* A step of the script in which the handler h of an honest party fails.
LEMMA ErrorStep ==
  ASSUME NEW p \in Party \ Faulty, NEW h \in Handlers, Script!Ready(p, h),
         Script!MustFail(p, Script!Calls(p, h)) \/ Script!Suspect(p, Script!Calls(p, h)),
         Failed' = [Failed EXCEPT ![p] = @ \cup {h}],
         UNCHANGED <<Mailed, Ran, cancelled>>
  PROVE  Script!Next
<1>0. Setup' = Setup /\ Script!Honest(p)
  BY DEF Setup, Script!Honest
<1>1. Script!Fail(p, h)
  <2>. DEFINE S == Script!Calls(p, h)
              Early == {m \in Script!Good(p, S) :
                          /\ ~Script!Stopped(p, S)
                          /\ \E g \in S : m.t \in Script!script.handlers[g].eager}
  <2>1. \E early \in SUBSET Early : Mailed' = Mailed \cup early
    <3>1. {} \in SUBSET Early
      OBVIOUS
    <3>. HIDE DEF Early
    <3>. WITNESS {} \in SUBSET Early
    <3>. QED  OBVIOUS
  <2>2. UNCHANGED <<Setup, Ran, cancelled>>
    BY <1>0
  <2>. QED  BY <1>0, <2>1, <2>2 DEF Script!Fail
<1>. QED  BY <1>1, HandlerNames DEF Script!Next, Script!Step

\* Handlers that send nothing.
LEMMA Silence ==
  ASSUME NEW p \in Party, NEW S, Script!Sendings(S) = {}, UNCHANGED Mailed
  PROVE  Sends(p, S)
<1>. DEFINE choice == [s \in {} |-> {}]
<1>1. choice \in [Script!Sendings(S) -> UNION {Script!Choices(p, s) : s \in Script!Sendings(S)}]
  OBVIOUS
<1>2. Mailed' = Mailed \cup UNION {Script!Mail(p, s, choice[s]) : s \in Script!Sendings(S)}
  OBVIOUS
<1>. HIDE DEF choice
<1>. QED  BY <1>1, <1>2, Zenon DEF Sends

\* Handlers that send an acknowledgement.
LEMMA Acknowledgement ==
  ASSUME NEW p \in Party, NEW S, NEW ack, ack.kind = "ack", Script!Sendings(S) = {ack},
         Script!Group(p, ack.to) \subseteq Party,
         Mailed' = Mailed \cup {[t |-> ack.t, from |-> p, to |-> q, val |-> "ok"] :
                                  q \in Script!Group(p, ack.to)}
  PROVE  Sends(p, S)
<1>. DEFINE oks == [q \in Script!Group(p, ack.to) |-> "ok"]
            choice == [s \in {ack} |-> oks]
<1>1. Script!Choices(p, ack) = {[q \in Script!Group(p, ack.to) |-> c] : c \in {"ok"}}
  BY DEF Script!Choices, Script!Contents
<1>2. oks \in Script!Choices(p, ack)
  BY <1>1
<1>3. /\ \A q \in Script!Group(p, ack.to) : q \in Party /\ oks[q] = "ok"
      /\ Mailed' = Mailed \cup Script!Mail(p, ack, oks)
  BY DEF Script!Mail
<1>. HIDE DEF oks
<1>4. choice[ack] = oks /\ choice \in [{ack} -> {oks}]
  OBVIOUS
<1>. HIDE DEF choice
<1>5. choice \in [Script!Sendings(S) -> UNION {Script!Choices(p, s) : s \in Script!Sendings(S)}]
  BY <1>2, <1>4
<1>6. \A s \in Script!Sendings(S) :
        /\ choice[s] \in Script!Choices(p, s)
        /\ p \notin Faulty => /\ \A q \in Script!Group(p, s.to) : q \in Party /\ choice[s][q] = "ok"
                              /\ s.kind = "ack" \/ ~Script!Swallows(p, Ran[p] \cup S)
  BY <1>2, <1>3, <1>4
<1>7. Mailed' = Mailed \cup UNION {Script!Mail(p, s, choice[s]) : s \in Script!Sendings(S)}
  BY <1>3, <1>4
<1>. QED  BY <1>5, <1>6, <1>7 DEF Sends

\* An old party deals: one content per new party in every statement.
LEMMA Dealings ==
  ASSUME NEW p \in Party \ newKey, NEW h \in Handlers \ {"round4New"},
         \A s \in H(h).sends : s.kind = "p2p" /\ s.to = "new",
         NEW choice \in [H(h).sends -> [New -> {"ok", "bad"}]],
         p \notin Faulty => \A s \in H(h).sends, q \in New : choice[s][q] = "ok",
         Mailed' = Mailed \cup
           UNION {{[t |-> s.t, from |-> p, to |-> q, val |-> choice[s][q]] : q \in New} : s \in H(h).sends}
  PROVE  Sends(p, {h})
<1>1. Script!Sendings({h}) = H(h).sends
  BY DEF Script!Sendings, H
<1>2. \A s \in H(h).sends : Script!Choices(p, s) = [New -> {"ok", "bad"}]
  BY GroupOf DEF Script!Choices, Script!Contents
<1>3. choice \in [Script!Sendings({h}) -> UNION {Script!Choices(p, s) : s \in Script!Sendings({h})}]
  <2>1. \A s \in H(h).sends : choice[s] \in UNION {Script!Choices(p, x) : x \in H(h).sends}
    BY <1>2
  <2>. QED  BY <1>1, <2>1, ZenonT(60)
<1>4. \A s \in H(h).sends :
        Script!Mail(p, s, choice[s]) = {[t |-> s.t, from |-> p, to |-> q, val |-> choice[s][q]] : q \in New}
  BY GroupOf DEF Script!Mail
<1>5. Mailed' = Mailed \cup UNION {Script!Mail(p, s, choice[s]) : s \in Script!Sendings({h})}
  BY <1>1, <1>4
<1>6. ~Script!Swallows(p, Ran[p] \cup {h})
  <2>1. "round4New" \notin Ran[p]
    BY Tables DEF Ran, Table
  <2>2. Ran[p] \cup {h} \in SUBSET Handlers
    BY DEF Ran
  <2>. QED  BY <2>1, <2>2, TestsOf, Zenon
<1>7. \A s \in Script!Sendings({h}) :
        /\ choice[s] \in Script!Choices(p, s)
        /\ p \notin Faulty => /\ \A q \in Script!Group(p, s.to) : q \in Party /\ choice[s][q] = "ok"
                              /\ s.kind = "ack" \/ ~Script!Swallows(p, Ran[p] \cup {h})
  BY <1>1, <1>2, <1>6, GroupOf, CommitteeAssumption
<1>. QED  BY <1>3, <1>5, <1>7, Zenon DEF Sends
---------------------------------------------------------------------------
LEMMA Stutter ==
  ASSUME UNCHANGED <<Mailed, Ran, Failed, cancelled>>
  PROVE  [Script!Next]_(Script!vars)
BY DEF Script!vars, Setup

\* Steps of which the script does not speak.
LEMMA HiddenStep ==
  ASSUME UNCHANGED <<net, cancelled>>,
         \A q \in Party : Position(q)' = Position(q) /\ (q \in New => Slices(q)' = Slices(q))
  PROVE  [Script!Next]_(Script!vars)
<1>1. UNCHANGED Mailed
  BY DEF Mailed
<1>2. \A q \in Party, h \in Handlers : /\ HasRun(q, h)' <=> HasRun(q, h)
                                       /\ HasFailed(q, h)' <=> HasFailed(q, h)
  BY Elsewhere
<1>3. UNCHANGED Ran
  BY <1>2 DEF Ran, Handlers, EddsaTss!Resharing
<1>4. UNCHANGED Failed
  BY <1>2 DEF Failed, Handlers, EddsaTss!Resharing
<1>. QED  BY <1>1, <1>3, <1>4, Stutter

\* NewResharing is round1Old of the script, for an old party.
LEMMA StartSim ==
  ASSUME Inv, NEW p \in Party, Start(p)
  PROVE  [Script!Next]_(Script!vars)
<1>. USE CommitteeAssumption, HandlerNames
<1>1. /\ UNCHANGED <<ran, cancelled, eddsaPub, dealt, counted, joiner, newKey, erased>>
      /\ p \notin started /\ started' = started \cup {p}
  BY DEF Start
<1>2. \A q \in Party \ {p} : Position(q)' = Position(q) /\ (q \in New => Slices(q)' = Slices(q))
  BY <1>1 DEF Position, Slices
<1>3. PICK pub \in {"pub", "other"} :
        /\ p \notin Faulty => pub = "pub"
        /\ net' = net \cup (IF p \in Old THEN ToAll("round1", p, New, pub) ELSE {})
  BY Zenon DEF Start
<1>4. \A h \in Handlers : /\ HasRun(p, h)' <=> HasRun(p, h) \/ h \in {"round1Old"} \cap {x \in Handlers : p \in Old}
                          /\ HasFailed(p, h)' <=> HasFailed(p, h)
  <2>1. Returned(p)' = Returned(p)
    BY <1>1 DEF Returned
  <2>2. HasRun(p, "round1Old")' <=> HasRun(p, "round1Old") \/ p \in Old
    BY <1>1, Tables DEF Table
  <2>3. /\ HasRun(p, "round2New")' <=> HasRun(p, "round2New")
        /\ HasRun(p, "round3Old")' <=> HasRun(p, "round3Old")
        /\ HasRun(p, "onShares")' <=> HasRun(p, "onShares")
        /\ HasRun(p, "onDecommitments")' <=> HasRun(p, "onDecommitments")
        /\ HasRun(p, "round4New")' <=> HasRun(p, "round4New")
        /\ HasRun(p, "deliver")' <=> HasRun(p, "deliver")
        /\ HasRun(p, "round5Old")' <=> HasRun(p, "round5Old")
    BY <1>1, <2>1, Tables DEF Table
  <2>4. /\ HasFailed(p, "round1Old")' <=> HasFailed(p, "round1Old")
        /\ HasFailed(p, "round2New")' <=> HasFailed(p, "round2New")
        /\ HasFailed(p, "round3Old")' <=> HasFailed(p, "round3Old")
        /\ HasFailed(p, "onShares")' <=> HasFailed(p, "onShares")
        /\ HasFailed(p, "onDecommitments")' <=> HasFailed(p, "onDecommitments")
        /\ HasFailed(p, "round4New")' <=> HasFailed(p, "round4New")
        /\ HasFailed(p, "deliver")' <=> HasFailed(p, "deliver")
        /\ HasFailed(p, "round5Old")' <=> HasFailed(p, "round5Old")
    BY <1>1, Tables DEF Table
  <2>. QED  BY <2>2, <2>3, <2>4
<1>5. CASE p \in Old
  <2>1. Ran' = [Ran EXCEPT ![p] = @ \cup {"round1Old"}]
    BY <1>2, <1>4, <1>5, RunStep, Zenon
  <2>3. UNCHANGED Failed
    BY <1>2, <1>4, FailedStep, Zenon
  <2>4. Script!Ready(p, "round1Old")
    <3>1. "round1Old" \notin Ran[p] \cup Failed[p]
      BY <1>1, Tables DEF Ran, Failed, Table
    <3>. QED  BY <1>5, <3>1, ReadyWhen, GroupOf, Guards, Collectors
  <2>5. Script!Calls(p, "round1Old") = {"round1Old"}
    BY CallsOf
  <2>6. ~Script!MustFail(p, {"round1Old"})
    BY TestsOf DEF Script!MustFail
  <2>7. Sends(p, {"round1Old"})
    <3>. DEFINE s1 == [t |-> "round1", to |-> "new", kind |-> "p2p"]
                choice == [s \in {s1} |-> [q \in New |-> Standing(pub)]]
    <3>1. H("round1Old").sends = {s1}
      BY Statements
    <3>2. Standing(pub) \in {"ok", "bad"} /\ (p \notin Faulty => Standing(pub) = "ok")
      BY <1>3 DEF Standing
    <3>3. choice \in [{s1} -> [New -> {"ok", "bad"}]] /\ \A q \in New : choice[s1][q] = Standing(pub)
      BY <3>2
    <3>4. Mailed' = Mailed \cup {[t |-> "round1", from |-> p, to |-> q, val |-> Standing(pub)] : q \in New}
      <4>1. net' = net \cup ToAll("round1", p, New, pub)
        BY <1>3, <1>5
      <4>. QED  BY <4>1, MailStep, PostedToAll
    <3>5. s1.kind = "p2p" /\ s1.to = "new" /\ s1.t = "round1"
      OBVIOUS
    <3>. HIDE DEF s1, choice
    <3>6. UNION {{[t |-> s.t, from |-> p, to |-> q, val |-> choice[s][q]] : q \in New} : s \in {s1}}
            = {[t |-> "round1", from |-> p, to |-> q, val |-> Standing(pub)] : q \in New}
      BY <3>3, <3>5
    <3>7. p \notin newKey
      BY <1>1, <1>5 DEF Inv, IInv, KeyInv, TypeOK
    <3>8. /\ choice \in [H("round1Old").sends -> [New -> {"ok", "bad"}]]
          /\ \A s \in H("round1Old").sends : s.kind = "p2p" /\ s.to = "new"
          /\ p \notin Faulty => \A s \in H("round1Old").sends, q \in New : choice[s][q] = "ok"
      BY <3>1, <3>2, <3>3, <3>5
    <3>9. Mailed' = Mailed \cup UNION {{[t |-> s.t, from |-> p, to |-> q, val |-> choice[s][q]] : q \in New} :
                                        s \in H("round1Old").sends}
      BY <3>1, <3>4, <3>6
    <3>. QED  BY <3>7, <3>8, <3>9, Dealings
  <2>. QED  BY <1>1, <2>1, <2>3, <2>4, <2>5, <2>6, <2>7, CompleteStep, Zenon
<1>6. CASE p \notin Old
  <2>1. UNCHANGED Mailed
    BY <1>3, <1>6 DEF Mailed
  <2>2. UNCHANGED Ran
    BY <1>2, <1>4, <1>6, RunStep, Zenon
  <2>3. UNCHANGED Failed
    BY <1>2, <1>4, FailedStep, Zenon
  <2>. QED  BY <1>1, <2>1, <2>2, <2>3, Stutter
<1>. QED  BY <1>5, <1>6

\* Packets that arrive and slices that are stored change nothing in the script.
LEMMA DeliverSim ==
  ASSUME NEW p \in Party, Deliver(p)
  PROVE  [Script!Next]_(Script!vars)
BY HiddenStep DEF Deliver, Receive, Position, Slices

LEMMA StoreSim ==
  ASSUME Inv, NEW p \in New, NEW t \in Round3, StoreRound3(p, t)
  PROVE  [Script!Next]_(Script!vars)
<1>1. \A q \in Party : /\ "round1" \in ran'[q] <=> "round1" \in ran[q]
                       /\ "round2" \in ran'[q] <=> "round2" \in ran[q]
                       /\ "round4" \in ran'[q] <=> "round4" \in ran[q]
  BY DEF StoreRound3, Round3, Inv, IInv, TypeOK
<1>. QED  BY <1>1, HiddenStep DEF StoreRound3, Position, Slices

LEMMA CancelSim ==
  ASSUME NEW p \in Party, CancelContext(p)
  PROVE  [Script!Next]_(Script!vars)
<1>1. \A q \in Party, h \in Handlers : /\ HasRun(q, h)' <=> HasRun(q, h)
                                       /\ HasFailed(q, h)' <=> HasFailed(q, h)
  BY Elsewhere DEF CancelContext, Cancel, Position, Slices
<1>2. UNCHANGED Ran
  BY <1>1 DEF Ran, Handlers, EddsaTss!Resharing
<1>3. UNCHANGED Failed
  BY <1>1 DEF Failed, Handlers, EddsaTss!Resharing
<1>4. UNCHANGED <<Setup, Mailed>>
  BY DEF Setup, Mailed, CancelContext, Cancel
<1>5. p \in (MayCancel \cap Script!Members) \ cancelled /\ cancelled' = cancelled \cup {p}
  BY CommitteeAssumption DEF CancelContext, Cancel, Script!Members, Setup
<1>6. Script!Cancel(p)
  BY <1>2, <1>3, <1>4, <1>5 DEF Script!Cancel
<1>. QED  BY <1>6, ZenonT(60) DEF Script!Next

\* The error of a faulty party: it has stopped.
LEMMA FaultyStops ==
  ASSUME NEW p \in Faulty, UNCHANGED <<net, cancelled>>,
         \A q \in Party \ {p} : Position(q)' = Position(q) /\ (q \in New => Slices(q)' = Slices(q)),
         \A h \in Handlers : HasRun(p, h)' <=> HasRun(p, h)
  PROVE  [Script!Next]_(Script!vars)
<1>1. p \in Party /\ {} \in SUBSET Handlers
  BY CommitteeAssumption
<1>2. UNCHANGED Ran
  BY <1>1, RunStep, Zenon
<1>3. UNCHANGED Failed
  BY <1>1, FailedStep, Zenon
<1>4. UNCHANGED Mailed
  BY DEF Mailed
<1>. QED  BY <1>2, <1>3, <1>4, Stutter

\* What is wrong with a message the script sees.
LEMMA WrongMail ==
  ASSUME Inv, NEW p \in Party, NEW t \in Dealing, NEW m \in Of(p, t), m.val \in {"other", "bad"}
  PROVE  \E k \in Script!Inbox(p, {t}) : k.val = "bad"
<1>1. m \in net /\ m.to = p /\ m.type = t
  BY DEF Of, Inv, IInv, NetInv, RefInv, MailInv
<1>2. [t |-> m.type, from |-> m.from, to |-> m.to, val |-> Standing(m.val)] \in Script!Inbox(p, {t})
  BY <1>1 DEF Script!Inbox, Mailed
<1>3. Standing(m.val) = "bad"
  BY DEF Standing
<1>. QED  BY <1>2, <1>3

\* round2New finds two public keys only if one is not the right one.
LEMMA TwoKeys ==
  ASSUME Inv, NEW p \in New, NEW k \in Of(p, "round1"), NEW m \in Of(p, "round1"), k.val # m.val
  PROVE  \E w \in Of(p, "round1") : w.val = "other"
BY CommitteeAssumption DEF Of, Inv, IInv, NetInv, ContentInv

LEMMA Round2Sim ==
  ASSUME Inv, NEW p \in Party, Round2New(p)
  PROVE  [Script!Next]_(Script!vars)
<1>. USE CommitteeAssumption, HandlerNames
<1>. DEFINE pubs == {m.val : m \in Of(p, "round1")}
<1>1. /\ p \in New /\ "round1" \notin ran[p] /\ Collected(p, "round1")
      /\ ran' = [ran EXCEPT ![p] = @ \cup {"round1"}]
      /\ UNCHANGED <<cancelled, started, dealt, counted, joiner, newKey, erased>>
  BY DEF Round2New
<1>2. /\ \A q \in Party \ {p} : ran'[q] = ran[q]
      /\ ran'[p] = ran[p] \cup {"round1"}
      /\ \A q \in New \ {p} : eddsaPub'[q] = eddsaPub[q]
      /\ eddsaPub[p] = None
  <2>1. \A q \in New \ {p} : eddsaPub'[q] = eddsaPub[q]
    BY DEF Round2New, Inv, IInv, TypeOK
  <2>. QED  BY <1>1, <2>1, ZenonT(60) DEF Inv, IInv, TypeOK, Progress, NewProgress
<1>3. \A q \in Party \ {p} : Position(q)' = Position(q) /\ (q \in New => Slices(q)' = Slices(q))
  BY <1>1, <1>2 DEF Position, Slices
<1>4. Script!Calls(p, "round2New") = {"round2New"}
  BY CallsOf, ZenonT(60)
<1>5. Script!Ready(p, "round2New")
  <2>1. "round2New" \notin Ran[p] \cup Failed[p]
    BY <1>1, <1>2, Tables DEF Ran, Failed, Table
  <2>2. Old \subseteq Senders(p, "round1")
    BY <1>1, OffersOfAll DEF Inv, IInv
  <2>3. /\ H("round2New").role = "new" /\ H("round2New").after = {}
        /\ H("round2New").on = {<<"round1", "old">>}
    BY Guards, Collectors, Zenon
  <2>4. Script!Group(p, "new") = New /\ Script!Group(p, "old") = Old
    BY GroupOf, Zenon
  <2>5. /\ "round2New" \in Handlers \ {"round4New"} /\ p \in Script!Group(p, H("round2New").role)
        /\ H("round2New").after \subseteq Ran[p] /\ Script!Group(p, "old") # {}
        /\ Script!Group(p, "old") \subseteq Senders(p, "round1")
    BY <1>1, <2>1, <2>2, <2>3, <2>4
  <2>. QED  BY <2>1, <2>3, <2>5, ReadyFor, Zenon
<1>6. CASE (p \in cancelled \/ (\E k, m \in pubs : k # m)) /\ UNCHANGED <<net, eddsaPub>>
  <2>1. \A h \in Handlers : /\ HasRun(p, h)' <=> HasRun(p, h)
                            /\ HasFailed(p, h)' <=> HasFailed(p, h) \/ h \in {"round2New"}
    <3>1. /\ p \in New /\ "round1" \in ran'[p] /\ eddsaPub[p] = None /\ eddsaPub'[p] = None
          /\ Returned(p)' = Returned(p) /\ joiner'[p] = joiner[p]
          /\ p \in started' <=> p \in started
          /\ p \in dealt' <=> p \in dealt
          /\ p \in newKey' <=> p \in newKey
          /\ p \in erased' <=> p \in erased
          /\ "round2" \in ran'[p] <=> "round2" \in ran[p]
          /\ "round4" \in ran'[p] <=> "round4" \in ran[p]
      BY <1>1, <1>2, <1>6 DEF Returned
    <3>. QED  BY <3>1, Tables, ZenonT(60) DEF Table
  <2>2. CASE p \in Faulty
    BY <1>1, <1>3, <1>6, <2>1, <2>2, FaultyStops, Zenon
  <2>3. CASE p \notin Faulty
    <3>1. Failed' = [Failed EXCEPT ![p] = @ \cup {"round2New"}]
      BY <1>3, <2>1, <2>3, FailedStep, Zenon
    <3>2. UNCHANGED Ran
      BY <1>3, <2>1, RunStep, Zenon
    <3>3. UNCHANGED Mailed
      BY <1>6, Zenon DEF Mailed
    <3>4. Script!MustFail(p, {"round2New"}) \/ Script!Suspect(p, {"round2New"})
      <4>1. CASE p \in cancelled
        BY <4>1, TestsOf, Zenon DEF Script!MustFail
      <4>2. CASE (\E k, m \in pubs : k # m)
        <5>1. PICK k \in Script!Inbox(p, {"round1"}) : k.val = "bad"
          BY <1>1, <4>2, TwoKeys, WrongMail, Zenon DEF Dealing
        <5>2. Script!Wrong(Script!Inbox(p, H("round2New").screens)) # {}
          BY <5>1, Tests, Zenon DEF Script!Wrong
        <5>. QED  BY <5>2 DEF Script!Suspect, H
      <4>. QED  BY <1>6, <4>1, <4>2
    <3>. QED  BY <1>1, <1>4, <1>5, <2>3, <3>1, <3>2, <3>3, <3>4, ErrorStep, Zenon
  <2>. QED  BY <2>2, <2>3, Zenon
<1>7. CASE /\ p \notin cancelled /\ net' = net \cup ToAll("round2", p, Old \ {p}, "ack")
           /\ \E pub \in pubs : eddsaPub' = [eddsaPub EXCEPT ![p] = pub]
  <2>1. eddsaPub'[p] # None
    <3>1. PICK m \in Of(p, "round1") : eddsaPub' = [eddsaPub EXCEPT ![p] = m.val]
      BY <1>7, Zenon
    <3>2. m.val \in Value
      <4>1. m \in Message
        BY Zenon DEF Of, Inv, IInv, TypeOK
      <4>. QED  BY <4>1 DEF Message
    <3>. QED  BY <1>1, <3>1, <3>2, NoneAssumption DEF Value, Inv, IInv, TypeOK
  <2>2. \A h \in Handlers : /\ HasRun(p, h)' <=> HasRun(p, h) \/ h \in {"round2New"}
                            /\ HasFailed(p, h)' <=> HasFailed(p, h)
    <3>1. /\ p \in New /\ eddsaPub[p] = None /\ eddsaPub'[p] # None /\ "round1" \notin ran[p]
          /\ Returned(p)' = Returned(p) /\ joiner'[p] = joiner[p]
          /\ p \in started' <=> p \in started
          /\ p \in dealt' <=> p \in dealt
          /\ p \in newKey' <=> p \in newKey
          /\ p \in erased' <=> p \in erased
          /\ "round2" \in ran'[p] <=> "round2" \in ran[p]
          /\ "round4" \in ran'[p] <=> "round4" \in ran[p]
      BY <1>1, <1>2, <2>1 DEF Returned
    <3>. QED  BY <3>1, Tables DEF Table
  <2>3. Ran' = [Ran EXCEPT ![p] = @ \cup {"round2New"}]
    BY <1>3, <2>2, RunStep, Zenon
  <2>4. UNCHANGED Failed
    BY <1>3, <2>2, FailedStep, Zenon
  <2>5. ~Script!MustFail(p, {"round2New"})
    BY <1>7, Unstopped
  <2>6. Sends(p, {"round2New"})
    <3>. DEFINE ack == [t |-> "round2", to |-> "otherOld", kind |-> "ack"]
    <3>1. Script!Sendings({"round2New"}) = {ack}
      BY Statements DEF Script!Sendings, H
    <3>2. ack.kind = "ack" /\ ack.to = "otherOld" /\ ack.t = "round2" /\ Standing("ack") = "ok"
      BY DEF Standing
    <3>3. Mailed' = Mailed \cup {[t |-> "round2", from |-> p, to |-> q, val |-> "ok"] : q \in Old \ {p}}
      BY <1>7, <3>2, MailStep, PostedToAll
    <3>4. Script!Group(p, "otherOld") = Old \ {p}
      BY GroupOf
    <3>. HIDE DEF ack
    <3>. QED  BY <3>1, <3>2, <3>3, <3>4, Acknowledgement
  <2>. QED  BY <1>1, <1>4, <1>5, <2>3, <2>4, <2>5, <2>6, CompleteStep, Zenon
<1>. QED  BY <1>6, <1>7, Zenon DEF Round2New

\* The acknowledgements round3Old and round5Old wait for.
LEMMA AcksOfAll ==
  ASSUME Inv, NEW p \in Party, NEW t \in MessageType, AcksIn(p, t),
         \A q \in New \ {p} : <<t, q>> \in want[p]
  PROVE  New \ {p} \subseteq Senders(p, t)
BY CollectedSenders, Zenon DEF AcksIn, Inv, IInv

LEMMA Round3Sim ==
  ASSUME Inv, NEW p \in Party, Round3Old(p)
  PROVE  [Script!Next]_(Script!vars)
<1>. USE CommitteeAssumption, HandlerNames
<1>1. /\ p \in Old \cap started /\ "round2" \notin ran[p] /\ AcksIn(p, "round2")
      /\ ran' = [ran EXCEPT ![p] = @ \cup {"round2"}]
      /\ UNCHANGED <<cancelled, started, eddsaPub, counted, joiner, newKey, erased>>
      /\ dealt' \in {dealt, dealt \cup {p}}
  BY DEF Round3Old
<1>2. /\ \A q \in Party \ {p} : ran'[q] = ran[q]
      /\ ran'[p] = ran[p] \cup {"round2"}
      /\ p \notin dealt
  BY <1>1 DEF Inv, IInv, TypeOK, RefInv, CallInv
<1>3. \A q \in Party \ {p} : Position(q)' = Position(q) /\ (q \in New => Slices(q)' = Slices(q))
  BY <1>1, <1>2 DEF Position, Slices
<1>4. Script!Calls(p, "round3Old") = {"round3Old"}
  BY CallsOf, Zenon
<1>5. Script!Ready(p, "round3Old")
  <2>1. "round3Old" \notin Ran[p] \cup Failed[p] /\ "round1Old" \in Ran[p]
    BY <1>1, <1>2, Tables, Zenon DEF Ran, Failed, Table
  <2>2. New \ {p} \subseteq Senders(p, "round2")
    BY <1>1, Types, AcksOfAll, Zenon DEF Inv, IInv, WantInv
  <2>3. /\ H("round3Old").role = "old" /\ H("round3Old").after = {"round1Old"}
        /\ H("round3Old").on = {<<"round2", "otherNew">>} /\ H("round3Old").solo
    BY Guards, Collectors, Zenon
  <2>4. Script!Group(p, "old") = Old /\ Script!Group(p, "otherNew") = New \ {p}
    BY GroupOf, Zenon
  <2>5. /\ "round3Old" \in Handlers \ {"round4New"} /\ p \in Script!Group(p, H("round3Old").role)
        /\ H("round3Old").after \subseteq Ran[p] /\ H("round3Old").solo
        /\ Script!Group(p, "otherNew") \subseteq Senders(p, "round2")
    BY <1>1, <2>1, <2>2, <2>3, <2>4
  <2>. QED  BY <2>1, <2>3, <2>5, ReadyFor, Zenon
<1>6. CASE p \in cancelled /\ UNCHANGED <<net, dealt>>
  <2>1. \A h \in Handlers : /\ HasRun(p, h)' <=> HasRun(p, h)
                            /\ HasFailed(p, h)' <=> HasFailed(p, h) \/ h \in {"round3Old"}
    <3>1. /\ p \in Old /\ p \notin dealt /\ p \notin dealt' /\ "round2" \in ran'[p]
          /\ Returned(p)' = Returned(p) /\ joiner'[p] = joiner[p] /\ eddsaPub'[p] = eddsaPub[p]
          /\ p \in started' <=> p \in started
          /\ p \in newKey' <=> p \in newKey
          /\ p \in erased' <=> p \in erased
          /\ "round1" \in ran'[p] <=> "round1" \in ran[p]
          /\ "round4" \in ran'[p] <=> "round4" \in ran[p]
      BY <1>1, <1>2, <1>6 DEF Returned
    <3>. QED  BY <3>1, Tables, ZenonT(60) DEF Table
  <2>2. CASE p \in Faulty
    BY <1>1, <1>3, <1>6, <2>1, <2>2, FaultyStops, Zenon
  <2>3. CASE p \notin Faulty
    <3>1. Failed' = [Failed EXCEPT ![p] = @ \cup {"round3Old"}]
      BY <1>3, <2>1, <2>3, FailedStep, Zenon
    <3>2. UNCHANGED Ran
      BY <1>3, <2>1, RunStep, Zenon
    <3>3. UNCHANGED Mailed
      BY <1>6 DEF Mailed
    <3>4. Script!MustFail(p, {"round3Old"})
      BY <1>6, TestsOf, Zenon DEF Script!MustFail
    <3>. QED  BY <1>1, <1>4, <1>5, <2>3, <3>1, <3>2, <3>3, <3>4, ErrorStep, Zenon
  <2>. QED  BY <2>2, <2>3, Zenon
<1>7. CASE p \notin cancelled /\ dealt' = dealt \cup {p}
  <2>1. \A h \in Handlers : /\ HasRun(p, h)' <=> HasRun(p, h) \/ h \in {"round3Old"}
                            /\ HasFailed(p, h)' <=> HasFailed(p, h)
    <3>1. /\ p \in Old /\ p \notin dealt /\ p \in dealt' /\ "round2" \notin ran[p]
          /\ Returned(p)' = Returned(p) /\ joiner'[p] = joiner[p] /\ eddsaPub'[p] = eddsaPub[p]
          /\ p \in started' <=> p \in started
          /\ p \in newKey' <=> p \in newKey
          /\ p \in erased' <=> p \in erased
          /\ "round1" \in ran'[p] <=> "round1" \in ran[p]
          /\ "round4" \in ran'[p] <=> "round4" \in ran[p]
      BY <1>1, <1>2, <1>7 DEF Returned
    <3>. QED  BY <3>1, Tables, ZenonT(60) DEF Table
  <2>2. Ran' = [Ran EXCEPT ![p] = @ \cup {"round3Old"}]
    BY <1>3, <2>1, RunStep, Zenon
  <2>3. UNCHANGED Failed
    BY <1>3, <2>1, FailedStep, Zenon
  <2>4. ~Script!MustFail(p, {"round3Old"})
    BY <1>7, Unstopped
  <2>5. Sends(p, {"round3Old"})
    <3>1. PICK share \in [New -> {"ok", "bad"}], opening \in {"ok", "bad"} :
            /\ p \notin Faulty => opening = "ok" /\ \A q \in New : share[q] = "ok"
            /\ net' = net \cup {[type |-> "round3-1", from |-> p, to |-> q, val |-> share[q]] : q \in New}
                          \cup {[type |-> "round3-2", from |-> p, to |-> q, val |-> opening] : q \in New}
      BY <1>7, Dealt, Zenon
    <3>. DEFINE a == [t |-> "round3-1", to |-> "new", kind |-> "p2p"]
                b == [t |-> "round3-2", to |-> "new", kind |-> "p2p"]
                M1 == {[type |-> "round3-1", from |-> p, to |-> q, val |-> share[q]] : q \in New}
                M2 == {[type |-> "round3-2", from |-> p, to |-> q, val |-> opening] : q \in New}
                P1 == {[t |-> "round3-1", from |-> p, to |-> q, val |-> share[q]] : q \in New}
                P2 == {[t |-> "round3-2", from |-> p, to |-> q, val |-> opening] : q \in New}
                choice == [s \in {a, b} |-> IF s = a THEN share ELSE [q \in New |-> opening]]
    <3>2. Posted(M1) = P1
      <4>1. \A q \in New : Standing(share[q]) = share[q]
        BY Zenon DEF Standing
      <4>2. M1 = ToEach("round3-1", p, New, share)
        BY Zenon DEF ToEach
      <4>3. Letters("round3-1", p, New, share) = P1
        BY <4>1, Zenon DEF Letters
      <4>. HIDE DEF M1, P1
      <4>. QED  BY <4>2, <4>3, PostedEach, Zenon
    <3>3. Posted(M2) = P2
      <4>1. Standing(opening) = opening
        BY DEF Standing
      <4>2. M2 = ToAll("round3-2", p, New, opening)
        BY DEF ToAll
      <4>. HIDE DEF M2
      <4>. QED  BY <4>1, <4>2, PostedToAll
    <3>4. Mailed' = Mailed \cup P1 \cup P2
      <4>. HIDE DEF M1, M2, P1, P2
      <4>1. net' = net \cup (M1 \cup M2)
        BY <3>1 DEF M1, M2
      <4>2. Posted(M1 \cup M2) = Posted(M1) \cup Posted(M2)
        BY DEF Posted
      <4>. QED  BY <3>2, <3>3, <4>1, <4>2, MailStep
    <3>5. /\ a # b /\ a.t = "round3-1" /\ b.t = "round3-2"
          /\ \A s \in {a, b} : s.kind = "p2p" /\ s.to = "new"
      OBVIOUS
    <3>6. H("round3Old").sends = {a, b}
      BY Statements
    <3>. HIDE DEF a, b
    <3>7. /\ choice \in [{a, b} -> [New -> {"ok", "bad"}]]
          /\ choice[a] = share /\ \A q \in New : choice[b][q] = opening
      BY <3>5
    <3>. HIDE DEF choice
    <3>8. UNION {{[t |-> s.t, from |-> p, to |-> q, val |-> choice[s][q]] : q \in New} : s \in {a, b}}
            = P1 \cup P2
      <4>1. {[t |-> a.t, from |-> p, to |-> q, val |-> choice[a][q]] : q \in New} = P1
        BY <3>5, <3>7
      <4>2. {[t |-> b.t, from |-> p, to |-> q, val |-> choice[b][q]] : q \in New} = P2
        BY <3>5, <3>7
      <4>. HIDE DEF P1, P2
      <4>. QED  BY <4>1, <4>2
    <3>. HIDE DEF P1, P2
    <3>9. p \notin newKey
      BY <1>1, <1>2, Zenon DEF Inv, IInv, KeyInv
    <3>10. /\ choice \in [H("round3Old").sends -> [New -> {"ok", "bad"}]]
           /\ \A s \in H("round3Old").sends : s.kind = "p2p" /\ s.to = "new"
           /\ p \notin Faulty => \A s \in H("round3Old").sends, q \in New : choice[s][q] = "ok"
      BY <3>1, <3>5, <3>6, <3>7, ZenonT(60)
    <3>11. Mailed' = Mailed \cup UNION {{[t |-> s.t, from |-> p, to |-> q, val |-> choice[s][q]] : q \in New} :
                                         s \in H("round3Old").sends}
      BY <3>4, <3>6, <3>8, Zenon
    <3>. QED  BY <3>9, <3>10, <3>11, Dealings, Zenon
  <2>. QED  BY <1>1, <1>4, <1>5, <2>2, <2>3, <2>4, <2>5, CompleteStep, Zenon
<1>. QED  BY <1>6, <1>7 DEF Round3Old
---------------------------------------------------------------------------
\* The callback of a round 3 type.
On(t) == IF t = "round3-1" THEN "onShares" ELSE "onDecommitments"

LEMMA OnOf ==
  ASSUME NEW t \in Round3
  PROVE  /\ On(t) \in Handlers \ {"round4New"}
         /\ H(On(t)).role = "new" /\ H(On(t)).after = {"round2New"}
         /\ H(On(t)).on = {<<t, "old">>} /\ H(On(t)).sends = {}
<1>1. CASE t = "round3-1"
  BY <1>1, HandlerNames, Guards, Collectors, Statements, Zenon DEF On
<1>2. CASE t = "round3-2"
  BY <1>2, HandlerNames, Guards, Collectors, Statements, Zenon DEF On
<1>. QED  BY <1>1, <1>2, Zenon DEF Round3

LEMMA OnTable ==
  ASSUME NEW t \in Round3, NEW p \in New
  PROVE  /\ HasRun(p, On(t)) <=> t \in Returned(p)
         /\ HasFailed(p, On(t)) <=> p \notin newKey /\ joiner[p] = t
<1>1. CASE t = "round3-1"
  BY <1>1, Tables, Zenon DEF On, Table
<1>2. CASE t = "round3-2"
  BY <1>2, Tables, Zenon DEF On, Table
<1>. QED  BY <1>1, <1>2, Zenon DEF Round3

\* A callback that has stored its slice and not counted is ready in the script.
LEMMA CallbackReady ==
  ASSUME Inv, NEW p \in New, NEW t \in Round3, t \in stored[p], t \notin counted[p]
  PROVE  /\ Script!Ready(p, On(t))
         /\ joiner[p] = None /\ p \notin newKey /\ Returned(p) = counted[p]
<1>. USE CommitteeAssumption
<1>1. joiner[p] = None /\ p \notin newKey
  BY DEF Inv, RefInv, CallInv, Progress, NewProgress
<1>2. Returned(p) = counted[p]
  BY <1>1, NoneAssumption, Zenon DEF Returned, Inv, IInv, TypeOK, Round3
<1>3. On(t) \notin Ran[p] \cup Failed[p]
  <2>1. ~HasRun(p, On(t))
    BY <1>2, OnTable
  <2>2. ~HasFailed(p, On(t))
    BY <1>1, NoneAssumption, OnTable, Zenon DEF Round3
  <2>. QED  BY <2>1, <2>2 DEF Ran, Failed
<1>4. "round2New" \in Ran[p]
  BY HandlerNames, Tables, Zenon DEF Ran, Table, Inv, Progress, NewProgress
<1>5. Old \subseteq Senders(p, t)
  BY DEF Inv, IInv, StoredInv
<1>6. Script!Group(p, "old") = Old /\ Script!Group(p, "new") = New
  BY GroupOf, Zenon
<1>7. /\ On(t) \in Handlers \ {"round4New"} /\ H(On(t)).role = "new"
      /\ H(On(t)).after = {"round2New"} /\ H(On(t)).on = {<<t, "old">>}
  BY OnOf, Zenon
<1>8. Script!Ready(p, On(t))
  BY <1>3, <1>4, <1>5, <1>6, <1>7, ReadyFor
<1>. QED  BY <1>1, <1>2, <1>8

\* The callback that counts first returns.
LEMMA CountSim ==
  ASSUME Inv, NEW p \in New, NEW t \in Round3, CountRound3(p, t)
  PROVE  [Script!Next]_(Script!vars)
<1>. USE CommitteeAssumption
<1>1. /\ t \in stored[p] /\ t \notin counted[p] /\ counted[p] = {}
      /\ counted' = [counted EXCEPT ![p] = @ \cup {t}]
      /\ UNCHANGED <<net, ran, cancelled, started, eddsaPub, dealt, joiner, newKey, erased>>
  BY DEF CountRound3, runtime
<1>2. counted'[p] = {t} /\ \A q \in New \ {p} : counted'[q] = counted[q]
  BY <1>1 DEF Inv, IInv, TypeOK
<1>3. \A q \in Party \ {p} : Position(q)' = Position(q) /\ (q \in New => Slices(q)' = Slices(q))
  BY <1>1, <1>2, Zenon DEF Position, Slices
<1>4. Script!Ready(p, On(t)) /\ joiner[p] = None /\ p \notin newKey /\ Returned(p) = {}
  BY <1>1, CallbackReady, Zenon
<1>5. Returned(p)' = {t}
  BY <1>1, <1>2, <1>4, NoneAssumption, Zenon DEF Returned, Round3
<1>6. Script!Calls(p, On(t)) = {On(t)}
  <2>1. "onShares" \notin Ran[p] /\ "onDecommitments" \notin Ran[p]
    BY <1>4, Tables, Zenon DEF Ran, Table
  <2>. QED  BY <2>1, CallsOf, Zenon DEF On
<1>7. \A h \in Handlers : /\ HasRun(p, h)' <=> HasRun(p, h) \/ h \in {On(t)}
                          /\ HasFailed(p, h)' <=> HasFailed(p, h)
  BY <1>1, <1>4, <1>5, Tables, HandlerNames, ZenonT(60) DEF Table, On, Round3
<1>0. On(t) \in Handlers /\ {On(t)} \in SUBSET Handlers /\ p \in Party
  BY OnOf
<1>8. Ran' = [Ran EXCEPT ![p] = @ \cup {On(t)}]
  BY <1>0, <1>3, <1>7, RunStep, Zenon
<1>9. UNCHANGED Failed
  BY <1>3, <1>7, FailedStep, Zenon
<1>10. ~Script!MustFail(p, {On(t)})
  BY OnOf, TestsOf DEF Script!MustFail, On
<1>11. Sends(p, {On(t)})
  <2>1. Script!Sendings({On(t)}) = {}
    BY OnOf DEF Script!Sendings, H
  <2>2. UNCHANGED Mailed
    BY <1>1, Zenon DEF Mailed
  <2>. QED  BY <2>1, <2>2, Silence, Zenon
<1>. QED  BY <1>0, <1>1, <1>4, <1>6, <1>8, <1>9, <1>10, <1>11, CompleteStep, Zenon

\* A message of the dealing that the collectors do not hold there is none.
LEMMA HeldAll ==
  ASSUME Inv, NEW p \in New, stored[p] = Round3, NEW m \in net, m.to = p, m.type \in Dealing
  PROVE  m \in Of(p, m.type)
<1>. USE CommitteeAssumption
<1>1. m.from \in Old
  BY Zenon DEF Dealing, Inv, RefInv, MailInv, IInv, NetInv, TypeOK
<1>2. eddsaPub[p] # None
  BY Zenon DEF Round3, Inv, Progress, NewProgress
<1>3. m.from \in Senders(p, m.type)
  BY <1>1, <1>2 DEF Dealing, Inv, IInv, StoredInv, RefInv, OfferInv
<1>4. PICK k \in Of(p, m.type) : k.from = m.from
  BY <1>3 DEF Senders
<1>5. k \in net /\ k.to = p /\ k.type = m.type
  BY <1>4 DEF Of, Inv, IInv, NetInv, RefInv, MailInv
<1>. QED  BY <1>4, <1>5, Zenon DEF Inv, RefInv, MailInv

\* round4New refuses exactly what is wrong in the script.
LEMMA VerifiedMeansRight ==
  ASSUME Inv, NEW p \in New, stored[p] = Round3
  PROVE  Verified(p) <=> \A k \in Script!Inbox(p, Dealing) : k.val # "bad"
<1>. USE CommitteeAssumption
<1>1. /\ eddsaPub[p] # None /\ Old \subseteq Senders(p, "round1")
      /\ \A m \in Of(p, "round1") : m.val = eddsaPub[p]
  BY Zenon DEF Round3, Inv, Progress, NewProgress, RefInv, OfferInv
<1>2. \A t \in Dealing : \A m \in Of(p, t) : m \in net /\ m.type = t
  BY DEF Of, Inv, IInv, NetInv
<1>3. ASSUME Verified(p), NEW k \in Script!Inbox(p, Dealing) PROVE k.val # "bad"
  <2>1. PICK m \in net : /\ m.to = p /\ m.type \in Dealing
                         /\ k = [t |-> m.type, from |-> m.from, to |-> m.to, val |-> Standing(m.val)]
    BY DEF Script!Inbox, Mailed
  <2>2. m \in Of(p, m.type)
    BY <2>1, HeldAll, Zenon
  <2>3. m.val \in {"pub", "ok"}
    BY <1>1, <1>3, <2>1, <2>2, Zenon DEF Verified, Dealing, Round3
  <2>. QED  BY <2>1, <2>3 DEF Standing
<1>4. ASSUME ~Verified(p) PROVE \E k \in Script!Inbox(p, Dealing) : k.val = "bad"
  <2>1. \A t \in Dealing : Script!Inbox(p, {t}) \subseteq Script!Inbox(p, Dealing)
    BY DEF Script!Inbox
  <2>2. CASE eddsaPub[p] # "pub"
    <3>1. PICK m \in Of(p, "round1") : m.val # "pub"
      BY <1>1, <2>2 DEF Senders
    <3>2. "round1" \in Dealing
      BY DEF Dealing
    <3>3. m.val = "other"
      BY <1>2, <3>1, <3>2 DEF Inv, ContentInv
    <3>. QED  BY <2>1, <3>2, <3>3, WrongMail, Zenon
  <2>3. ASSUME NEW t \in Round3, NEW m \in Of(p, t), m.val # "ok"
        PROVE  \E k \in Script!Inbox(p, Dealing) : k.val = "bad"
    <3>1. t \in Dealing
      BY DEF Dealing
    <3>2. m.val = "bad"
      BY <1>2, <2>3, <3>1 DEF Inv, ContentInv
    <3>. QED  BY <2>1, <3>1, <3>2, WrongMail, Zenon
  <2>. QED  BY <1>4, <2>2, <2>3 DEF Verified, Round3
<1>. QED  BY <1>3, <1>4, Zenon

\* The callback that counts second calls round4New: it builds the key and
\* acknowledges it, or the callback ends with the error of round4New.
LEMMA Round4Sim ==
  ASSUME Inv, NEW p \in New, NEW t \in Round3, Round4New(p, t)
  PROVE  [Script!Next]_(Script!vars)
<1>. USE CommitteeAssumption
<1>0. On(t) \in Handlers /\ {On(t), "round4New"} \in SUBSET Handlers /\ p \in Party
  BY OnOf, HandlerNames
<1>1. /\ t \in stored[p] /\ t \notin counted[p] /\ counted[p] # {}
      /\ counted' = [counted EXCEPT ![p] = @ \cup {t}]
      /\ joiner' = [joiner EXCEPT ![p] = t]
      /\ UNCHANGED <<ran, cancelled, started, eddsaPub, dealt, erased>>
      /\ newKey' \in {newKey, newKey \cup {p}}
  BY Zenon DEF Round4New
<1>2. /\ counted'[p] = counted[p] \cup {t} /\ joiner'[p] = t
      /\ \A q \in New \ {p} : counted'[q] = counted[q] /\ joiner'[q] = joiner[q]
      /\ counted'[p] = Round3 /\ stored[p] = Round3
  <2>1. /\ counted'[p] = counted[p] \cup {t} /\ joiner'[p] = t
        /\ \A q \in New \ {p} : counted'[q] = counted[q] /\ joiner'[q] = joiner[q]
    BY <1>1 DEF Inv, IInv, TypeOK
  <2>2. counted[p] \subseteq stored[p] /\ stored[p] \subseteq Round3
    BY Zenon DEF Inv, IInv, TypeOK, Progress, JoinInv
  <2>3. counted'[p] = Round3
    BY <1>1, <2>1, <2>2, Counting, Zenon
  <2>. QED  BY <1>1, <2>1, <2>2, <2>3, Zenon
<1>3. \A q \in Party \ {p} : Position(q)' = Position(q) /\ (q \in New => Slices(q)' = Slices(q))
  <2>1. \A q \in Party \ {p} : (q \in newKey') = (q \in newKey)
    BY <1>1
  <2>. QED  BY <1>1, <1>2, <2>1, Zenon DEF Position, Slices
<1>4. Script!Ready(p, On(t)) /\ joiner[p] = None /\ p \notin newKey /\ Returned(p) = counted[p]
  BY <1>1, CallbackReady
<1>5. Script!Calls(p, On(t)) = {On(t), "round4New"}
  <2>1. PICK u \in Round3 : u # t /\ u \in counted[p]
    BY <1>1, <1>2, Zenon
  <2>2. On(u) \in Ran[p]
    <3>1. HasRun(p, On(u))
      BY <1>4, <2>1, OnTable
    <3>2. On(u) \in Handlers
      BY OnOf
    <3>. QED  BY <3>1, <3>2 DEF Ran
  <2>3. CASE t = "round3-1"
    BY <2>1, <2>2, <2>3, CallsOf DEF On, Round3
  <2>4. CASE t = "round3-2"
    BY <2>1, <2>2, <2>4, CallsOf, Zenon DEF On, Round3
  <2>. QED  BY <2>3, <2>4, Zenon DEF Round3
<1>6. /\ Script!Stopped(p, {On(t), "round4New"}) <=> p \in cancelled
      /\ Script!Refused(p, {On(t), "round4New"}) <=> ~Verified(p)
      /\ ~Script!Internal(p, {On(t), "round4New"})
  BY <1>0, <1>2, TestsOf, VerifiedMeansRight, Zenon
<1>7. CASE (p \in cancelled \/ ~Verified(p)) /\ UNCHANGED <<net, newKey>>
  <2>1. Returned(p)' = Returned(p)
    BY <1>1, <1>2, <1>4, <1>7, Zenon DEF Returned
  <2>2. \A h \in Handlers : /\ HasRun(p, h)' <=> HasRun(p, h)
                            /\ HasFailed(p, h)' <=> HasFailed(p, h) \/ h \in {On(t)}
    <3>1. /\ p \notin newKey /\ p \notin newKey' /\ joiner'[p] = t
          /\ joiner[p] # "round3-1" /\ joiner[p] # "round3-2"
          /\ Returned(p)' = Returned(p) /\ eddsaPub'[p] = eddsaPub[p]
          /\ p \in started' <=> p \in started
          /\ p \in dealt' <=> p \in dealt
          /\ p \in erased' <=> p \in erased
          /\ "round1" \in ran'[p] <=> "round1" \in ran[p]
          /\ "round2" \in ran'[p] <=> "round2" \in ran[p]
          /\ "round4" \in ran'[p] <=> "round4" \in ran[p]
      BY <1>1, <1>2, <1>4, <1>7, <2>1, NoneAssumption, Zenon DEF Round3
    <3>2. CASE t = "round3-1"
      BY <3>1, <3>2, Tables, HandlerNames, ZenonT(60) DEF Table, On
    <3>3. CASE t = "round3-2"
      BY <3>1, <3>3, Tables, HandlerNames, ZenonT(60) DEF Table, On
    <3>. QED  BY <3>2, <3>3, Zenon DEF Round3
  <2>3. CASE p \in Faulty
    BY <1>1, <1>3, <1>7, <2>2, <2>3, FaultyStops, Zenon
  <2>4. CASE p \notin Faulty
    <3>1. Failed' = [Failed EXCEPT ![p] = @ \cup {On(t)}]
      BY <1>0, <1>3, <2>2, <2>4, FailedStep, Zenon
    <3>2. UNCHANGED Ran
      BY <1>0, <1>3, <2>2, RunStep, Zenon
    <3>3. UNCHANGED Mailed
      BY <1>7, Zenon DEF Mailed
    <3>4. Script!MustFail(p, {On(t), "round4New"})
      BY <1>6, <1>7, Zenon DEF Script!MustFail
    <3>. QED  BY <1>0, <1>1, <1>4, <1>5, <2>4, <3>1, <3>2, <3>3, <3>4, ErrorStep, Zenon
  <2>. QED  BY <2>3, <2>4, Zenon
<1>8. CASE /\ p \notin cancelled /\ Verified(p) /\ newKey' = newKey \cup {p}
           /\ net' = net \cup ToAll("round4", p, Acked(p), "ack")
  <2>1. Returned(p)' = Round3
    BY <1>2, <1>8, Zenon DEF Returned
  <2>2. \A h \in Handlers : /\ HasRun(p, h)' <=> HasRun(p, h) \/ h \in {On(t), "round4New"}
                            /\ HasFailed(p, h)' <=> HasFailed(p, h)
    <3>1. \A u \in Round3 : u \in Returned(p) \/ u = t
      BY <1>2, <1>4, Zenon
    <3>. QED  BY <1>1, <1>4, <1>8, <2>1, <3>1, NoneAssumption, Tables, HandlerNames, ZenonT(60)
              DEF Table, On, Round3
  <2>3. Ran' = [Ran EXCEPT ![p] = @ \cup {On(t), "round4New"}]
    BY <1>0, <1>3, <2>2, RunStep, Zenon
  <2>4. UNCHANGED Failed
    BY <1>0, <1>3, <2>2, FailedStep, Zenon
  <2>5. ~Script!MustFail(p, {On(t), "round4New"})
    BY <1>6, <1>8 DEF Script!MustFail
  <2>6. Sends(p, {On(t), "round4New"})
    <3>. DEFINE ack == [t |-> "round4", to |-> "others", kind |-> "ack"]
    <3>1. Script!Sendings({On(t), "round4New"}) = {ack}
      <4>1. H(On(t)).sends = {} /\ H("round4New").sends = {ack}
        BY OnOf, Statements
      <4>2. Script!Sendings({On(t), "round4New"}) = H(On(t)).sends \cup H("round4New").sends
        BY DEF Script!Sendings, H
      <4>. QED  BY <4>1, <4>2, Zenon
    <3>2. ack.kind = "ack" /\ ack.to = "others" /\ ack.t = "round4" /\ Standing("ack") = "ok"
      BY Zenon DEF Standing
    <3>3. Mailed' = Mailed \cup {[t |-> "round4", from |-> p, to |-> q, val |-> "ok"] : q \in Party \ {p}}
      BY <1>8, <3>2, MailStep, PostedToAll DEF Acked
    <3>4. Script!Group(p, "others") = Party \ {p}
      BY GroupOf, ZenonT(60)
    <3>. HIDE DEF ack
    <3>5. /\ Script!Group(p, ack.to) \subseteq Party
          /\ Mailed' = Mailed \cup {[t |-> ack.t, from |-> p, to |-> q, val |-> "ok"] :
                                     q \in Script!Group(p, ack.to)}
      BY <3>2, <3>3, <3>4
    <3>. QED  BY <3>1, <3>2, <3>5, Acknowledgement, Zenon
  <2>. QED  BY <1>0, <1>1, <1>4, <1>5, <2>3, <2>4, <2>5, <2>6, CompleteStep, Zenon
<1>. QED  BY <1>7, <1>8 DEF Round4New

\* The last callback of a pure new party.
LEMMA FinishSim ==
  ASSUME Inv, NEW p \in Party, FinishNew(p)
  PROVE  [Script!Next]_(Script!vars)
<1>. USE CommitteeAssumption, HandlerNames
<1>1. /\ p \in New \ Old /\ "round4" \notin ran[p] /\ Collected(p, "round4")
      /\ ran' = [ran EXCEPT ![p] = @ \cup {"round4"}]
      /\ UNCHANGED <<net, cancelled, started, eddsaPub, dealt, counted, joiner, newKey, erased>>
  BY DEF FinishNew
<1>2. \A q \in Party \ {p} : ran'[q] = ran[q]
  BY <1>1 DEF Inv, IInv, TypeOK
<1>3. ran'[p] = ran[p] \cup {"round4"}
  BY <1>1, Zenon DEF Inv, IInv, TypeOK
<1>4. \A q \in Party \ {p} : Position(q)' = Position(q) /\ (q \in New => Slices(q)' = Slices(q))
  BY <1>1, <1>2 DEF Position, Slices
<1>5. Script!Calls(p, "deliver") = {"deliver"}
  BY CallsOf, Zenon
<1>6. p \in newKey /\ New \ {p} \subseteq Senders(p, "round4")
  <2>1. PICK q \in Party : <<"round4", q>> \in want[p]
    BY <1>1, CollectedSenders, Types, Zenon DEF Inv, IInv
  <2>2. p \in newKey /\ \A x \in New \ {p} : <<"round4", x>> \in want[p]
    BY <1>1, <2>1, Zenon DEF Inv, IInv, WantInv
  <2>. QED  BY <1>1, <2>2, CollectedSenders, Types, Zenon DEF Inv, IInv
<1>7. Script!Ready(p, "deliver")
  <2>1. "deliver" \notin Ran[p] \cup Failed[p] /\ "round4New" \in Ran[p]
    BY <1>1, <1>6, Tables, Zenon DEF Ran, Failed, Table
  <2>2. /\ H("deliver").role = "newOnly" /\ H("deliver").after = {"round4New"}
        /\ H("deliver").on = {<<"round4", "otherNew">>} /\ H("deliver").solo
    BY Guards, Collectors, Zenon
  <2>3. Script!Group(p, "newOnly") = New \ Old /\ Script!Group(p, "otherNew") = New \ {p}
    BY GroupOf, Zenon
  <2>4. /\ "deliver" \in Handlers \ {"round4New"} /\ p \in Script!Group(p, H("deliver").role)
        /\ H("deliver").after \subseteq Ran[p] /\ H("deliver").solo
        /\ Script!Group(p, "otherNew") \subseteq Senders(p, "round4")
    BY <1>1, <1>6, <2>1, <2>2, <2>3, Zenon
  <2>. QED  BY <2>1, <2>2, <2>4, ReadyFor, Zenon
<1>8. \A h \in Handlers : /\ HasRun(p, h)' <=> HasRun(p, h) \/ h \in {"deliver"}
                          /\ HasFailed(p, h)' <=> HasFailed(p, h)
  <2>1. /\ p \in New \ Old /\ "round4" \in ran'[p] /\ "round4" \notin ran[p]
        /\ Returned(p)' = Returned(p) /\ joiner'[p] = joiner[p] /\ eddsaPub'[p] = eddsaPub[p]
        /\ p \in started' <=> p \in started
        /\ p \in dealt' <=> p \in dealt
        /\ p \in newKey' <=> p \in newKey
        /\ p \in erased' <=> p \in erased
        /\ "round1" \in ran'[p] <=> "round1" \in ran[p]
        /\ "round2" \in ran'[p] <=> "round2" \in ran[p]
    BY <1>1, <1>3, Zenon DEF Returned
  <2>. QED  BY <2>1, Tables, Zenon DEF Table
<1>9. Ran' = [Ran EXCEPT ![p] = @ \cup {"deliver"}]
  BY <1>4, <1>8, RunStep, Zenon
<1>10. UNCHANGED Failed
  BY <1>4, <1>8, FailedStep, Zenon
<1>11. ~Script!MustFail(p, {"deliver"})
  BY TestsOf DEF Script!MustFail
<1>12. Sends(p, {"deliver"})
  <2>1. Script!Sendings({"deliver"}) = {}
    BY Statements DEF Script!Sendings, H
  <2>2. UNCHANGED Mailed
    BY <1>1 DEF Mailed
  <2>. QED  BY <2>1, <2>2, Silence
<1>. QED  BY <1>1, <1>5, <1>7, <1>9, <1>10, <1>11, <1>12, CompleteStep, Zenon

\* round5Old erases the old share.
LEMMA Round5Sim ==
  ASSUME Inv, NEW p \in Party, Round5Old(p)
  PROVE  [Script!Next]_(Script!vars)
<1>. USE CommitteeAssumption, HandlerNames
<1>1. /\ p \in dealt /\ "round4" \notin ran[p] /\ AcksIn(p, "round4")
      /\ ran' = [ran EXCEPT ![p] = @ \cup {"round4"}]
      /\ UNCHANGED <<net, cancelled, started, eddsaPub, dealt, counted, joiner, newKey>>
      /\ erased' \in {erased, erased \cup {p}}
  BY Zenon DEF Round5Old
<1>2. /\ \A q \in Party \ {p} : ran'[q] = ran[q]
      /\ ran'[p] = ran[p] \cup {"round4"}
      /\ p \in Old \ erased
  BY <1>1, Zenon DEF Inv, IInv, TypeOK, RefInv, CallInv
<1>3. \A q \in Party \ {p} : Position(q)' = Position(q) /\ (q \in New => Slices(q)' = Slices(q))
  <2>1. \A q \in Party \ {p} : (q \in erased') = (q \in erased)
    BY <1>1
  <2>. QED  BY <1>1, <1>2, <2>1, Zenon DEF Position, Slices
<1>4. Script!Calls(p, "round5Old") = {"round5Old"} /\ UNCHANGED Mailed
  BY <1>1, CallsOf, Zenon DEF Mailed
<1>5. Script!Ready(p, "round5Old")
  <2>1. "round5Old" \notin Ran[p] \cup Failed[p] /\ "round3Old" \in Ran[p]
    BY <1>1, <1>2, Tables, Zenon DEF Ran, Failed, Table
  <2>2. New \ {p} \subseteq Senders(p, "round4")
    BY <1>1, Types, AcksOfAll, Zenon DEF Inv, IInv, WantInv
  <2>3. /\ H("round5Old").role = "old" /\ H("round5Old").after = {"round3Old"}
        /\ H("round5Old").on = {<<"round4", "otherNew">>} /\ H("round5Old").solo
    BY Guards, Collectors, Zenon
  <2>4. Script!Group(p, "old") = Old /\ Script!Group(p, "otherNew") = New \ {p}
    BY GroupOf, Zenon
  <2>5. /\ "round5Old" \in Handlers \ {"round4New"} /\ p \in Script!Group(p, H("round5Old").role)
        /\ H("round5Old").after \subseteq Ran[p] /\ H("round5Old").solo
        /\ Script!Group(p, "otherNew") \subseteq Senders(p, "round4")
    BY <1>2, <2>1, <2>2, <2>3, <2>4, Zenon
  <2>. QED  BY <2>1, <2>3, <2>5, ReadyFor, Zenon
<1>6. CASE p \in cancelled /\ UNCHANGED erased
  <2>1. \A h \in Handlers : /\ HasRun(p, h)' <=> HasRun(p, h)
                            /\ HasFailed(p, h)' <=> HasFailed(p, h) \/ h \in {"round5Old"}
    <3>1. /\ p \in Old /\ p \notin erased /\ p \notin erased' /\ "round4" \in ran'[p]
          /\ Returned(p)' = Returned(p) /\ joiner'[p] = joiner[p] /\ eddsaPub'[p] = eddsaPub[p]
          /\ p \in started' <=> p \in started
          /\ p \in dealt' <=> p \in dealt
          /\ p \in newKey' <=> p \in newKey
          /\ "round1" \in ran'[p] <=> "round1" \in ran[p]
          /\ "round2" \in ran'[p] <=> "round2" \in ran[p]
      BY <1>1, <1>2, <1>6, Zenon DEF Returned
    <3>. QED  BY <3>1, Tables, Zenon DEF Table
  <2>2. CASE p \in Faulty
    BY <1>1, <1>3, <1>6, <2>1, <2>2, FaultyStops
  <2>3. CASE p \notin Faulty
    <3>1. Failed' = [Failed EXCEPT ![p] = @ \cup {"round5Old"}]
      BY <1>3, <2>1, <2>3, FailedStep, Zenon
    <3>2. UNCHANGED Ran
      BY <1>3, <2>1, RunStep, Zenon
    <3>3. Script!MustFail(p, {"round5Old"})
      BY <1>6, TestsOf, Zenon DEF Script!MustFail
    <3>. QED  BY <1>1, <1>4, <1>5, <2>3, <3>1, <3>2, <3>3, ErrorStep, Zenon
  <2>. QED  BY <2>2, <2>3
<1>7. CASE p \notin cancelled /\ erased' = erased \cup {p}
  <2>1. \A h \in Handlers : /\ HasRun(p, h)' <=> HasRun(p, h) \/ h \in {"round5Old"}
                            /\ HasFailed(p, h)' <=> HasFailed(p, h)
    <3>1. /\ p \in Old /\ p \notin erased /\ p \in erased' /\ "round4" \notin ran[p]
          /\ Returned(p)' = Returned(p) /\ joiner'[p] = joiner[p] /\ eddsaPub'[p] = eddsaPub[p]
          /\ p \in started' <=> p \in started
          /\ p \in dealt' <=> p \in dealt
          /\ p \in newKey' <=> p \in newKey
          /\ "round1" \in ran'[p] <=> "round1" \in ran[p]
          /\ "round2" \in ran'[p] <=> "round2" \in ran[p]
      BY <1>1, <1>2, <1>7 DEF Returned
    <3>. QED  BY <3>1, Tables, Zenon DEF Table
  <2>2. Ran' = [Ran EXCEPT ![p] = @ \cup {"round5Old"}]
    BY <1>3, <2>1, RunStep, Zenon
  <2>3. UNCHANGED Failed
    BY <1>3, <2>1, FailedStep, Zenon
  <2>4. ~Script!MustFail(p, {"round5Old"})
    BY <1>7, Unstopped
  <2>5. Sends(p, {"round5Old"})
    <3>1. Script!Sendings({"round5Old"}) = {}
      BY Statements DEF Script!Sendings, H
    <3>. QED  BY <1>4, <3>1, Silence
  <2>. QED  BY <1>1, <1>4, <1>5, <2>2, <2>3, <2>4, <2>5, CompleteStep, Zenon
<1>. QED  BY <1>6, <1>7 DEF Round5Old

LEMMA InitSim == Init => Script!Init
<1>. SUFFICES ASSUME Init PROVE Script!Init
  BY Zenon
<1>1. \A p \in Party, h \in Handlers : ~HasRun(p, h) /\ ~HasFailed(p, h)
  <2>. SUFFICES ASSUME NEW p \in Party PROVE \A h \in Handlers : ~HasRun(p, h) /\ ~HasFailed(p, h)
    OBVIOUS
  <2>1. /\ started = {} /\ dealt = {} /\ newKey = {} /\ erased = {} /\ ran[p] = {}
        /\ p \in New => eddsaPub[p] = None /\ joiner[p] = None /\ Returned(p) = {}
    BY DEF Init, RuntimeInit, Returned
  <2>. QED  BY <2>1, Tables, HandlerNames, NoneAssumption, ZenonT(60) DEF Table
<1>2. Ran = [p \in Party |-> {}]
  BY <1>1 DEF Ran
<1>3. Failed = [p \in Party |-> {}]
  BY <1>1, Zenon DEF Failed
<1>4. Mailed = {} /\ cancelled = {}
  BY DEF Init, RuntimeInit, Mailed
<1>. QED  BY <1>2, <1>3, <1>4 DEF Script!Init

LEMMA NextSim == Inv /\ [Next]_vars => [Script!Next]_(Script!vars)
<1>. SUFFICES ASSUME Inv, [Next]_vars PROVE [Script!Next]_(Script!vars)
  BY Zenon
<1>1. CASE UNCHANGED vars
  BY <1>1, HiddenStep DEF vars, runtime, Position, Slices
<1>2. ASSUME NEW p \in Party, Callback(p) PROVE [Script!Next]_(Script!vars)
  BY <1>2, Round2Sim, Round3Sim, StoreSim, CountSim, Round4Sim, FinishSim, Round5Sim
  DEF Callback
<1>. QED  BY <1>1, <1>2, StartSim, DeliverSim, CancelSim DEF Next

\* The code of resharing.go in steps of single callbacks, with the collectors
\* that feed them and the two halves of the round 3 callbacks, implements the
\* script of the same functions, for committees of every size and every overlap,
\* any faulty old parties and any cancellations: what is proved of the script
\* holds of every interleaving of these steps.
THEOREM ScriptImplemented == Spec => ImplementsScript
<1>1. Inv /\ [Next]_vars => [Script!Next]_(Script!vars)
  BY NextSim
<1>. QED  BY <1>1, InitSim, RefInvariance, PTL DEF Spec, ImplementsScript, Script!Spec
=============================================================================
