------------------------- MODULE EddsaResharingScript -------------------------
(***************************************************************************)
(* The callbacks of EddsaResharing, with their collectors, the two halves  *)
(* of the round 3 callbacks and the join, implement the script that module *)
(* EddsaTss has of the same functions: what is shown of the scripts holds  *)
(* of the finer steps.                                                     *)
(***************************************************************************)
EXTENDS EddsaResharing

EddsaTss == INSTANCE EddsaTss

Handlers == DOMAIN EddsaTss!Resharing.handlers

\* The run in which the committees reshare.
Setup == [proto |-> "resharing", old |-> Old, new |-> New, faulty |-> Faulty, luck |-> TRUE]

\* What a script keeps of a content.
Standing(v) == IF v \in {"other", "bad"} THEN "bad" ELSE "ok"

Mailed == {[t |-> m.type, from |-> m.from, to |-> m.to, val |-> Standing(m.val)] : m \in net}

\* The round 3 callbacks that have returned: not the one on whose goroutine
\* round4New has failed.
Returned(n) == counted[n] \ (IF n \in newKey THEN {} ELSE {joiner[n]})

\* p has run handler h to the end.  A pure new party without peers delivers in
\* round4New, which the script counts as a handler that is still to come.
HasRun(p, h) ==
  CASE h = "round1Old"       -> p \in Old \cap started
    [] h = "round2New"       -> p \in New /\ eddsaPub[p] # None
    [] h = "round3Old"       -> p \in dealt
    [] h = "onShares"        -> p \in New /\ "round3-1" \in Returned(p)
    [] h = "onDecommitments" -> p \in New /\ "round3-2" \in Returned(p)
    [] h = "round4New"       -> p \in newKey
    [] h = "deliver"         -> p \in New \ Old /\ "round4" \in ran[p]
    [] h = "round5Old"       -> p \in erased

\* Handler h of p has ended with an error.
HasFailed(p, h) ==
  CASE h = "round2New"       -> p \in New /\ "round1" \in ran[p] /\ eddsaPub[p] = None
    [] h = "round3Old"       -> p \in Old \ dealt /\ "round2" \in ran[p]
    [] h = "onShares"        -> p \in New \ newKey /\ joiner[p] = "round3-1"
    [] h = "onDecommitments" -> p \in New \ newKey /\ joiner[p] = "round3-2"
    [] h = "round5Old"       -> p \in Old \ erased /\ "round4" \in ran[p]
    [] OTHER                 -> FALSE

Ran == [p \in Party |-> {h \in Handlers : HasRun(p, h)}]
Failed == [p \in Party |-> {h \in Handlers : p \notin Faulty /\ HasFailed(p, h)}]

Script == INSTANCE RoundScript WITH
  Scripts <- [n \in {"resharing"} |-> EddsaTss!Resharing],
  Setups <- {Setup},
  run <- Setup,
  net <- Mailed,
  ran <- Ran,
  failed <- Failed

\* Every step of a callback, of the collectors and of the join is a step of the
\* script, or changes nothing the script speaks of: no interleaving of the two
\* round 3 callbacks, of the two roles of a dual party, or with a cancellation
\* does what the script does not allow.  A faulty party that fails has stopped.
ImplementsScript == Script!Spec
=============================================================================
