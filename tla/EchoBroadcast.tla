----------------------------- MODULE EchoBroadcast -----------------------------
(***************************************************************************)
(* The echo phase of package dklstss (echo.go): every recipient broadcasts *)
(* a digest of every dealer's commitments and compares the echoes of the   *)
(* others with what it received itself.                                    *)
(*                                                                         *)
(* An echo is a function from dealers to digests; its domain is what the   *)
(* echoer chose to mention.  Parties are numbers, in the order of their    *)
(* keys, which is the order in which echoes are looked at.                 *)
(***************************************************************************)
EXTENDS PartyRuntime, Naturals, FiniteSets

ASSUME PartyAssumption == Party \subseteq Nat /\ IsFiniteSet(Party)

\* commitDigest: a fingerprint of one dealer's commitments, distinct for
\* distinct dealers and distinct commitments.
commitDigest(dealer, vs) == <<dealer, vs>>

\* The digests of a view, a function from dealers to commitments.
Digests(view) == [d \in DOMAIN view |-> commitDigest(d, view[d])]

\* Mutant: the echo may leave dealers out.
TooLarge(e, echo, all) == Cardinality(DOMAIN echo) > Cardinality(all)

\* The echo of e is empty, too large or leaves a dealer out.
Incomplete(e, echo, all) ==
  \/ Cardinality(DOMAIN echo) > Cardinality(all)
  \/ ~ (all \ {e} \subseteq DOMAIN echo)

\* Mutant: an entry that differs from the local view is accepted.
OddWithoutView(e, echo, mine) == {d \in DOMAIN echo : d = e \/ d \notin DOMAIN mine}

\* The entries of the echo of e that are out of order: one on e itself, one on
\* a party that is no dealer, one that differs from the local view.
Odd(e, echo, mine) ==
  {d \in DOMAIN echo : d = e \/ d \notin DOMAIN mine \/ echo[d] # mine[d]}

\* Who is blamed for an odd entry: the dealer, unless the entry should not be
\* there or is about the verifier's own commitments.
Blamed(self, e, d, mine) ==
  IF d = e \/ d = self \/ d \notin DOMAIN mine THEN e ELSE d

\* Whom self may name after looking at one echo; entries come in the random
\* order of a Go map, and the first odd one decides.
Culprits(self, e, echo, mine, all) ==
  IF Incomplete(e, echo, all)
  THEN {e}
  ELSE {Blamed(self, e, d, mine) : d \in Odd(e, echo, mine)}

\* verifyEchoes returns nil: no echo gives a reason to stop.
EchoesAgree(self, echoes, mine, all) ==
  \A e \in DOMAIN echoes : Culprits(self, e, echoes[e], mine, all) = {}

\* The culprits verifyEchoes may name: those of the first echo that fails.
EchoCulprits(self, echoes, mine, all) ==
  LET Named(e) == Culprits(self, e, echoes[e], mine, all)
      First(e) == \A x \in DOMAIN echoes : x < e => Named(x) = {}
  IN UNION {Named(e) : e \in {x \in DOMAIN echoes : First(x)}}
=============================================================================
