---------------------------- MODULE MCRoundScript ----------------------------
(***************************************************************************)
(* The protocols of every package, and the setups of the runs.             *)
(***************************************************************************)
EXTENDS RoundScript, Naturals, TLC

EcdsaTss == INSTANCE EcdsaTss
EddsaTss == INSTANCE EddsaTss
FrostTss == INSTANCE FrostTss
RistrettoTss == INSTANCE RistrettoTss
DklsTss == INSTANCE DklsTss
MldsaTss == INSTANCE MldsaTss
EcdsaRounds == INSTANCE EcdsaRounds
EddsaRounds == INSTANCE EddsaRounds

\* The protocols of one committee.
Single ==
  [ecdsatssKeygen |-> EcdsaTss!Keygen, ecdsatssSigning |-> EcdsaTss!Signing,
   eddsatssKeygen |-> EddsaTss!Keygen, eddsatssSigning |-> EddsaTss!Signing,
   frosttssKeygen |-> FrostTss!Keygen, frosttssSigning |-> FrostTss!Signing,
   ristrettoKeygen |-> RistrettoTss!Keygen, ristrettoSigning |-> RistrettoTss!Signing,
   dklstssRefresh |-> DklsTss!Refresh, dklstssSigning |-> DklsTss!Signing,
   dklstssCheckedSigning |-> DklsTss!CheckedSigning, dklstssPresign |-> DklsTss!Presign,
   mldsatssSigning |-> MldsaTss!Signing,
   ecdsaSigning |-> EcdsaRounds!Signing,
   eddsaKeygen |-> EddsaRounds!Keygen, eddsaSigning |-> EddsaRounds!Signing]

\* The protocols of an old and a new committee.
Double ==
  [ecdsatssResharing |-> EcdsaTss!Resharing, eddsatssResharing |-> EddsaTss!Resharing,
   frosttssResharing |-> FrostTss!Resharing,
   ristrettoResharing |-> RistrettoTss!Resharing, dklstssResharing |-> DklsTss!Resharing,
   ecdsaResharing |-> EcdsaRounds!Resharing, eddsaResharing |-> EddsaRounds!Resharing]

MCScripts == Single @@ Double

MCParty == {1, 2, 3, 4}

Setup(n, O, N, F, luck) == [proto |-> n, old |-> O, new |-> N, faulty |-> F, luck |-> luck]

\* Three parties of which one may be faulty; two old and two new members of which
\* one may be faulty; a dual member where the package allows one.
MCSingle == {Setup(n, {1, 2, 3}, {1, 2, 3}, F, TRUE) : n \in DOMAIN Single, F \in {{}, {3}}}
MCDouble == {Setup(n, {1, 2}, {3, 4}, F, TRUE) : n \in DOMAIN Double, F \in {{}, {2}, {4}}}
MCDual == {Setup("dklstssResharing", {1, 2}, {2, 3}, F, TRUE) : F \in {{}, {1}, {3}}}

\* An attempt of which no try survives.
MCUnlucky == {Setup("mldsatssSigning", {1, 2, 3}, {1, 2, 3}, {}, FALSE)}

MCSetups == MCSingle \cup MCDouble \cup MCDual \cup MCUnlucky

\* Nobody is faulty; committees of two, three and four.  Where a package can do
\* it, the new committee is a single party, a new one or one of the old, or one
\* that overlaps with the old committee or contains it.
MCLive ==
  {Setup(n, 1 .. k, 1 .. k, {}, TRUE) : n \in DOMAIN Single, k \in 2 .. 3}
  \cup {Setup(n, 1 .. 4, 1 .. 4, {}, TRUE) : n \in {"dklstssRefresh", "eddsatssKeygen"}}
  \cup {Setup(n, {1, 2}, {3, 4}, {}, TRUE) : n \in DOMAIN Double}
  \cup {Setup(n, {1, 2}, N, {}, TRUE) :
          n \in {"eddsatssResharing", "frosttssResharing"}, N \in {{2}, {3}, {2, 3}}}
  \cup {Setup("dklstssResharing", {1, 2}, N, {}, TRUE) : N \in {{2, 3}, {1, 2, 3}}}

\* Party 2 is in both committees.
MCRistrettoDual == {Setup("ristrettoResharing", {1, 2}, {2, 3}, {}, TRUE)}
==============================================================================
