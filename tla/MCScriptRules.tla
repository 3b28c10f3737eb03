---------------------------- MODULE MCScriptRules ----------------------------
(* The rules of ScriptRules, evaluated for the protocols of every package. *)
EXTENDS MCRoundScript, ScriptRules

\* They hold, whoever is faulty, for the protocols of one committee and for those
\* of an old and a new committee without common members; in dklstss for every
\* overlap that leaves somebody in one committee only, and in the other packages
\* that allow an overlap when nobody is faulty.
ASSUME CastsAssumption ==
  /\ \A n \in DOMAIN Single : Keeps(Single[n], {"dual"}, TRUE)
  /\ \A n \in DOMAIN Double : Keeps(Double[n], {"old", "new"}, TRUE)
  /\ \A n \in {"eddsatssResharing", "frosttssResharing", "dklstssResharing"},
       K \in SUBSET {"old", "new", "dual"} :
         K # {"dual"} => Keeps(Double[n], K, n = "dklstssResharing")

\* So they do for the setups of the run with faulty parties.
ASSUME FaultySetupsAssumption ==
  \A s \in MCSetups : Keeps(Scripts[s.proto], Cast(s), s.faulty # {})
==============================================================================
