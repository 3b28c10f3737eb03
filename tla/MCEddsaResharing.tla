--------------------------- MODULE MCEddsaResharing ---------------------------
(* Instances of EddsaResharing for TLC: committees of model values. *)
EXTENDS EddsaResharingScript

CONSTANTS a, b, c, d
=============================================================================
