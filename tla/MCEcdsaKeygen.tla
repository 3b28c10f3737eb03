---------------------------- MODULE MCEcdsaKeygen ----------------------------
(* An instance of EcdsaKeygen for TLC. *)
EXTENDS EcdsaKeygen

CONSTANTS a, b
=============================================================================
