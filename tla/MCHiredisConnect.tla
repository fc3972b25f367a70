-------------------------- MODULE MCHiredisConnect --------------------------
(* Model-checking instances of HiredisConnect. *)
EXTENDS HiredisConnect
=============================================================================
