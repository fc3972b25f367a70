--------------------------- MODULE MCHiredisAsync ---------------------------
(* Model-checking instances of HiredisAsync. *)
EXTENDS HiredisAsync
=============================================================================
