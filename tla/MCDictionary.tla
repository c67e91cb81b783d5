---------------------------- MODULE MCDictionary ----------------------------
(* Model values and bounds for checking Dictionary. *)
EXTENDS Dictionary
=============================================================================
